------------------------------ MODULE MCFbSync ------------------------------
(***************************************************************************)
(* Small instance of FbSync.  High half 1 is upper memory and 0 is not; in *)
(* 16 bpp the frame at <<1, 1>> does not fit below the end of upper        *)
(* memory, in 8 bpp it does.                                               *)
(***************************************************************************)
EXTENDS FbSync

MCLo == {0, 1}
MCHi == {0, 1}
MCBpps == {8, 16}
Frame(h, l) == [hi |-> h, lo |-> l]
MCDefaultAdr == Frame(1, 0)
MCFits == {<<Frame(1, 0), 8>>, <<Frame(1, 0), 16>>, <<Frame(1, 1), 8>>,
           <<Frame(1, 0), 0>>, <<Frame(1, 1), 0>>}
=============================================================================
