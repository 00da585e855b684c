----------------------------- MODULE MCDevices -----------------------------
(***************************************************************************)
(* Small instance of Devices.  An int has 8 bits, so a setting has a count *)
(* of -8..7; as in the program, the most bytes are 2 to the power of one   *)
(* less than the width of the count.  Sizes go beyond the width of an int. *)
(***************************************************************************)
EXTENDS Devices

MCSettings == (-8..7) \X (0..9)
MCDefault == <<4, 0>>
MCForced == <<2, 1>>
MCUmem == {2, 3}
MCPages == 1..4
MCTried == {1, 6, 9}     \* mem, wm97xx and tty0

\* The Pandora's layer, and points at its corners, in it and to its left.
MCLayer == [x |-> 80, y |-> 0, w |-> 640, h |-> 480]
MCPoints == {[x |-> 80, y |-> 479], [x |-> 719, y |-> 0], [x |-> 300, y |-> 200],
             [x |-> 20, y |-> 200]}
=============================================================================
