----------------------------- MODULE MCBlitter -----------------------------
(***************************************************************************)
(* Small instance of Blitter: rectangles of up to three by three pixels in *)
(* sixteen bytes of an address space of 64, at every kind of alignment, at *)
(* both ends and outside, with strides of every sign, rows longer than     *)
(* their stride, and strides that go around the address space.             *)
(***************************************************************************)
EXTENDS Blitter, TLC

Places == {-2, 0, 1, 2, 7, 10, 14}
MCStrides == {-16, -2, 0, 2, 4, 6, 7, 30}
NoCopy == [src |-> 0, sstrd |-> 0, srcenb |-> FALSE, invideo |-> FALSE,
           transparent |-> FALSE, trc |-> 0]

Area(f) == [w |-> f[1], h |-> f[2], bpp |-> f[3], dst |-> f[4], dstrd |-> f[5], frame |-> f[6]]
Fills == {NoCopy @@ Area(f) : f \in (0..3) \X (0..3) \X {8, 16} \X Places \X MCStrides \X {2}}

Source(f) == [src |-> f[1], sstrd |-> f[2], srcenb |-> TRUE, invideo |-> f[3],
              transparent |-> f[4], trc |-> 10]
Copied == {Area(f) : f \in {0, 2, 3} \X {0, 2, 3} \X {8, 16} \X Places \X {-2, 4, 6, 7, 30} \X {2}}
Sources == {Source(f) : f \in {-1, 0, 3, 8, 14} \X {-16, 4, 6, 30} \X {TRUE} \X BOOLEAN}
             \cup {Source(<<0, 4, FALSE, FALSE>>)}

MCBlits == Fills \cup {a @@ s : a \in Copied, s \in Sources}
=============================================================================
