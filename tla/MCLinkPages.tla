---------------------------- MODULE MCLinkPages ----------------------------
(***************************************************************************)
(* Small instance of LinkPages: pages of 32 words, which take two blocks,  *)
(* two pages for each area and branches of 100 words.  Of the              *)
(* instructions, 192 to 195 are near the first area, 350, 480 and 481 near *)
(* the second, 245 comes in reach of the first one only when its code has  *)
(* grown, and 323 can reach its block in the second one, but that has no   *)
(* way back.                                                               *)
(***************************************************************************)
EXTENDS LinkPages

MCAreas == {0, 1}
MCMapBottom == [a \in MCAreas |-> IF a = 0 THEN 192 ELSE 480]
MCCode == {192, 193, 194, 195, 245, 323, 350, 480, 481}

\* A program that begins on a page but not on a multiple of two pages: the
\* second link page and the program's first words share their high bits.
UnalignedAreas == {0}
UnalignedMapBottom == [a \in UnalignedAreas |-> 224]
UnalignedCode == 224..226
=============================================================================
