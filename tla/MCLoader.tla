------------------------------ MODULE MCLoader ------------------------------
(***************************************************************************)
(* The instances of MCLayout and MCPatches put together.  What is in a     *)
(* program does not depend on where it goes, so all address spaces are     *)
(* combined with one program, and all programs with one address space, in  *)
(* which the second segment is refused once the first has been searched.   *)
(***************************************************************************)
EXTENDS Loader, MCLayout, MCPatches

OneProgram ==
  /\ ptr = 4 /\ size = 10
  /\ mem = Image(Plain(2) \o Plain(3))
OnePlace ==
  /\ ptr \in Ptrs /\ size \in (IF ptr = 4 THEN Sizes ELSE {36})
  /\ is_dl = FALSE /\ proc = <<[first |-> 19, last |-> 22, named |-> TRUE]>>
  /\ segs = <<Seg(32, 3), Seg(80, 4)>>

MCInit == (OneProgram \/ OnePlace) /\ LoaderInit
MCSpec == MCInit /\ [][LoaderNext]_loaderVars
=============================================================================
