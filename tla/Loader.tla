------------------------------- MODULE Loader -------------------------------
(***************************************************************************)
(* main of loader/loader.c as a whole: module Layout says where segments   *)
(* go, module Patches what is done to the code of one.  A segment that may *)
(* be executed is searched as soon as it is in memory, before the next one *)
(* is looked at and before the link pages are made.  Programs have one     *)
(* such segment, the first; a dynamic program is not searched.             *)
(***************************************************************************)
EXTENDS Layout, Patches

loaderVars == <<layoutVars, vars>>

\* do_patches has been called, and has not come to the end.
InDoPatches == status = "load" /\ next = 2 /\ seg < End

LoaderInit == LayoutInit /\ Init

LoadStep == ~InDoPatches /\ LayoutNext /\ UNCHANGED vars
PatchStep == InDoPatches /\ Next /\ UNCHANGED layoutVars

LoaderNext == LoadStep \/ PatchStep

LoaderSpec == LoaderInit /\ [][LoaderNext]_loaderVars
=============================================================================
