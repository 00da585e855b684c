------------------------- MODULE PaletteSync_proofs -------------------------
(***************************************************************************)
(* PaletteReaches for every size of the palette.  It is not inductive: a   *)
(* copy that has been made part of the way must agree with the registers   *)
(* as far as it goes, and the palette being copied must be the one marked  *)
(* last.  That is lost when the program marks a write during the copy,     *)
(* which is what raced records, and need not hold while a write has not    *)
(* been marked yet.                                                        *)
(***************************************************************************)
EXTENDS PaletteSync, TLAPS

\* The entries the copy has got to.
Copied == {i \in Index : flip = "clear" \/ i < index}

CopyAgrees ==
  Copying /\ ~raced /\ app = "run" =>
    copying = latest /\ \A i \in Copied : host_pal[i] = Colour(latest, i)

\* dirty_pal names the palette marked last, and is set while it is copied.
DirtyNames ==
  /\ dirty_pal # "no" => dirty_pal = latest
  /\ Copying => dirty_pal # "no"

IInv == TypeOK /\ DirtyNames /\ CopyAgrees /\ PaletteReaches
-----------------------------------------------------------------------------
\* A write puts a half into the palette and moves to the next one, around the
\* end.
LEMMA PutHalfType ==
  ASSUME TypeOK, NEW d \in Half, PutHalf(d)
  PROVE  mlc_stl_pallt_a' \in Halves /\ mlc_stl_pallt_d' \in [Halves -> Half]
  BY ConstAssumption DEF TypeOK, PutHalf, Halves

\* The initial state satisfies the invariant.
LEMMA InitInv == Init => IInv
<1> SUFFICES ASSUME Init PROVE IInv
  OBVIOUS
<1>1. TypeOK
  <2>1. 0 \in Half /\ 0 \in Halves /\ 0 \in Index
    BY ConstAssumption DEF Halves, Index
  <2>2. mlc_stl_pallt_d \in [Halves -> Half] /\ mlcpalette \in [Index -> Half]
    BY <2>1 DEF Init
  <2>3. DOMAIN host_pal = Index
    BY DEF Init
  <2> QED
    BY <2>1, <2>2, <2>3 DEF Init, TypeOK, Kinds
<1>2. DirtyNames /\ CopyAgrees /\ PaletteReaches
  BY DEF Init, DirtyNames, CopyAgrees, PaletteReaches, Settled, Copying
<1> QED
  BY <1>1, <1>2 DEF IInv

\* The invariant is inductive.
LEMMA StepInv == IInv /\ [Next]_vars => IInv'
<1> SUFFICES ASSUME IInv, [Next]_vars PROVE IInv'
  OBVIOUS
<1> USE DEF IInv, registers, writer, copier, history
<1>1. ASSUME NEW a \in Halves, SelectEntry(a) PROVE IInv'
  <2>1. TypeOK'
    BY <1>1, ConstAssumption DEF SelectEntry, TypeOK, Halves
  <2> QED
    BY <1>1, <2>1
    DEF SelectEntry, DirtyNames, CopyAgrees, PaletteReaches, Settled, HostCurrent,
        Copying, Copied, Colour
<1>2. ASSUME NEW d \in Half, WriteHalf(d) PROVE IInv'
  <2>1. TypeOK'
    BY <1>2, PutHalfType DEF WriteHalf, TypeOK, Kinds
  <2> QED
    BY <1>2, <2>1
    DEF WriteHalf, DirtyNames, CopyAgrees, PaletteReaches, Settled, Copying
<1>3. ASSUME NEW lo \in Half, NEW hi \in Half, WriteEntry(lo, hi) PROVE IInv'
  <2>1. TypeOK'
    BY <1>3, PutHalfType DEF WriteEntry, TypeOK, Kinds
  <2> QED
    BY <1>3, <2>1
    DEF WriteEntry, DirtyNames, CopyAgrees, PaletteReaches, Settled, Copying
<1>4. ASSUME WriteSecond PROVE IInv'
  <2>1. second \in Half
    BY DEF TypeOK
  <2>2. TypeOK'
    BY <1>4, <2>1, PutHalfType, ConstAssumption DEF WriteSecond, TypeOK
  <2> QED
    BY <1>4, <2>2
    DEF WriteSecond, DirtyNames, CopyAgrees, PaletteReaches, Settled, Copying
<1>5. ASSUME NEW i \in Index, NEW d \in Half, WriteMlcPalette(i, d) PROVE IInv'
  <2>1. TypeOK'
    BY <1>5 DEF WriteMlcPalette, TypeOK, Kinds
  <2> QED
    BY <1>5, <2>1
    DEF WriteMlcPalette, DirtyNames, CopyAgrees, PaletteReaches, Settled, Copying
<1>6. ASSUME MarkDirty PROVE IInv'
  <2>1. TypeOK'
    BY <1>6 DEF MarkDirty, TypeOK, Copying
  <2>2. DirtyNames' /\ CopyAgrees' /\ PaletteReaches'
    BY <1>6
    DEF MarkDirty, TypeOK, Kinds, DirtyNames, CopyAgrees, PaletteReaches, Settled, Copying
  <2> QED
    BY <2>1, <2>2
<1>7. ASSUME FlipPaletted PROVE IInv'
  <2>1. TypeOK'
    BY <1>7, ConstAssumption DEF FlipPaletted, TypeOK, Index
  <2>2. DirtyNames'
    BY <1>7 DEF FlipPaletted, DirtyNames, Copying
  <2>3. CASE dirty_pal = "no"
    BY <1>7, <2>1, <2>2, <2>3
    DEF FlipPaletted, CopyAgrees, PaletteReaches, Settled, HostCurrent, Copying, Colour
  <2>4. CASE dirty_pal # "no"
    <3>1. Copied' = {}
      BY <1>7, <2>4 DEF FlipPaletted, Copied, Index
    <3>2. copying' = latest'
      BY <1>7, <2>4 DEF FlipPaletted, DirtyNames
    <3>3. PaletteReaches'
      BY <1>7, <2>4 DEF FlipPaletted, PaletteReaches, Settled
    <3> QED
      BY <2>1, <2>2, <3>1, <3>2, <3>3 DEF CopyAgrees
  <2> QED
    BY <2>3, <2>4
<1>8. ASSUME FlipDirect PROVE IInv'
  <2>1. TypeOK'
    BY <1>8 DEF FlipDirect, TypeOK
  <2> QED
    BY <1>8, <2>1
    DEF FlipDirect, DirtyNames, CopyAgrees, PaletteReaches, Settled, HostCurrent,
        Copying, Colour
<1>9. ASSUME CopyEntry PROVE IInv'
  <2>0. \/ index' = index + 1 /\ index + 1 \in Index /\ flip' = flip
        \/ index' = 0 /\ index = Entries - 1 /\ flip' = "clear"
    BY <1>9, ConstAssumption DEF CopyEntry, TypeOK, Index
  <2>1. TypeOK'
    <3>1. index' \in Index
      BY <2>0, ConstAssumption DEF Index
    <3>2. DOMAIN host_pal' = Index
      BY <1>9 DEF CopyEntry, TypeOK
    <3> QED
      BY <1>9, <3>1, <3>2 DEF CopyEntry, TypeOK
  <2>2. DirtyNames' /\ PaletteReaches'
    BY <1>9 DEF CopyEntry, DirtyNames, PaletteReaches, Settled, Copying
  <2>3. ~raced /\ app = "run" => copying = latest
    BY <1>9 DEF CopyEntry, CopyAgrees, Copying
  <2>4. ASSUME ~raced, app = "run", NEW i \in Copied'
        PROVE  (host_pal[i] = Colour(latest, i))'
    <3>1. i \in Index /\ (i < index \/ i = index)
      <4>1. i \in Index /\ (flip' = "clear" \/ i < index')
        BY <2>4 DEF Copied
      <4>2. index \in Index /\ flip = "copy"
        BY <1>9 DEF CopyEntry, TypeOK
      <4> QED
        BY <2>0, <4>1, <4>2, ConstAssumption DEF Index
    <3>2. Colour(latest, i)' = Colour(latest, i)
      BY <1>9 DEF CopyEntry, Colour
    <3>3. host_pal' = [host_pal EXCEPT ![index] = Colour(copying, index)]
          /\ DOMAIN host_pal = Index
      BY <1>9 DEF CopyEntry, TypeOK
    <3>4. ~raced /\ app = "run"
      BY <1>9, <2>4 DEF CopyEntry
    <3>5. CASE i = index
      BY <2>3, <3>1, <3>2, <3>3, <3>4, <3>5
    <3>6. CASE i < index
      <4>1. i \in Copied
        BY <3>1, <3>6 DEF Copied
      <4>2. host_pal[i] = Colour(latest, i)
        BY <1>9, <3>4, <4>1 DEF CopyEntry, CopyAgrees, Copying
      <4>3. index \in Nat /\ i # index
        BY <3>6 DEF TypeOK, Index
      <4> QED
        BY <3>1, <3>2, <3>3, <4>2, <4>3
    <3> QED
      BY <3>1, <3>5, <3>6
  <2>5. CopyAgrees'
    BY <1>9, <2>3, <2>4 DEF CopyEntry, CopyAgrees
  <2> QED
    BY <2>1, <2>2, <2>5
<1>10. ASSUME ClearDirty PROVE IInv'
  <2>1. TypeOK'
    BY <1>10 DEF ClearDirty, TypeOK
  <2>2. DirtyNames' /\ CopyAgrees'
    BY <1>10 DEF ClearDirty, DirtyNames, CopyAgrees, Copying
  <2>3. ASSUME ~raced, app = "run" PROVE HostCurrent'
    <3>1. Copied = Index
      BY <1>10 DEF ClearDirty, Copied
    <3>2. HostCurrent
      BY <1>10, <2>3, <3>1 DEF ClearDirty, CopyAgrees, Copying, HostCurrent
    <3> QED
      BY <1>10, <3>2 DEF ClearDirty, HostCurrent, Colour
  <2> QED
    BY <1>10, <2>1, <2>2, <2>3 DEF ClearDirty, PaletteReaches, Settled
<1>11. ASSUME Draw PROVE IInv'
  <2>1. TypeOK'
    BY <1>11 DEF Draw, TypeOK
  <2> QED
    BY <1>11, <2>1
    DEF Draw, DirtyNames, CopyAgrees, PaletteReaches, Settled, HostCurrent, Copying, Colour
<1>12. ASSUME UNCHANGED vars PROVE IInv'
  BY <1>12
  DEF vars, TypeOK, DirtyNames, CopyAgrees, PaletteReaches, Settled, HostCurrent,
      Copying, Copied, Colour
<1> QED
  BY <1>1, <1>2, <1>3, <1>4, <1>5, <1>6, <1>7, <1>8, <1>9, <1>10, <1>11, <1>12
  DEF Next, Write, Flip
-----------------------------------------------------------------------------
\* The invariant holds always.
LEMMA Invariance == Spec => []IInv
  BY InitInv, StepInv, PTL DEF Spec

\* The types of the palette registers and the copy, for every number of entries
\* and values (emu.c:107-142).
THEOREM TypeCorrect == Spec => []TypeOK
<1>1. IInv => TypeOK
  BY DEF IInv
<1> QED
  BY <1>1, Invariance, PTL

\* When nothing is being written and nothing is dirty the host has the palette
\* that was marked last, unless it was marked in the middle of a copy: however
\* writes of one half, both halves or the other palette interleave with the
\* thread (emu.c:305-316, 658-682, 708-712).
THEOREM Reaches == Spec => []PaletteReaches
<1>1. IInv => PaletteReaches
  BY DEF IInv
<1> QED
  BY <1>1, Invariance, PTL
=============================================================================
