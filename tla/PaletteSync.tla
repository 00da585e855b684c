---------------------------- MODULE PaletteSync ----------------------------
(***************************************************************************)
(* The colour palette of loader/emu.c on its way to the host.              *)
(*                                                                         *)
(* The program's thread writes palette registers one half entry or one     *)
(* entry at a time and sets dirty_pal behind each write.  mlc_flip, on     *)
(* fb_sync_thread, copies the whole palette to the host when it finds      *)
(* dirty_pal set, and clears it after the copy.  Nothing orders the two    *)
(* threads.  A colour is what was written; the conversion to the host's    *)
(* format is left out.                                                     *)
(***************************************************************************)
EXTENDS Naturals

CONSTANTS
  Entries,       \* 256: entries of a palette
  Half           \* values of a palette register

ASSUME ConstAssumption == Entries \in Nat \ {0} /\ 0 \in Half

VARIABLES
  mlc_stl_pallt_a,    \* the half entry written next
  mlc_stl_pallt_d,    \* the GP2X palette, in halves
  mlcpalette,         \* the Wiz palette
  dirty_pal,          \* "no", or the palette written last
  host_pal,
  second,             \* the other half of a 32-bit write, or 0
  app,                \* "run", "second": between the halves, "mark": dirty_pal
                      \* is yet to be set
  marks,              \* what it is to be set to
  flip,               \* "idle", "copy", "clear" or "draw"
  copying,            \* the palette being copied
  index,              \* the entry copied next
  latest,             \* history: the palette that was marked last
  raced               \* history: it was marked while a copy was being made

vars == <<mlc_stl_pallt_a, mlc_stl_pallt_d, mlcpalette, dirty_pal, host_pal, second, app,
          marks, flip, copying, index, latest, raced>>
registers == <<mlc_stl_pallt_a, mlc_stl_pallt_d, mlcpalette>>
writer  == <<second, app, marks>>
copier  == <<flip, copying, index, host_pal>>
history == <<latest, raced>>

Kinds == {"mmsp2", "pollux"}
Index == 0..(Entries - 1)
Halves == 0..(2 * Entries - 1)

\* The colour of an entry of a palette, as host_video_update_pal32 or _pal16
\* takes it.
Colour(kind, i) ==
  IF kind = "mmsp2" THEN <<mlc_stl_pallt_d[2 * i], mlc_stl_pallt_d[2 * i + 1]>>
  ELSE <<mlcpalette[i]>>

Copying == flip \in {"copy", "clear"}

Init ==
  /\ mlc_stl_pallt_a = 0
  /\ mlc_stl_pallt_d = [h \in Halves |-> 0] /\ mlcpalette = [i \in Index |-> 0]
  /\ dirty_pal = "mmsp2" /\ latest = "mmsp2"
  /\ host_pal = [i \in Index |-> <<0>>]
  /\ second = 0 /\ app = "run" /\ marks = "mmsp2"
  /\ flip = "idle" /\ copying = "mmsp2" /\ index = 0 /\ raced = FALSE
-----------------------------------------------------------------------------
(* Slips that a change to this code could make; each breaks a property.     *)

MarkDirty_IfClean ==       \* keeps the kind that is already set
  /\ app = "mark"
  /\ dirty_pal' = (IF dirty_pal = "no" THEN marks ELSE dirty_pal)
  /\ latest' = marks /\ raced' = Copying
  /\ app' = "run"
  /\ UNCHANGED <<registers, copier, second, marks>>
-----------------------------------------------------------------------------
(* The program's thread.                                                    *)

\* xwrite16 to MLC_STL_PALLT_A.
SelectEntry(a) ==
  /\ app = "run"
  /\ mlc_stl_pallt_a' = a % (2 * Entries)
  /\ UNCHANGED <<mlc_stl_pallt_d, mlcpalette, dirty_pal, writer, copier, history>>

PutHalf(d) ==
  /\ mlc_stl_pallt_d' = [mlc_stl_pallt_d EXCEPT ![mlc_stl_pallt_a] = d]
  /\ mlc_stl_pallt_a' = (mlc_stl_pallt_a + 1) % (2 * Entries)

\* xwrite16 to MLC_STL_PALLT_D.
WriteHalf(d) ==
  /\ app = "run"
  /\ PutHalf(d) /\ app' = "mark" /\ marks' = "mmsp2"
  /\ UNCHANGED <<mlcpalette, dirty_pal, second, copier, history>>

\* xwrite32 to MLC_STL_PALLT_D: "special unaligned 32bit write".
WriteEntry(lo, hi) ==
  /\ app = "run"
  /\ PutHalf(lo) /\ second' = hi /\ app' = "second" /\ marks' = "mmsp2"
  /\ UNCHANGED <<mlcpalette, dirty_pal, copier, history>>

WriteSecond ==
  /\ app = "second"
  /\ PutHalf(second) /\ second' = 0 /\ app' = "mark"
  /\ UNCHANGED <<mlcpalette, dirty_pal, marks, copier, history>>

\* xwrite32 to MLCPALETTE0 and 1: index and colour in one word.
WriteMlcPalette(i, d) ==
  /\ app = "run"
  /\ mlcpalette' = [mlcpalette EXCEPT ![i] = d]
  /\ app' = "mark" /\ marks' = "pollux"
  /\ UNCHANGED <<mlc_stl_pallt_a, mlc_stl_pallt_d, dirty_pal, second, copier, history>>

MarkDirty ==
  /\ app = "mark"
  /\ dirty_pal' = marks /\ latest' = marks
  /\ raced' = Copying
  /\ app' = "run"
  /\ UNCHANGED <<registers, copier, second, marks>>
-----------------------------------------------------------------------------
(* mlc_flip.  dirty_pal is read twice, to see whether it is set and which   *)
(* palette it names; only this thread clears it, so the two are one step.   *)

FlipPaletted ==
  /\ flip = "idle"
  /\ IF dirty_pal # "no"
     THEN flip' = "copy" /\ copying' = dirty_pal /\ index' = 0
     ELSE flip' = "draw" /\ UNCHANGED <<copying, index>>
  /\ UNCHANGED <<registers, dirty_pal, host_pal, writer, history>>

\* More than 8 bpp: the palette is left alone.
FlipDirect ==
  /\ flip = "idle" /\ flip' = "draw"
  /\ UNCHANGED <<registers, dirty_pal, host_pal, copying, index, writer, history>>

CopyEntry ==
  /\ flip = "copy"
  /\ host_pal' = [host_pal EXCEPT ![index] = Colour(copying, index)]
  /\ IF index + 1 < Entries
     THEN index' = index + 1 /\ UNCHANGED flip
     ELSE index' = 0 /\ flip' = "clear"
  /\ UNCHANGED <<registers, dirty_pal, copying, writer, history>>

ClearDirty ==
  /\ flip = "clear"
  /\ dirty_pal' = "no" /\ flip' = "draw"
  /\ UNCHANGED <<registers, host_pal, copying, index, writer, history>>

Draw ==
  /\ flip = "draw" /\ flip' = "idle"
  /\ UNCHANGED <<registers, dirty_pal, host_pal, copying, index, writer, history>>
-----------------------------------------------------------------------------
Write ==
  \/ \E a \in Halves : SelectEntry(a)
  \/ \E d \in Half : WriteHalf(d)
  \/ \E lo, hi \in Half : WriteEntry(lo, hi)
  \/ WriteSecond
  \/ \E i \in Index, d \in Half : WriteMlcPalette(i, d)
  \/ MarkDirty

Flip == FlipPaletted \/ FlipDirect \/ CopyEntry \/ ClearDirty \/ Draw

Next == Write \/ Flip

Spec == Init /\ [][Next]_vars
-----------------------------------------------------------------------------
TypeOK ==
  /\ mlc_stl_pallt_a \in Halves
  /\ mlc_stl_pallt_d \in [Halves -> Half] /\ mlcpalette \in [Index -> Half]
  /\ dirty_pal \in Kinds \cup {"no"} /\ latest \in Kinds
  /\ DOMAIN host_pal = Index
  /\ second \in Half
  /\ app \in {"run", "second", "mark"} /\ marks \in Kinds
  /\ flip \in {"idle", "copy", "clear", "draw"} /\ copying \in Kinds
  /\ index \in Index /\ raced \in BOOLEAN

HostCurrent == \A i \in Index : host_pal[i] = Colour(latest, i)
Settled == app = "run" /\ ~Copying /\ dirty_pal = "no"

\* When nothing is being written and nothing is dirty, the host has the palette
\* the program wrote last, unless that was marked in the middle of a copy.
PaletteReaches == Settled /\ ~raced => HostCurrent

\* The same without the exception, which is what leaving the palette alone
\* until it is dirty ("only pass pal to host if it's dirty") rests on.
PaletteNeverLost == Settled => HostCurrent
=============================================================================
