----------------------------- MODULE HostVideo -----------------------------
(***************************************************************************)
(* A frame of the program on its way to the host's display: the lookup of  *)
(* fb_sync_thread and mlc_flip in loader/emu.c, the drawing routines of    *)
(* common/host_fb.c and the ring of buffers of common/wiz_video.c.         *)
(*                                                                         *)
(* The program's thread moves the frame and changes its depth and stride   *)
(* at any moment.  fb_sync_thread (when it makes a pass is module FbSync)  *)
(* checks that the frame lies in upper memory, reads the depth once more,  *)
(* sets the display to it if it is another than last time, draws into the  *)
(* ring's next buffer and hands that to the display.  The display takes    *)
(* its registers over when a picture has been sent (VSync).  Programs run  *)
(* by system() drive the same display while the thread is paused.  The     *)
(* loader may crash or be killed anywhere; its thread goes on until it     *)
(* dies as well, and its child until that ends.                            *)
(*                                                                         *)
(* Palettes are module PaletteSync; strides and the contents of frames are *)
(* left out (a copy that leaves upper memory is one of the crashes).       *)
(***************************************************************************)
EXTENDS Integers

CONSTANTS
  Hosts,        \* the devices: "wiz", "caanoo" and "pnd"
  Buffers,      \* FB_BUF_COUNT
  Width, Height,
  Rooms,        \* distances from a frame to the end of upper memory, in bytes
  Depths        \* depths the program selects

FrameBytes(bpp) == (Width * Height * bpp) \div 8

ASSUME HostAssumption ==
  /\ Hosts \subseteq {"wiz", "caanoo", "pnd"}
  /\ Buffers \in Nat /\ Buffers > 2
  /\ Width \in Nat \ {0} /\ Width % 2 = 0 /\ Height \in Nat \ {0}
  /\ Rooms \subseteq Nat
  /\ Depths \subseteq {4, 8, 16, 24}
  /\ FrameBytes(16) \in Rooms /\ 16 \in Depths

Ring == 0..(Buffers - 1)
Unset == -1

VARIABLES
  host,
  room, bpp,           \* the program's registers
  app,                 \* the loader: "run"; "system": it waits for a child;
                       \* "crashed"; "menu": cleaned up after
  paused,              \* fb_sync_thread_paused
  child,               \* a child is there
  fb,                  \* where fb_sync_thread is
  arg,                 \* bpp of mlc_flip
  old_bpp,             \* of mlc_flip
  fb_work_buf,
  address, mode,       \* the display's registers
  dirty,               \* they have been written since the last VSync
  shown,               \* the buffer the display sends
  drawn,               \* history: the depth of the last frame drawn
  unseen,              \* history: flips since the display showed the newest frame
  foreign              \* history: who else has set the display: "address" for
                       \* as long as it is, "mode" likewise

vars == <<host, room, bpp, app, paused, child, fb, arg, old_bpp, fb_work_buf, address,
          mode, dirty, shown, drawn, unseen, foreign>>
program == <<room, bpp>>
loader  == <<app, paused, child>>
thread  == <<fb, arg, old_bpp, fb_work_buf>>
display == <<address, mode, dirty, shown>>
history == <<drawn, unseen, foreign>>

Mode(depth, rot) == [depth |-> depth, rot |-> rot]

\* What is drawn on the Pandora is always 16 bits deep.
DrawnDepth(b) == IF host = "pnd" THEN 16 ELSE b
-----------------------------------------------------------------------------
(* Slips that a change to this code could make; each breaks a property.     *)

NextBuffer_Two(b) == (b + 1) % 2      \* two of the buffers are used

SetMode_Direct(depth, rot) ==         \* 8 bits go with the unhandled ones
  Mode(IF depth = 16 THEN depth ELSE mode.depth, rot /\ host # "caanoo")

Resumed_Not == TRUE                   \* fb_thread_resume is not called
-----------------------------------------------------------------------------
(* The program.                                                             *)

\* MLC_STL_ADR or MLCADDRESS, and the depth in 0x28da or MLCCONTROL.
MoveFrame(r) ==
  /\ app = "run" /\ room' = r
  /\ UNCHANGED <<host, bpp, loader, thread, display, history>>

SelectMode(b) ==
  /\ app = "run" /\ bpp' = b
  /\ UNCHANGED <<host, room, loader, thread, display, history>>
-----------------------------------------------------------------------------
(* The display and its registers.                                           *)

NextBuffer(b) == (b + 1) % Buffers

\* vout_gp2x_set_mode; other depths than 8 and 16 are "unhandled" when the
\* rotation has been set.
SetMode(depth, rot) ==
  Mode(IF depth \in {8, 16} THEN depth ELSE mode.depth, rot /\ host # "caanoo")

VSync ==
  /\ dirty /\ dirty' = FALSE /\ shown' = address
  /\ unseen' = IF "address" \in foreign THEN unseen ELSE 0
  /\ UNCHANGED <<host, program, loader, thread, address, mode, drawn, foreign>>
-----------------------------------------------------------------------------
(* fb_sync_thread.                                                          *)

\* What the check says of a frame with the given room behind it.
FitsUpper(b, r) == FrameBytes(b) <= r

\* fb_sync_thread_paused is looked at before the registers are.
Pass ==
  /\ fb = "idle" /\ ~paused /\ fb' = "lookup"
  /\ UNCHANGED <<host, program, loader, arg, old_bpp, fb_work_buf, display, history>>

LookupOutOfRange ==
  /\ fb = "lookup" /\ ~FitsUpper(bpp, room) /\ fb' = "idle"
  /\ UNCHANGED <<host, program, loader, arg, old_bpp, fb_work_buf, display, history>>

Lookup ==
  /\ fb = "lookup" /\ FitsUpper(bpp, room) /\ fb' = "args"
  /\ UNCHANGED <<host, program, loader, arg, old_bpp, fb_work_buf, display, history>>

\* The depth is read for the call, and mlc_flip begins.
\* host_video_change_bpp does nothing on the Pandora.
ChangeBpp ==
  /\ fb = "args" /\ fb' = "blit" /\ arg' = bpp /\ old_bpp' = bpp
  /\ IF bpp # old_bpp /\ host # "pnd"
     THEN /\ mode' = SetMode(bpp, TRUE) /\ dirty' = (dirty \/ bpp \in {8, 16})
          /\ foreign' = IF bpp \in {8, 16} THEN foreign \ {"mode"} ELSE foreign
     ELSE UNCHANGED <<mode, dirty, foreign>>
  /\ UNCHANGED <<host, program, loader, fb_work_buf, address, shown, drawn, unseen>>

\* The inner loop of the Pandora's routine for 4 bits tests the outer
\* variable: it runs through memory until it faults.
Runaway == host = "pnd" /\ arg = 4

Blit ==
  /\ fb = "blit" /\ arg \in {4, 8, 16} /\ ~Runaway
  /\ drawn' = DrawnDepth(arg) /\ fb' = "drawn" /\ arg' = Unset
  /\ UNCHANGED <<host, program, loader, old_bpp, fb_work_buf, display, unseen, foreign>>

\* 24 bits: "TODO".
NoBlit ==
  /\ fb = "blit" /\ arg \notin {4, 8, 16}
  /\ fb' = "idle" /\ arg' = Unset
  /\ UNCHANGED <<host, program, loader, old_bpp, fb_work_buf, display, history>>

Gone == fb' = "gone" /\ arg' = Unset

\* The fault is not one of the program's registers': it ends the process.
BlitFaults ==
  /\ fb = "blit" /\ Runaway /\ Gone
  /\ app' = IF app \in {"run", "system"} THEN "crashed" ELSE app
  /\ UNCHANGED <<host, program, paused, child, old_bpp, fb_work_buf, display, history>>

\* host_video_flip
Flip ==
  /\ fb = "drawn" /\ fb' = "idle"
  /\ address' = fb_work_buf /\ dirty' = TRUE
  /\ fb_work_buf' = NextBuffer(fb_work_buf)
  /\ unseen' = IF unseen < Buffers THEN unseen + 1 ELSE unseen
  /\ foreign' = foreign \ {"address"}
  /\ UNCHANGED <<host, program, loader, arg, old_bpp, mode, shown, drawn>>
-----------------------------------------------------------------------------
(* Other processes.                                                         *)

\* emu_do_system: what the thread has begun it finishes.
System ==
  /\ app = "run" /\ app' = "system" /\ paused' = TRUE /\ child' = TRUE
  /\ UNCHANGED <<host, program, thread, display, history>>

\* The child is a script with loaders of its own, or anything that draws.
ChildDraws(b, m) ==
  /\ child /\ address' = b /\ mode' = m /\ dirty' = TRUE
  /\ foreign' = {"address", "mode"} /\ unseen' = Buffers
  /\ UNCHANGED <<host, program, loader, thread, shown, drawn>>

Resumed == FALSE
ChildEnds ==
  /\ child /\ child' = FALSE
  /\ IF app = "system" THEN app' = "run" /\ paused' = Resumed ELSE UNCHANGED <<app, paused>>
  /\ UNCHANGED <<host, program, thread, display, history>>

\* "loader may crash eny time", and host_forced_exit kills loaders that wait
\* for a child as well.
Crash ==
  /\ app \in {"run", "system"} /\ app' = "crashed"
  /\ UNCHANGED <<host, program, paused, child, thread, display, history>>

\* Its thread dies after it, wherever it is by then.
ThreadDies ==
  /\ app = "crashed" /\ fb # "gone" /\ Gone
  /\ UNCHANGED <<host, program, loader, old_bpp, fb_work_buf, display, history>>

\* ginge_prep --cleanup: host_video_init and host_video_finish with one buffer,
\* a second after the loader's end: "need to wait for it's threads to die".
\* The Pandora's display belongs to a library.
CleanupMode == SetMode(16, FALSE)
Cleanup ==
  /\ app = "crashed" /\ fb = "gone" /\ host # "pnd"
  /\ app' = "menu"
  /\ mode' = CleanupMode /\ address' = 0 /\ dirty' = TRUE
  /\ foreign' = {"address", "mode"} /\ unseen' = Buffers
  /\ UNCHANGED <<host, program, paused, child, thread, shown, drawn>>
-----------------------------------------------------------------------------
ChildModes == IF host = "pnd" THEN {mode}
              ELSE {SetMode(d, r) : d \in {8, 16}, r \in BOOLEAN}

\* host_video_init and the defaults of emu_init; the display still shows what
\* the menu left.
Init ==
  /\ host \in Hosts
  /\ room = FrameBytes(16) /\ bpp = 16
  /\ app = "run" /\ paused = FALSE /\ child = FALSE
  /\ fb = "idle" /\ arg = Unset /\ old_bpp = 0 /\ fb_work_buf = 1
  /\ address = 0 /\ mode = Mode(16, host # "caanoo") /\ dirty = TRUE /\ shown \in Ring
  /\ drawn = 16 /\ unseen = Buffers /\ foreign = {}

Program == \/ \E r \in Rooms : MoveFrame(r)
           \/ \E b \in Depths : SelectMode(b)
Begin == Pass
Finish == LookupOutOfRange \/ Lookup \/ ChangeBpp \/ Blit \/ NoBlit \/ BlitFaults \/ Flip
Others == \/ System \/ ChildEnds \/ Crash \/ ThreadDies \/ Cleanup
          \/ \E b \in Ring, m \in ChildModes : ChildDraws(b, m)

Next == Program \/ VSync \/ Begin \/ Finish \/ Others

\* The thread is scheduled and its waits end by a timeout; the display sends
\* its pictures.  What programs do is not assumed.
Fairness == WF_vars(Begin) /\ WF_vars(Finish) /\ WF_vars(VSync)

Spec == Init /\ [][Next]_vars /\ Fairness
-----------------------------------------------------------------------------
(* Properties.                                                              *)

TypeOK ==
  /\ host \in Hosts /\ room \in Rooms /\ bpp \in Depths
  /\ app \in {"run", "system", "crashed", "menu"}
  /\ paused \in BOOLEAN /\ child \in BOOLEAN
  /\ fb \in {"idle", "lookup", "args", "blit", "drawn", "gone"}
  /\ arg \in Depths \cup {Unset} /\ old_bpp \in Depths \cup {0} /\ fb_work_buf \in Ring
  /\ address \in Ring /\ shown \in Ring /\ dirty \in BOOLEAN
  /\ mode \in [depth : {8, 16}, rot : BOOLEAN]
  /\ drawn \in {4, 8, 16} /\ unseen \in 0..Buffers
  /\ foreign \subseteq {"address", "mode"}

\* A frame is not drawn into the buffer that is being sent, unless the program
\* has asked for Buffers - 1 frames within one picture: nothing waits for the
\* display (wiz_video.c:34-43).  Another process' buffer may be hit until the
\* first frame after it is shown.
DrawApart == fb = "blit" /\ unseen < Buffers - 1 => fb_work_buf # shown

\* At rest the display has the depth of the frame it sends, also after frames
\* of depths it cannot have ("unhandled bpp request") and changes while a frame
\* was on its way; 4 bits are drawn as they are ("FIXME").  A child that sets
\* another depth is not noticed: old_bpp still says that nothing changed
\* (emu.c:318), until the program changes its own.
FormatMatches ==
  fb \in {"idle", "lookup", "args"} /\ drawn # 4 /\ "mode" \notin foreign
    => mode.depth = drawn /\ (host = "wiz" => mode.rot)

\* Whatever children leave behind, the program's own frames come back to the
\* display while it runs, is in range and has a depth that is drawn.
ScreenBack ==
  []<>(\/ "address" \notin foreign /\ ~dirty
       \/ app # "run" \/ bpp = 24 \/ ~FitsUpper(bpp, room))

\* "as loader may crash eny time, restore screen for the menu" (main.c:275):
\* the menu finds the first buffer, 16 bits and no rotation.
MenuScreen == app = "menu" /\ ~dirty => shown = 0 /\ mode = Mode(16, FALSE)
=============================================================================
