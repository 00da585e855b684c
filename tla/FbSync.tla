------------------------------- MODULE FbSync -------------------------------
(***************************************************************************)
(* The screen refresh protocol of loader/emu.c.                            *)
(*                                                                         *)
(* Two threads share the display registers of the emulated chip and one    *)
(* futex word.  The program's thread writes the registers (every write is  *)
(* a hardware access that the SIGSEGV patching turned into a call of       *)
(* emu_handle_op), draws with the blitter and runs other programs with     *)
(* system().  fb_sync_thread waits on the futex, with a timeout, and       *)
(* copies the frame the registers point at to the host screen.             *)
(*                                                                         *)
(* A step is the code between two accesses to what the threads share.      *)
(* What only changes log messages or the length of a timeout (invalid_fb_  *)
(* addr, manual_refresh, ts) is left out: a timed wait may end at any      *)
(* moment here.  The palette half of mlc_flip is module PaletteSync.       *)
(***************************************************************************)
EXTENDS Naturals

CONSTANTS
  Lo, Hi,       \* the halves of a frame address that programs write
  Bpps,         \* the depths programs select
  Fits,         \* <<address, bpp>> pairs whose frame lies inside upper memory
  DefaultAdr,   \* the address emu_init leaves in mlc_stl_adr
  FrameMask,    \* 0x0f: a flip out of FrameMask + 1 looks at the keys
  MaxErrors     \* bound on the waits that end with an unexpected error

Adr == [hi : Hi, lo : Lo]
ZeroAdr == [hi |-> 0, lo |-> 0]         \* the registers are static, so zero

ASSUME ConstAssumption ==
  /\ 0 \in Lo /\ 0 \in Hi
  /\ DefaultAdr \in Adr
  /\ 16 \in Bpps
  /\ Fits \subseteq Adr \X (Bpps \cup {0})
  /\ <<DefaultAdr, 16>> \in Fits
  /\ \A b \in Bpps \cup {0} : <<ZeroAdr, b>> \notin Fits
  /\ FrameMask \in Nat
  /\ MaxErrors \in Nat

VARIABLES
  futex,          \* fb_sync_thread_futex
  paused,         \* fb_sync_thread_paused
  mlc_stl_adr,    \* the frame address, written whole or in halves
  old_adr,        \* mmsp2.old_mlc_stl_adr
  bpp,            \* mmsp2.v.bpp
  app,            \* where the program's thread is
  fb,             \* where fb_sync_thread is
  gp2x_fb,        \* the frame fb_sync_thread is copying
  frame_counter,  \* modulo FrameMask + 1
  errors,         \* waits that ended with an unexpected error
  kill_key,       \* the user holds the kill key
  exited,         \* host_forced_exit has killed the process
  asked,          \* history: a refresh was asked for and not served
  stale,          \* history: what was asked for is not on the screen
  late            \* history: flips begun since fb_thread_pause

vars == <<futex, paused, mlc_stl_adr, old_adr, bpp, app, fb, gp2x_fb,
          frame_counter, errors, kill_key, exited, asked, stale, late>>

registers == <<mlc_stl_adr, old_adr, bpp>>
history   == <<asked, stale, late>>
user      == <<kill_key, exited>>

AppInit == {"cloning", "init_wait", "init_sleep", "defaults", "default_mode"}
AppRuns == {"run", "post", "wake", "settle", "system"}
FbInit  == {"none", "start", "start_wake"}
FbLoop  == {"wait", "blocked", "clear", "clear_error", "check_paused",
            "lookup", "flip", "count", "check_keys"}
-----------------------------------------------------------------------------
(* Slips that a change to this code could make; each breaks a property.     *)

StartWake_NoWake ==       \* the word is cleared and nobody is woken
  /\ fb = "start_wake" /\ fb' = "wait"
  /\ UNCHANGED <<futex, paused, registers, app, gp2x_fb, frame_counter, errors,
                 user, history>>

PostRequest_NoWord ==     \* only wakes
  /\ app = "post" /\ app' = "wake"
  /\ UNCHANGED <<futex, paused, registers, fb, gp2x_fb, frame_counter, errors,
                 user, history>>

FutexTimeout_Never == FALSE      \* the wait has no timeout

CheckPaused_Never ==      \* fb_sync_thread_paused is not looked at
  /\ fb = "check_paused" /\ fb' = "lookup"
  /\ UNCHANGED <<futex, paused, registers, app, gp2x_fb, frame_counter, errors,
                 user, history>>

CountFrame_NoKeys ==      \* always goes on to the next frame
  /\ fb = "count"
  /\ frame_counter' = (frame_counter + 1) % (FrameMask + 1)
  /\ fb' = "wait"
  /\ UNCHANGED <<futex, paused, registers, app, gp2x_fb, errors, user, history>>
-----------------------------------------------------------------------------
(* emu_init, on the program's thread: start fb_sync_thread and wait until   *)
(* it has said on the futex that it runs, then set the default registers.   *)

Init ==
  /\ futex = 0 /\ paused = FALSE
  /\ mlc_stl_adr = ZeroAdr /\ old_adr = ZeroAdr /\ bpp = 0
  /\ app = "cloning" /\ fb = "none"
  /\ gp2x_fb = ZeroAdr /\ frame_counter = 0 /\ errors = 0
  /\ kill_key = FALSE /\ exited = FALSE
  /\ asked = FALSE /\ stale = FALSE /\ late = 0

Clone ==
  /\ app = "cloning"
  /\ futex' = 1 /\ fb' = "start" /\ app' = "init_wait"
  /\ UNCHANGED <<paused, registers, gp2x_fb, frame_counter, errors, user, history>>

\* FUTEX_WAIT for the value 1: the kernel compares and blocks in one step.
InitWait ==
  /\ app = "init_wait"
  /\ app' = IF futex = 1 THEN "init_sleep" ELSE "defaults"
  /\ UNCHANGED <<futex, paused, registers, fb, gp2x_fb, frame_counter, errors,
                 user, history>>

SetDefaultAdr ==
  /\ app = "defaults"
  /\ mlc_stl_adr' = DefaultAdr /\ app' = "default_mode"
  /\ UNCHANGED <<futex, paused, old_adr, bpp, fb, gp2x_fb, frame_counter, errors,
                 user, history>>

SetDefaultMode ==
  /\ app = "default_mode"
  /\ bpp' = 16 /\ app' = "run"
  /\ UNCHANGED <<futex, paused, mlc_stl_adr, old_adr, fb, gp2x_fb, frame_counter,
                 errors, user, history>>
-----------------------------------------------------------------------------
(* What the program does with the display once it runs.                     *)

\* xwrite16 to 0x2912: one half of the address, no refresh asked for.
WriteAdrLow(l) ==
  /\ app = "run"
  /\ mlc_stl_adr' = [mlc_stl_adr EXCEPT !.lo = l]
  /\ UNCHANGED <<futex, paused, old_adr, bpp, app, fb, gp2x_fb, frame_counter,
                 errors, user, history>>

\* The address is now a; if it moved since the last time a refresh was asked
\* for, ask for one.  Only this thread reads old_mlc_stl_adr, so assigning it
\* before the futex calls rather than after them is not observable.
MoveFrame(a) ==
  /\ app = "run"
  /\ mlc_stl_adr' = a /\ old_adr' = a
  /\ IF a # old_adr
     THEN app' = "post" /\ asked' = TRUE /\ stale' = TRUE
     ELSE UNCHANGED <<app, asked, stale>>
  /\ UNCHANGED <<futex, paused, bpp, fb, gp2x_fb, frame_counter, errors, user, late>>

WriteAdrHigh(h) == MoveFrame([mlc_stl_adr EXCEPT !.hi = h])   \* xwrite16, 0x2914
WriteAdr32(a)   == MoveFrame(a)                   \* xwrite32, MLCADDRESS0 and 1

\* xwrite16 to 0x28da, xwrite32 to MLCCONTROL0 and 1.
SelectMode(b) ==
  /\ app = "run"
  /\ bpp' = b
  /\ UNCHANGED <<futex, paused, mlc_stl_adr, old_adr, app, fb, gp2x_fb,
                 frame_counter, errors, user, history>>

\* blitter_do with to_screen set: the pixels are drawn, then a refresh is
\* asked for.
BlitToScreen ==
  /\ app = "run"
  /\ app' = "post" /\ asked' = TRUE /\ stale' = TRUE
  /\ UNCHANGED <<futex, paused, registers, fb, gp2x_fb, frame_counter, errors,
                 user, late>>

PostRequest ==
  /\ app = "post"
  /\ futex' = 1 /\ app' = "wake"
  /\ UNCHANGED <<paused, registers, fb, gp2x_fb, frame_counter, errors, user, history>>

\* FUTEX_WAKE wakes fb_sync_thread if the kernel holds it, and is lost if not.
WakeThread ==
  /\ app = "wake"
  /\ app' = "run"
  /\ fb' = IF fb = "blocked" THEN "clear" ELSE fb
  /\ UNCHANGED <<futex, paused, registers, gp2x_fb, frame_counter, errors, user, history>>

\* emu_do_system: fb_thread_pause, system(), fb_thread_resume.  The usleep in
\* fb_thread_pause is a step of its own, and system() may last for ever.
Pause ==
  /\ app = "run"
  /\ paused' = TRUE /\ app' = "settle" /\ late' = 0
  /\ UNCHANGED <<futex, registers, fb, gp2x_fb, frame_counter, errors, user, asked, stale>>

SettleOver ==
  /\ app = "settle"
  /\ app' = "system"
  /\ UNCHANGED <<futex, paused, registers, fb, gp2x_fb, frame_counter, errors, user, history>>

Resume ==
  /\ app = "system"
  /\ paused' = FALSE /\ app' = "run"
  /\ UNCHANGED <<futex, registers, fb, gp2x_fb, frame_counter, errors, user, history>>

\* Reading the buttons ends the process when the kill key is held.
\* host_read_btns is also what fb_sync_thread calls (CheckKeys).
ReadButtons ==
  /\ app = "run"
  /\ exited' = kill_key
  /\ UNCHANGED <<futex, paused, registers, app, fb, gp2x_fb, frame_counter,
                 errors, kill_key, history>>

PressKillKey ==
  /\ ~kill_key
  /\ kill_key' = TRUE
  /\ UNCHANGED <<futex, paused, registers, app, fb, gp2x_fb, frame_counter,
                 errors, exited, history>>
-----------------------------------------------------------------------------
(* fb_sync_thread.                                                          *)

\* "tell the main thread we're done init": the value first, then the wake.
StartClear ==
  /\ fb = "start"
  /\ futex' = 0 /\ fb' = "start_wake"
  /\ UNCHANGED <<paused, registers, app, gp2x_fb, frame_counter, errors, user, history>>

StartWake ==
  /\ fb = "start_wake"
  /\ fb' = "wait"
  /\ app' = IF app = "init_sleep" THEN "defaults" ELSE app
  /\ UNCHANGED <<futex, paused, registers, gp2x_fb, frame_counter, errors, user, history>>

\* FUTEX_WAIT for the value 0: -EWOULDBLOCK at once when a request is posted.
FutexWait ==
  /\ fb = "wait"
  /\ fb' = IF futex = 0 THEN "blocked" ELSE "clear"
  /\ UNCHANGED <<futex, paused, registers, app, gp2x_fb, frame_counter, errors, user, history>>

FutexTimeout ==
  /\ fb = "blocked"
  /\ fb' = "clear"
  /\ UNCHANGED <<futex, paused, registers, app, gp2x_fb, frame_counter, errors, user, history>>

FutexError ==
  /\ fb \in {"wait", "blocked"}
  /\ errors < MaxErrors
  /\ errors' = errors + 1 /\ fb' = "clear_error"
  /\ UNCHANGED <<futex, paused, registers, app, gp2x_fb, frame_counter, user, history>>

ClearFutex ==
  /\ fb = "clear"
  /\ futex' = 0 /\ fb' = "check_paused"
  /\ UNCHANGED <<paused, registers, app, gp2x_fb, frame_counter, errors, user, history>>

\* A pass that does not copy the frame drops the requests it has taken off
\* the futex, but not one whose post is still to come or has come since.
Drop(word) == asked' = (asked /\ (app = "post" \/ word = 1))

ClearFutexError ==
  /\ fb = "clear_error"
  /\ futex' = 0 /\ fb' = "check_keys"
  /\ Drop(0)
  /\ UNCHANGED <<paused, registers, app, gp2x_fb, frame_counter, errors, user, stale, late>>

CheckPaused ==
  /\ fb = "check_paused"
  /\ \/ paused  /\ fb' = "check_keys" /\ Drop(futex)
     \/ ~paused /\ fb' = "lookup" /\ UNCHANGED asked
  /\ UNCHANGED <<futex, paused, registers, app, gp2x_fb, frame_counter, errors,
                 user, stale, late>>

\* The frame the registers point at, and the check that it lies in upper
\* memory.  Everything asked for up to here is in the copy that follows.
Lookup ==
  /\ fb = "lookup"
  /\ <<mlc_stl_adr, bpp>> \in Fits
  /\ gp2x_fb' = mlc_stl_adr /\ fb' = "flip"
  /\ asked' = FALSE /\ stale' = FALSE
  /\ late' = IF paused THEN late + 1 ELSE late
  /\ UNCHANGED <<futex, paused, registers, app, frame_counter, errors, user>>

\* The frame is out of range: "continue", past the counter and the keys.
LookupOutOfRange ==
  /\ fb = "lookup"
  /\ <<mlc_stl_adr, bpp>> \notin Fits
  /\ fb' = "wait"
  /\ Drop(futex)
  /\ UNCHANGED <<futex, paused, registers, app, gp2x_fb, frame_counter, errors,
                 user, stale, late>>

FlipDone ==
  /\ fb = "flip"
  /\ fb' = "count"
  /\ UNCHANGED <<futex, paused, registers, app, gp2x_fb, frame_counter, errors, user, history>>

CountFrame ==
  /\ fb = "count"
  /\ frame_counter' = (frame_counter + 1) % (FrameMask + 1)
  /\ fb' = IF frame_counter' = 0 THEN "check_keys" ELSE "wait"
  /\ UNCHANGED <<futex, paused, registers, app, gp2x_fb, errors, user, history>>

CheckKeys ==
  /\ fb = "check_keys"
  /\ exited' = kill_key
  /\ fb' = "wait"
  /\ UNCHANGED <<futex, paused, registers, app, gp2x_fb, frame_counter, errors,
                 kill_key, history>>
-----------------------------------------------------------------------------
AppInitStep == Clone \/ InitWait \/ SetDefaultAdr \/ SetDefaultMode

AppRunStep ==
  \/ \E l \in Lo : WriteAdrLow(l)
  \/ \E h \in Hi : WriteAdrHigh(h)
  \/ \E a \in Adr : WriteAdr32(a)
  \/ \E b \in Bpps : SelectMode(b)
  \/ BlitToScreen \/ PostRequest \/ WakeThread
  \/ Pause \/ SettleOver \/ Resume
  \/ ReadButtons

FbStep ==
  \/ StartClear \/ StartWake
  \/ FutexWait \/ FutexTimeout \/ FutexError
  \/ ClearFutex \/ ClearFutexError \/ CheckPaused
  \/ Lookup \/ LookupOutOfRange \/ FlipDone \/ CountFrame \/ CheckKeys

\* exit_group ends both threads.
Next == ~exited /\ (AppInitStep \/ AppRunStep \/ FbStep \/ PressKillKey)

EmulatorStep == PostRequest \/ WakeThread \/ SettleOver

\* fb_sync_thread is scheduled and its waits time out; so is the program's
\* thread while it runs the emulator's own code.  What the program does next,
\* when a system() child ends, and the user, are not.
Fairness ==
  /\ WF_vars(~exited /\ FbStep)
  /\ WF_vars(~exited /\ AppInitStep)
  /\ WF_vars(~exited /\ EmulatorStep)

Spec == Init /\ [][Next]_vars /\ Fairness
-----------------------------------------------------------------------------
TypeOK ==
  /\ futex \in {0, 1} /\ paused \in BOOLEAN
  /\ mlc_stl_adr \in Adr /\ old_adr \in Adr /\ bpp \in Bpps \cup {0}
  /\ app \in AppInit \cup AppRuns
  /\ fb \in FbInit \cup FbLoop
  /\ gp2x_fb \in Adr
  /\ frame_counter \in 0..FrameMask
  /\ errors \in 0..MaxErrors
  /\ kill_key \in BOOLEAN /\ exited \in BOOLEAN
  /\ asked \in BOOLEAN /\ stale \in BOOLEAN /\ late \in Nat

\* A posted request never sleeps with the thread: once the program has gone
\* through both futex calls, fb_sync_thread is not blocked in the kernel
\* while a request no pass has taken or dropped is outstanding.  The reset
\* of the futex is not atomic with the wait ("race impact is low anyway").
NoSleepOnRequest ==
  fb = "blocked" /\ app \notin {"post", "wake"} => ~asked

\* While the program is in system() at most the flip that passed the check of
\* fb_sync_thread_paused before it was set still begins.
AtMostOneLateFlip == paused => late <= 1

\* The start handshake never strands emu_init: if it sleeps on the futex,
\* fb_sync_thread still has its wake-up to do.
NoStrandedInit == app = "init_sleep" => fb \in {"start", "start_wake"}

\* emu_init's wait for fb_sync_thread ends, unless the user kills the process.
InitCompletes == <>(app \in AppRuns \/ exited)

InRange == <<mlc_stl_adr, bpp>> \in Fits

\* What was drawn or moved to reaches the screen, whatever was dropped on
\* the way, unless the program stays paused, out of range or is killed.
ScreenCatchesUp == []<>(~stale \/ paused \/ ~InRange \/ exited)

\* Holding the kill key ends the process although the program never reads
\* the buttons, as long as its frame address is in range.
KillKeyServedInRange == []<>(~InRange \/ ~kill_key \/ exited)

\* The same without the condition, which is what the comment at check_keys
\* says the check is for: "in case main thread hung or something else went
\* wrong".  LookupOutOfRange skips it.
KillKeyServed == [](kill_key => <>exited)
=============================================================================
