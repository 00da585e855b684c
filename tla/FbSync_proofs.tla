---------------------------- MODULE FbSync_proofs ----------------------------
(***************************************************************************)
(* Safety of the refresh protocol, for every set of addresses and depths   *)
(* and every frame mask.  The three invariants that FbSync.cfg checks rest *)
(* on what the two program counters say of each other and of the futex.    *)
(***************************************************************************)
EXTENDS FbSync, TLAPS

\* The handshake: who is where while emu_init runs, and that the word is 1
\* only until fb_sync_thread has cleared it.
HandshakeInv ==
  /\ app = "cloning" <=> fb = "none"
  /\ fb \in {"none", "start"} => app \in {"cloning", "init_wait", "init_sleep"}
  /\ app = "init_sleep" => fb \in {"start", "start_wake"}
  /\ app \in AppInit /\ futex = 1 => fb = "start"
  /\ fb = "start" => futex = 1

\* Nothing is asked for before emu_init is done.
QuietInit == app \in AppInit => ~asked

\* A request whose post is done is on the futex or with a pass that will
\* serve it; and the thread sleeps on a posted word only until the wake.
RequestInv ==
  /\ asked => app = "post" \/ futex = 1 \/ fb \in {"clear", "check_paused", "lookup"}
  /\ fb = "blocked" /\ futex = 1 => app = "wake"

\* A pass that has gone by the check of the pause spends the one late flip.
LateInv == paused => late = 0 \/ (late = 1 /\ fb # "lookup")

IInv == TypeOK /\ HandshakeInv /\ QuietInit /\ RequestInv /\ LateInv

LEMMA ModBound == ASSUME NEW m \in Nat, NEW n \in Nat PROVE m % (n + 1) \in 0..n
  OBVIOUS

USE DEF registers, user, history

LEMMA ZeroIsAdr == ZeroAdr \in Adr
  BY ConstAssumption DEF ZeroAdr, Adr

\* TypeOK in two halves: the flags are left to Zenon, the rest to SMT.
FlagsOK ==
  /\ paused \in BOOLEAN
  /\ kill_key \in BOOLEAN /\ exited \in BOOLEAN
  /\ asked \in BOOLEAN /\ stale \in BOOLEAN

RangesOK ==
  /\ futex \in {0, 1}
  /\ mlc_stl_adr \in Adr /\ old_adr \in Adr /\ bpp \in Bpps \cup {0}
  /\ app \in AppInit \cup AppRuns
  /\ fb \in FbInit \cup FbLoop
  /\ gp2x_fb \in Adr
  /\ frame_counter \in 0..FrameMask
  /\ errors \in 0..MaxErrors
  /\ late \in Nat

LEMMA TypeHalves == TypeOK <=> FlagsOK /\ RangesOK
  BY DEF TypeOK, FlagsOK, RangesOK

LEMMA FlagsStep == FlagsOK /\ [Next]_vars => FlagsOK'
<1> SUFFICES ASSUME FlagsOK, [Next]_vars PROVE FlagsOK'
  OBVIOUS
<1> USE DEF FlagsOK
<1>1. CASE AppInitStep
  BY <1>1, Zenon DEF AppInitStep, Clone, InitWait, SetDefaultAdr, SetDefaultMode
<1>2. CASE AppRunStep
  BY <1>2, Zenon DEF AppRunStep, WriteAdrLow, WriteAdrHigh, WriteAdr32, MoveFrame,
       SelectMode, BlitToScreen, PostRequest, WakeThread, Pause, SettleOver, Resume,
       ReadButtons
<1>3. CASE FbStep
  BY <1>3, Zenon DEF FbStep, StartClear, StartWake, FutexWait, FutexTimeout, FutexError,
       ClearFutex, ClearFutexError, CheckPaused, Drop, Lookup, LookupOutOfRange,
       FlipDone, CountFrame, CheckKeys
<1>4. CASE PressKillKey \/ UNCHANGED vars
  BY <1>4, Zenon DEF PressKillKey, vars
<1> QED
  BY <1>1, <1>2, <1>3, <1>4, Zenon DEF Next

LEMMA RangesStep == RangesOK /\ [Next]_vars => RangesOK'
<1> SUFFICES ASSUME RangesOK, [Next]_vars PROVE RangesOK'
  OBVIOUS
<1> USE ConstAssumption DEF RangesOK, AppInit, AppRuns, FbInit, FbLoop
<1>1. CASE AppInitStep
  BY <1>1 DEF AppInitStep, Clone, InitWait, SetDefaultAdr, SetDefaultMode
<1>2. CASE AppRunStep
  <2>1. ASSUME NEW a \in Adr, MoveFrame(a) PROVE RangesOK'
    BY <2>1 DEF MoveFrame
  <2>2. ASSUME NEW l \in Lo, WriteAdrLow(l) PROVE RangesOK'
    BY <2>2 DEF WriteAdrLow, Adr
  <2>3. ASSUME NEW h \in Hi, WriteAdrHigh(h) PROVE RangesOK'
    <3>1. [mlc_stl_adr EXCEPT !.hi = h] \in Adr
      BY DEF Adr
    <3> QED
      BY <2>3, <2>1, <3>1 DEF WriteAdrHigh
  <2>4. ASSUME NEW b \in Bpps, SelectMode(b) PROVE RangesOK'
    BY <2>4 DEF SelectMode
  <2>5. CASE BlitToScreen \/ PostRequest \/ WakeThread
    BY <2>5 DEF BlitToScreen, PostRequest, WakeThread
  <2>6. CASE Pause \/ SettleOver \/ Resume \/ ReadButtons
    BY <2>6 DEF Pause, SettleOver, Resume, ReadButtons
  <2> QED
    BY <1>2, <2>1, <2>2, <2>3, <2>4, <2>5, <2>6 DEF AppRunStep, WriteAdr32
<1>3. CASE FbStep
  <2>1. CASE StartClear \/ StartWake \/ FutexWait \/ FutexTimeout \/ FutexError
    BY <2>1 DEF StartClear, StartWake, FutexWait, FutexTimeout, FutexError
  <2>2. CASE ClearFutex \/ ClearFutexError \/ CheckPaused
    BY <2>2 DEF ClearFutex, ClearFutexError, CheckPaused
  <2>3. CASE Lookup \/ LookupOutOfRange \/ FlipDone \/ CheckKeys
    BY <2>3 DEF Lookup, LookupOutOfRange, FlipDone, CheckKeys
  <2>4. CASE CountFrame
    BY <2>4, ModBound DEF CountFrame
  <2> QED
    BY <1>3, <2>1, <2>2, <2>3, <2>4 DEF FbStep
<1>4. CASE PressKillKey
  BY <1>4 DEF PressKillKey
<1>5. CASE UNCHANGED vars
  BY <1>5 DEF vars
<1> QED
  BY <1>1, <1>2, <1>3, <1>4, <1>5 DEF Next

LEMMA InvInit == Init => IInv
<1> SUFFICES ASSUME Init PROVE IInv
  OBVIOUS
<1>1. FlagsOK
  BY Zenon DEF Init, FlagsOK
<1>2. RangesOK
  BY ConstAssumption, ZeroIsAdr DEF Init, RangesOK, AppInit, AppRuns, FbInit, FbLoop
<1>3. HandshakeInv /\ QuietInit /\ RequestInv /\ LateInv
  BY DEF Init, HandshakeInv, QuietInit, RequestInv, LateInv
<1> QED
  BY <1>1, <1>2, <1>3, TypeHalves DEF IInv

LEMMA HandshakeStep == RangesOK /\ HandshakeInv /\ [Next]_vars => HandshakeInv'
<1> SUFFICES ASSUME RangesOK, HandshakeInv, [Next]_vars PROVE HandshakeInv'
  OBVIOUS
<1> USE DEF RangesOK, HandshakeInv, AppInit
<1>1. CASE AppInitStep
  <2>1. CASE Clone
    BY <2>1 DEF Clone
  <2>2. CASE InitWait
    <3>1. CASE futex = 1
      BY <2>2, <3>1 DEF InitWait
    <3>2. CASE futex # 1
      BY <2>2, <3>2 DEF InitWait
    <3> QED
      BY <3>1, <3>2
  <2>3. CASE SetDefaultAdr
    BY <2>3 DEF SetDefaultAdr
  <2>4. CASE SetDefaultMode
    BY <2>4 DEF SetDefaultMode
  <2> QED
    BY <1>1, <2>1, <2>2, <2>3, <2>4 DEF AppInitStep
<1>2. CASE AppRunStep
  BY <1>2 DEF AppRunStep, WriteAdrLow, WriteAdrHigh, WriteAdr32, MoveFrame, SelectMode,
              BlitToScreen, PostRequest, WakeThread, Pause, SettleOver, Resume, ReadButtons
<1>3. CASE FbStep
  BY <1>3 DEF FbStep, StartClear, StartWake, FutexWait, FutexTimeout, FutexError,
              ClearFutex, ClearFutexError, CheckPaused, Drop, Lookup, LookupOutOfRange,
              FlipDone, CountFrame, CheckKeys
<1>4. CASE PressKillKey \/ UNCHANGED vars
  BY <1>4 DEF PressKillKey, vars
<1> QED
  BY <1>1, <1>2, <1>3, <1>4 DEF Next

LEMMA QuietStep == IInv /\ [Next]_vars => QuietInit'
<1> SUFFICES ASSUME IInv, [Next]_vars PROVE QuietInit'
  OBVIOUS
<1> USE DEF IInv, HandshakeInv, QuietInit, AppInit
<1>1. CASE AppInitStep
  BY <1>1 DEF AppInitStep, Clone, InitWait, SetDefaultAdr, SetDefaultMode
<1>2. CASE AppRunStep
  BY <1>2 DEF AppRunStep, WriteAdrLow, WriteAdrHigh, WriteAdr32, MoveFrame, SelectMode,
              BlitToScreen, PostRequest, WakeThread, Pause, SettleOver, Resume, ReadButtons
<1>3. CASE FbStep
  BY <1>3 DEF FbStep, StartClear, StartWake, FutexWait, FutexTimeout, FutexError,
              ClearFutex, ClearFutexError, CheckPaused, Drop, Lookup, LookupOutOfRange,
              FlipDone, CountFrame, CheckKeys
<1>4. CASE PressKillKey \/ UNCHANGED vars
  BY <1>4 DEF PressKillKey, vars
<1> QED
  BY <1>1, <1>2, <1>3, <1>4 DEF Next

LEMMA RequestStep == IInv /\ [Next]_vars => RequestInv'
<1> SUFFICES ASSUME IInv, [Next]_vars PROVE RequestInv'
  OBVIOUS
<1> USE DEF IInv, TypeOK, RequestInv
<1>1. CASE AppInitStep
  BY <1>1 DEF AppInitStep, Clone, InitWait, SetDefaultAdr, SetDefaultMode, HandshakeInv, AppInit
<1>2. CASE AppRunStep
  BY <1>2 DEF AppRunStep, WriteAdrLow, WriteAdrHigh, WriteAdr32, MoveFrame, SelectMode,
              BlitToScreen, PostRequest, WakeThread, Pause, SettleOver, Resume, ReadButtons
<1>3. CASE FbStep
  <2>0. CASE StartClear
    BY <2>0 DEF StartClear, HandshakeInv, QuietInit, AppInit
  <2>1. CASE StartWake
    BY <2>1 DEF StartWake, HandshakeInv, QuietInit, AppInit
  <2>2. CASE FutexWait \/ FutexTimeout \/ FutexError
    BY <2>2 DEF FutexWait, FutexTimeout, FutexError
  <2>3. CASE ClearFutex \/ ClearFutexError
    BY <2>3 DEF ClearFutex, ClearFutexError, Drop
  <2>5. CASE CheckPaused
    <3>1. CASE paused
      BY <2>5, <3>1 DEF CheckPaused, Drop
    <3>2. CASE ~paused
      BY <2>5, <3>2 DEF CheckPaused
    <3> QED
      BY <3>1, <3>2
  <2>4. CASE Lookup
    BY <2>4 DEF Lookup
  <2>6. CASE LookupOutOfRange
    BY <2>6 DEF LookupOutOfRange, Drop
  <2>7. CASE FlipDone \/ CountFrame \/ CheckKeys
    BY <2>7 DEF FlipDone, CountFrame, CheckKeys
  <2> QED
    BY <1>3, <2>0, <2>1, <2>2, <2>3, <2>4, <2>5, <2>6, <2>7 DEF FbStep
<1>4. CASE PressKillKey \/ UNCHANGED vars
  BY <1>4 DEF PressKillKey, vars
<1> QED
  BY <1>1, <1>2, <1>3, <1>4 DEF Next

LEMMA LateStep == IInv /\ [Next]_vars => LateInv'
<1> SUFFICES ASSUME IInv, [Next]_vars PROVE LateInv'
  OBVIOUS
<1> USE DEF IInv, TypeOK, LateInv
<1>1. CASE AppInitStep
  BY <1>1 DEF AppInitStep, Clone, InitWait, SetDefaultAdr, SetDefaultMode
<1>2. CASE AppRunStep
  <2>1. CASE Pause
    BY <2>1 DEF Pause
  <2>2. CASE Resume
    BY <2>2 DEF Resume
  <2>3. CASE ~Pause /\ ~Resume
    <3>1. UNCHANGED <<paused, fb, late>> \/ WakeThread
      BY <1>2, <2>3, Zenon DEF AppRunStep, WriteAdrLow, WriteAdrHigh, WriteAdr32, MoveFrame,
           SelectMode, BlitToScreen, PostRequest, SettleOver, ReadButtons
    <3> QED
      BY <3>1 DEF WakeThread
  <2> QED
    BY <2>1, <2>2, <2>3
<1>3. CASE FbStep
  <2>1. CASE CheckPaused
    BY <2>1 DEF CheckPaused
  <2>2. CASE Lookup
    BY <2>2 DEF Lookup
  <2>3. CASE ~CheckPaused /\ ~Lookup
    <3>1. UNCHANGED <<paused, late>> /\ fb' # "lookup"
      BY <1>3, <2>3 DEF FbStep, StartClear, StartWake, FutexWait, FutexTimeout,
         FutexError, ClearFutex, ClearFutexError, LookupOutOfRange, FlipDone, CountFrame,
         CheckKeys
    <3> QED
      BY <3>1
  <2> QED
    BY <2>1, <2>2, <2>3
<1>4. CASE PressKillKey \/ UNCHANGED vars
  BY <1>4 DEF PressKillKey, vars
<1> QED
  BY <1>1, <1>2, <1>3, <1>4 DEF Next

LEMMA InvStep == IInv /\ [Next]_vars => IInv'
<1>0. (TypeOK <=> FlagsOK /\ RangesOK)'
  BY DEF TypeOK, FlagsOK, RangesOK
<1>1. IInv /\ [Next]_vars => TypeOK'
  BY FlagsStep, RangesStep, TypeHalves, <1>0 DEF IInv
<1>2. IInv /\ [Next]_vars => HandshakeInv'
  BY HandshakeStep, TypeHalves DEF IInv
<1> QED
  BY <1>1, <1>2, QuietStep, RequestStep, LateStep DEF IInv

THEOREM Invariance == Spec => []IInv
  BY InvInit, InvStep, PTL DEF Spec

\* Every register, program counter and counter keeps its range.
THEOREM TypeCorrect == Spec => []TypeOK
<1>1. IInv => TypeOK
  BY DEF IInv
<1> QED
  BY <1>1, Invariance, PTL

\* No request that both futex calls have announced sleeps with the thread,
\* in spite of the reset that is not atomic with the wait.
THEOREM RequestsWake == Spec => []NoSleepOnRequest
<1>1. IInv => NoSleepOnRequest
  BY DEF IInv, TypeOK, RequestInv, NoSleepOnRequest
<1> QED
  BY <1>1, Invariance, PTL

\* A pause lets at most one refresh through, however the threads interleave.
THEOREM PauseBounded == Spec => []AtMostOneLateFlip
<1>1. IInv => AtMostOneLateFlip
  BY DEF IInv, TypeOK, LateInv, AtMostOneLateFlip
<1> QED
  BY <1>1, Invariance, PTL

\* emu_init never sleeps on the futex after fb_sync_thread has done its wake.
THEOREM HandshakeSafe == Spec => []NoStrandedInit
<1>1. IInv => NoStrandedInit
  BY DEF IInv, HandshakeInv, NoStrandedInit
<1> QED
  BY <1>1, Invariance, PTL
=============================================================================
