-------------------------- MODULE HostVideo_proofs --------------------------
(* The ring of buffers and the depth of the display, for rings, frames and  *)
(* rooms of any size.                                                       *)
EXTENDS HostVideo, TLAPS

\* The invariants of the parts.  As long as the newest frame on the display is
\* younger than the ring is long, the buffer to draw into is known from it.
RingInv ==
  /\ "address" \notin foreign => fb_work_buf = NextBuffer(address)
  /\ unseen < Buffers =>
       "address" \notin foreign /\ fb_work_buf = (shown + 1 + unseen) % Buffers

\* What old_bpp says of the display, between frames and while one is drawn.
ModeInv ==
  "mode" \notin foreign =>
    /\ host # "caanoo" => mode.rot
    /\ host = "pnd" => mode.depth = 16 /\ drawn = 16
    /\ host # "pnd" /\ old_bpp \in {8, 16} => mode.depth = old_bpp
    /\ drawn # 4 /\ fb \in {"idle", "lookup", "args"} => mode.depth = drawn
    /\ fb = "blit" => old_bpp = arg
    /\ fb = "blit" /\ arg \notin {4, 8, 16} /\ drawn # 4 => mode.depth = drawn
    /\ fb = "drawn" /\ drawn # 4 => mode.depth = drawn

IInv == TypeOK /\ RingInv /\ ModeInv

LEMMA Constants ==
  /\ Buffers \in Nat /\ Buffers > 2 /\ 0 \in Ring /\ 1 \in Ring
  /\ 0 \in 0..Buffers /\ Buffers \in 0..Buffers
  /\ FrameBytes(16) \in Rooms /\ 16 \in Depths /\ Depths \subseteq {4, 8, 16, 24}
  /\ Rooms \subseteq Nat
  /\ Width \in Nat \ {0} /\ Height \in Nat \ {0}
BY HostAssumption DEF Ring

\* Counting round the ring.
LEMMA Round ==
  ASSUME NEW a \in Ring, NEW n \in 0..(Buffers - 1)
  PROVE  /\ NextBuffer(a) \in Ring
         /\ (a + 1 + n) % Buffers = IF a + 1 + n < Buffers THEN a + 1 + n ELSE a + 1 + n - Buffers
         /\ NextBuffer((a + 1 + n) % Buffers) = (a + 1 + (n + 1)) % Buffers
<1>1. Buffers \in Nat /\ Buffers > 2
  BY Constants
<1>2. ASSUME NEW x \in Nat, x < 2 * Buffers
      PROVE  x % Buffers = IF x < Buffers THEN x ELSE x - Buffers
  <2>1. CASE x < Buffers
    BY <1>1, <1>2, <2>1
  <2>2. CASE x >= Buffers
    <3>1. x - Buffers \in 0..(Buffers - 1)
      BY <1>1, <1>2, <2>2
    <3>2. ((x - Buffers) + Buffers) % Buffers = (x - Buffers) % Buffers
      BY <1>1, <3>1
    <3> QED BY <1>1, <2>2, <3>1, <3>2
  <2> QED BY <1>1, <1>2, <2>1, <2>2
<1>3. a \in Nat /\ a < Buffers /\ n \in Nat /\ n < Buffers
  BY <1>1 DEF Ring
<1>4. (a + 1 + n) % Buffers = IF a + 1 + n < Buffers THEN a + 1 + n ELSE a + 1 + n - Buffers
  BY <1>1, <1>2, <1>3
<1>5. NextBuffer(a) \in Ring
  BY <1>1, <1>2, <1>3 DEF NextBuffer, Ring
<1>6. NextBuffer((a + 1 + n) % Buffers) = (a + 1 + (n + 1)) % Buffers
  <2> DEFINE y == (a + 1 + n) % Buffers
  <2>1. y \in Nat /\ y < Buffers
    BY <1>1, <1>3, <1>4
  <2>2. y = IF a + 1 + n < Buffers THEN a + 1 + n ELSE a + 1 + n - Buffers
    BY <1>4
  <2> HIDE DEF y
  <2>3. NextBuffer(y) = IF y + 1 < Buffers THEN y + 1 ELSE y + 1 - Buffers
    BY <1>1, <1>2, <2>1 DEF NextBuffer
  <2>4. CASE n = Buffers - 1
    <3>1. a + 1 + (n + 1) = (a + 1) + Buffers /\ y = a
      BY <1>1, <1>3, <2>2, <2>4
    <3>2. ((a + 1) + Buffers) % Buffers = (a + 1) % Buffers
      BY <1>1, <1>3
    <3> QED BY <3>1, <3>2 DEF NextBuffer, y
  <2>5. CASE n < Buffers - 1
    <3>1. (a + 1 + (n + 1)) % Buffers =
            IF a + 1 + (n + 1) < Buffers THEN a + 1 + (n + 1) ELSE a + 1 + (n + 1) - Buffers
      BY <1>1, <1>2, <1>3, <2>5
    <3>2. NextBuffer(y) = (a + 1 + (n + 1)) % Buffers
      BY <1>1, <1>3, <2>1, <2>2, <2>3, <2>5, <3>1
    <3> QED BY <3>2 DEF y
  <2> QED BY <1>1, <1>3, <2>4, <2>5
<1> QED BY <1>4, <1>5, <1>6

\* The buffer is the one shown only after a whole round.
LEMMA RingApart ==
  ASSUME TypeOK, RingInv
  PROVE  DrawApart
<1> SUFFICES ASSUME unseen < Buffers - 1 PROVE fb_work_buf # shown
  BY DEF DrawApart
<1>1. Buffers \in Nat /\ shown \in Ring /\ unseen \in 0..(Buffers - 1) /\ unseen < Buffers
  BY Constants DEF TypeOK
<1>2. fb_work_buf = (shown + 1 + unseen) % Buffers
  BY <1>1 DEF RingInv
<1>3. shown \in Nat /\ shown < Buffers
  BY <1>1 DEF Ring
<1> QED BY <1>1, <1>2, <1>3, Round

LEMMA ModeMatches ==
  ASSUME TypeOK, ModeInv
  PROVE  FormatMatches
BY DEF TypeOK, ModeInv, FormatMatches
-----------------------------------------------------------------------------
LEMMA InitInv == Init => IInv
<1> SUFFICES ASSUME Init PROVE IInv
  OBVIOUS
<1>1. TypeOK
  BY Constants DEF Init, TypeOK, Mode, Unset
<1>2. RingInv
  BY Constants DEF Init, RingInv, NextBuffer, Ring
<1>3. ModeInv
  BY DEF Init, ModeInv, Mode
<1> QED BY <1>1, <1>2, <1>3 DEF IInv

\* The steps of the program, and the beginnings and ends of processes, touch
\* nothing of it.
LEMMA ProgramInv ==
  ASSUME IInv, Program \/ System \/ ChildEnds \/ Crash
  PROVE  IInv'
<1>1. UNCHANGED <<host, thread, display, history>>
  BY DEF Program, MoveFrame, SelectMode, System, ChildEnds, Crash
<1>2. TypeOK'
  BY DEF IInv, TypeOK, Program, MoveFrame, SelectMode, System, ChildEnds, Crash, Resumed,
         loader, thread, display, history, program
<1>3. RingInv' /\ ModeInv'
  BY <1>1 DEF IInv, RingInv, ModeInv, thread, display, history, NextBuffer
<1> QED BY <1>2, <1>3 DEF IInv

LEMMA VSyncInv ==
  ASSUME IInv, VSync
  PROVE  IInv'
<1>1. /\ UNCHANGED <<host, program, loader, thread, address, mode, drawn, foreign>>
      /\ shown' = address /\ dirty' = FALSE
      /\ unseen' = IF "address" \in foreign THEN unseen ELSE 0
  BY DEF VSync
<1>2. TypeOK'
  <2>1. unseen' \in 0..Buffers /\ shown' \in Ring /\ dirty' \in BOOLEAN
    <3>1. unseen \in 0..Buffers /\ address \in Ring
      BY DEF IInv, TypeOK
    <3> QED BY <1>1, <3>1, Constants
  <2> QED BY <1>1, <2>1 DEF IInv, TypeOK, program, loader, thread
<1>3. RingInv'
  <2>1. CASE "address" \in foreign
    BY <1>1, <2>1, Constants DEF IInv, RingInv, TypeOK, thread, NextBuffer
  <2>2. CASE "address" \notin foreign
    <3>1. fb_work_buf = (address + 1) % Buffers /\ address \in Nat
      BY <2>2 DEF IInv, RingInv, TypeOK, NextBuffer, Ring
    <3>2. (address + 1 + 0) % Buffers = fb_work_buf
      BY <3>1
    <3> QED BY <1>1, <2>2, <3>1, <3>2 DEF RingInv, thread, NextBuffer
  <2> QED BY <2>1, <2>2
<1>4. ModeInv'
  BY <1>1 DEF IInv, ModeInv, thread
<1> QED BY <1>2, <1>3, <1>4 DEF IInv

LEMMA PassInv ==
  ASSUME IInv, Pass \/ LookupOutOfRange \/ Lookup
  PROVE  IInv'
<1>1. UNCHANGED <<host, program, loader, arg, old_bpp, fb_work_buf, display, history>>
  BY DEF Pass, LookupOutOfRange, Lookup
<1>2. fb \in {"idle", "lookup"} /\ fb' \in {"idle", "lookup", "args"}
  BY DEF Pass, LookupOutOfRange, Lookup
<1>3. TypeOK'
  BY <1>1, <1>2 DEF IInv, TypeOK, program, loader, display, history
<1>4. RingInv'
  BY <1>1 DEF IInv, RingInv, display, history, NextBuffer
<1>5. ModeInv'
  BY <1>1, <1>2 DEF IInv, ModeInv, display, history
<1> QED BY <1>3, <1>4, <1>5 DEF IInv

LEMMA ChangeBppInv ==
  ASSUME IInv, ChangeBpp
  PROVE  IInv'
<1>1. /\ UNCHANGED <<host, program, loader, fb_work_buf, address, shown, drawn, unseen>>
      /\ fb = "args" /\ fb' = "blit" /\ old_bpp' = bpp /\ arg' = bpp
      /\ IF bpp # old_bpp /\ host # "pnd"
         THEN /\ mode' = SetMode(bpp, TRUE) /\ dirty' = (dirty \/ bpp \in {8, 16})
              /\ foreign' = IF bpp \in {8, 16} THEN foreign \ {"mode"} ELSE foreign
         ELSE UNCHANGED <<mode, dirty, foreign>>
  BY DEF ChangeBpp
<1>2. mode' \in [depth : {8, 16}, rot : BOOLEAN] /\ dirty' \in BOOLEAN
      /\ foreign' \subseteq {"address", "mode"}
      /\ ("address" \in foreign' <=> "address" \in foreign)
  <2>1. mode \in [depth : {8, 16}, rot : BOOLEAN] /\ dirty \in BOOLEAN
        /\ foreign \subseteq {"address", "mode"}
    BY DEF IInv, TypeOK
  <2>2. SetMode(bpp, TRUE) \in [depth : {8, 16}, rot : BOOLEAN]
    BY <2>1 DEF SetMode, Mode
  <2> QED BY <1>1, <2>1, <2>2
<1>3. TypeOK'
  BY <1>1, <1>2 DEF IInv, TypeOK, program, loader
<1>4. RingInv'
  BY <1>1, <1>2 DEF IInv, RingInv, NextBuffer
<1>5. ModeInv'
  <2>1. bpp \in {4, 8, 16, 24} /\ arg' = bpp /\ host \in Hosts
    BY <1>1, Constants DEF IInv, TypeOK
  <2>2. CASE bpp # old_bpp /\ host # "pnd" /\ bpp \in {8, 16}
    <3>1. mode' = [depth |-> bpp, rot |-> host # "caanoo"]
      BY <1>1, <2>2 DEF SetMode, Mode
    <3> QED BY <1>1, <2>1, <2>2, <3>1 DEF ModeInv
  <2>3. CASE bpp # old_bpp /\ host # "pnd" /\ bpp \notin {8, 16}
    <3>1. mode'.depth = mode.depth /\ mode'.rot = (host # "caanoo") /\ foreign' = foreign
      BY <1>1, <2>3 DEF SetMode, Mode
    <3> QED BY <1>1, <2>1, <2>3, <3>1 DEF IInv, ModeInv
  <2>4. CASE bpp = old_bpp \/ host = "pnd"
    <3>1. mode' = mode /\ foreign' = foreign
      BY <1>1, <2>4
    <3> QED BY <1>1, <2>1, <2>4, <3>1 DEF IInv, ModeInv
  <2> QED BY <2>2, <2>3, <2>4
<1> QED BY <1>3, <1>4, <1>5 DEF IInv

LEMMA BlitInv ==
  ASSUME IInv, Blit \/ NoBlit
  PROVE  IInv'
<1>1. /\ UNCHANGED <<host, program, loader, old_bpp, fb_work_buf, display, unseen, foreign>>
      /\ fb = "blit" /\ arg' = Unset
  BY DEF Blit, NoBlit, history
<1>2. \/ arg \in {4, 8, 16} /\ fb' = "drawn" /\ drawn' = DrawnDepth(arg) /\ ~Runaway
      \/ arg \notin {4, 8, 16} /\ fb' = "idle" /\ drawn' = drawn
  BY DEF Blit, NoBlit, history
<1>3. drawn' \in {4, 8, 16} /\ fb' \in {"drawn", "idle"}
  BY <1>2 DEF DrawnDepth, IInv, TypeOK
<1>4. TypeOK'
  BY <1>1, <1>3 DEF IInv, TypeOK, program, loader, display
<1>5. RingInv'
  BY <1>1, <1>3 DEF IInv, RingInv, display, NextBuffer
<1>6. ModeInv'
  BY <1>1, <1>2, <1>3 DEF IInv, ModeInv, display, DrawnDepth
<1> QED BY <1>4, <1>5, <1>6 DEF IInv

LEMMA FlipInv ==
  ASSUME IInv, Flip
  PROVE  IInv'
<1>1. /\ UNCHANGED <<host, program, loader, arg, old_bpp, mode, shown, drawn>>
      /\ fb = "drawn" /\ fb' = "idle" /\ address' = fb_work_buf /\ dirty' = TRUE
      /\ fb_work_buf' = NextBuffer(fb_work_buf) /\ foreign' = foreign \ {"address"}
      /\ unseen' = IF unseen < Buffers THEN unseen + 1 ELSE unseen
  BY DEF Flip
<1>2. /\ fb_work_buf \in Ring /\ shown \in Ring /\ unseen \in 0..Buffers
      /\ foreign \subseteq {"address", "mode"} /\ Buffers \in Nat /\ Buffers > 2
  BY Constants DEF IInv, TypeOK
<1>3. NextBuffer(fb_work_buf) \in Ring
  BY <1>2, Round
<1>4. unseen' \in 0..Buffers
  BY <1>1, <1>2
<1>5. TypeOK'
  BY <1>1, <1>2, <1>3, <1>4 DEF IInv, TypeOK, program, loader
<1>6. RingInv'
  <2>1. NextBuffer(address') = fb_work_buf'
    BY <1>1
  <2>2. ASSUME unseen' < Buffers PROVE fb_work_buf' = (shown' + 1 + unseen') % Buffers
    <3>1. unseen < Buffers /\ unseen' = unseen + 1 /\ unseen \in 0..(Buffers - 1)
      BY <1>1, <1>2, <2>2
    <3>2. fb_work_buf = (shown + 1 + unseen) % Buffers
      BY <3>1 DEF IInv, RingInv
    <3>3. NextBuffer(fb_work_buf) = (shown + 1 + (unseen + 1)) % Buffers
      BY <1>2, <3>1, <3>2, Round
    <3> QED BY <1>1, <3>1, <3>3
  <2>3. (NextBuffer(address))' = NextBuffer(address')
    BY DEF NextBuffer
  <2> QED BY <1>1, <2>1, <2>2, <2>3 DEF RingInv
<1>7. ModeInv'
  BY <1>1 DEF IInv, ModeInv
<1> QED BY <1>5, <1>6, <1>7 DEF IInv

LEMMA ChildInv ==
  ASSUME IInv, NEW b \in Ring, NEW m \in ChildModes, ChildDraws(b, m)
  PROVE  IInv'
<1>1. /\ UNCHANGED <<host, program, loader, thread, shown, drawn>>
      /\ address' = b /\ mode' = m /\ dirty' = TRUE
      /\ foreign' = {"address", "mode"} /\ unseen' = Buffers
  BY DEF ChildDraws
<1>2. m \in [depth : {8, 16}, rot : BOOLEAN]
  <2>1. mode \in [depth : {8, 16}, rot : BOOLEAN]
    BY DEF IInv, TypeOK
  <2>2. ASSUME NEW d \in {8, 16}, NEW r \in BOOLEAN
        PROVE  SetMode(d, r) \in [depth : {8, 16}, rot : BOOLEAN]
    BY <2>1 DEF SetMode, Mode
  <2> QED BY <2>1, <2>2 DEF ChildModes
<1>3. TypeOK'
  <2>1. unseen' \in 0..Buffers
    BY <1>1, Constants
  <2> QED BY <1>1, <1>2, <2>1 DEF IInv, TypeOK, program, loader, thread
<1>4. ~(unseen' < Buffers)
  BY <1>1, Constants
<1>5. RingInv' /\ ModeInv'
  BY <1>1, <1>4 DEF RingInv, ModeInv
<1> QED BY <1>3, <1>5 DEF IInv

LEMMA EndInv ==
  ASSUME IInv, BlitFaults \/ ThreadDies
  PROVE  IInv'
<1>1. /\ fb' = "gone" /\ arg' = Unset
      /\ app' \in {"run", "system", "crashed", "menu"}
      /\ UNCHANGED <<host, program, paused, child, old_bpp, fb_work_buf, display, history>>
  BY DEF BlitFaults, ThreadDies, Gone, loader, IInv, TypeOK
<1>2. TypeOK'
  BY <1>1 DEF IInv, TypeOK, program, display, history
<1>3. RingInv' /\ ModeInv'
  BY <1>1 DEF IInv, RingInv, ModeInv, display, history, NextBuffer
<1> QED BY <1>2, <1>3 DEF IInv

LEMMA CleanupInv ==
  ASSUME IInv, Cleanup
  PROVE  IInv'
<1>1. /\ UNCHANGED <<host, program, paused, child, thread, shown, drawn>>
      /\ app' = "menu" /\ mode' = Mode(16, FALSE) /\ address' = 0 /\ dirty' = TRUE
      /\ foreign' = {"address", "mode"} /\ unseen' = Buffers
  BY DEF Cleanup, CleanupMode, SetMode
<1>2. Mode(16, FALSE) \in [depth : {8, 16}, rot : BOOLEAN]
  BY DEF Mode
<1>3. mode' \in [depth : {8, 16}, rot : BOOLEAN] /\ address' \in Ring /\ unseen' \in 0..Buffers
  BY <1>1, <1>2, Constants
<1>4. TypeOK'
  BY <1>1, <1>3 DEF IInv, TypeOK, program, thread
<1>5. ~(unseen' < Buffers)
  BY <1>1, Constants
<1>6. RingInv' /\ ModeInv'
  BY <1>1, <1>5 DEF RingInv, ModeInv
<1> QED BY <1>4, <1>6 DEF IInv

LEMMA StutterInv ==
  ASSUME IInv, UNCHANGED vars
  PROVE  IInv'
<1>1. TypeOK'
  BY DEF IInv, TypeOK, vars
<1>2. RingInv'
  BY DEF IInv, RingInv, vars, NextBuffer
<1>3. ModeInv'
  BY DEF IInv, ModeInv, vars
<1> QED BY <1>1, <1>2, <1>3 DEF IInv

LEMMA StepInv ==
  ASSUME IInv, [Next]_vars
  PROVE  IInv'
<1>1. CASE Program \/ System \/ ChildEnds \/ Crash
  BY <1>1, ProgramInv
<1>2. CASE VSync
  BY <1>2, VSyncInv
<1>3. CASE Begin \/ LookupOutOfRange \/ Lookup
  BY <1>3, PassInv DEF Begin
<1>4. CASE ChangeBpp
  BY <1>4, ChangeBppInv
<1>5. CASE Blit \/ NoBlit
  BY <1>5, BlitInv
<1>6. CASE Flip
  BY <1>6, FlipInv
<1>7. CASE BlitFaults \/ ThreadDies
  BY <1>7, EndInv
<1>10. CASE Cleanup
  BY <1>10, CleanupInv
<1>8. CASE \E b \in Ring, m \in ChildModes : ChildDraws(b, m)
  BY <1>8, ChildInv
<1>9. CASE UNCHANGED vars
  BY <1>9, StutterInv
<1> QED BY <1>1, <1>2, <1>3, <1>4, <1>5, <1>6, <1>7, <1>8, <1>9, <1>10
       DEF Next, Finish, Others

LEMMA Inductive == Spec => []IInv
BY InitInv, StepInv, PTL DEF Spec
-----------------------------------------------------------------------------
\* Types of fb_sync_thread's and the display's state.
THEOREM TypeCorrect == Spec => []TypeOK
<1>1. IInv => TypeOK
  BY DEF IInv
<1> QED BY <1>1, Inductive, PTL

\* A frame is not drawn over the one being sent before the ring has gone round
\* (wiz_video.c:34-43), for every number of buffers above two.
THEOREM BuffersApart == Spec => []DrawApart
<1>1. IInv => DrawApart
  BY RingApart DEF IInv
<1> QED BY <1>1, Inductive, PTL

\* The display has the depth of the frame it sends (emu.c:318-321), whatever
\* depths the program goes through and wherever the loader is killed.
THEOREM DepthMatches == Spec => []FormatMatches
<1>1. IInv => FormatMatches
  BY ModeMatches DEF IInv
<1> QED BY <1>1, Inductive, PTL
=============================================================================
