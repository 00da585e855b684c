-------------------------- MODULE LinkPages_proofs --------------------------
(***************************************************************************)
(* The link pages are sound for every page size, number of pages, branch   *)
(* reach and program layout that satisfies ConstAssumption: no write ever  *)
(* hits a block, a header or a jump that is in use, so a patched program   *)
(* does what module IoMachine says.  Nothing is assumed about where the    *)
(* program begins.                                                         *)
(***************************************************************************)
EXTENDS LinkPages, TLAPS

LEMMA MulMono ==
  ASSUME NEW c \in Nat, NEW n \in Nat, NEW p \in Nat, c + 1 <= n
  PROVE  c * p + p <= n * p
<1>1. PICK d \in Nat : n = c + 1 + d
  <2>1. n - (c + 1) \in Nat /\ n = c + 1 + (n - (c + 1))
    OBVIOUS
  <2> QED
    BY <2>1
<1>2. n * p = c * p + p + d * p
  BY <1>1
<1>3. d * p \in Nat /\ c * p \in Nat
  BY <1>1
<1> QED
  BY <1>2, <1>3

LEMMA DivMul ==
  ASSUME NEW x \in Nat, NEW p \in Nat, p > 0
  PROVE  (x \div p) * p \in Nat /\ (x \div p) * p <= x
  OBVIOUS

LEMMA AllocNat == LINKPAGE_ALLOC \in Nat
  BY ConstAssumption DEF LINKPAGE_ALLOC

\* emu_init's allocation ends at or below map_bottom.
LEMMA LinkBaseBelow ==
  ASSUME NEW a \in Areas
  PROVE  LinkBase(a) \in Nat /\ LinkBase(a) + LINKPAGE_ALLOC <= MapBottom[a]
<1>1. MapBottom[a] \in Nat /\ MapBottom[a] - LINKPAGE_ALLOC \in Nat
  BY ConstAssumption, AllocNat
<1>2. PageWords \in Nat /\ PageWords > 0
  BY ConstAssumption DEF HeaderWords, Reserve
<1> QED
  BY <1>1, <1>2, AllocNat, DivMul DEF LinkBase

-----------------------------------------------------------------------------
\* The page pointers: within the allocation, as far as pages were counted.
PageInv ==
  \A a \in Areas :
    LinkBase(a) <= lp[a] /\ lp[a] <= LinkBase(a) + count * PageWords

\* The code pointer is behind the header and leaves the reserve.
RoomInv ==
  \A a \in Areas :
    lp[a] + HeaderWords <= cp[a] /\ cp[a] + Reserve <= lp[a] + PageWords

\* All that was ever written lies below the code pointer of some area.
LayoutInv ==
  /\ \A h \in headers : \E a \in Areas : LinkBase(a) <= h /\ h + HeaderWords <= cp[a]
  /\ \A s \in DOMAIN blocks : \E a \in Areas : LinkBase(a) <= s /\ s + BlockWords <= cp[a]
  /\ \A a \in Areas : lp[a] \in headers

\* What has been patched has accessed a register, or is about to.
TouchedInv ==
  /\ touched \subseteq DOMAIN jump
  /\ \A c \in DOMAIN jump \ touched : c = at /\ passes /\ where = "register"

IInv == TypeOK /\ PageInv /\ RoomInv /\ LayoutInv /\ JumpsLand /\ TouchedInv

\* The page in use lies in the allocation.
LEMMA PageInAllocation ==
  ASSUME TypeOK, PageInv, NEW a \in Areas
  PROVE  lp[a] + PageWords <= LinkBase(a) + LINKPAGE_ALLOC
<1> USE ConstAssumption DEF TypeOK
<1>1. count \in Nat /\ PageCount \in Nat /\ PageWords \in Nat /\ count + 1 <= PageCount
  OBVIOUS
<1>2. count * PageWords + PageWords <= PageCount * PageWords
  BY <1>1, MulMono
<1>3. LINKPAGE_ALLOC = PageCount * PageWords
  BY <1>1 DEF LINKPAGE_ALLOC
<1>4. LinkBase(a) \in Nat /\ lp[a] \in Nat /\ count * PageWords \in Nat
  BY LinkBaseBelow, <1>1
<1>5. LINKPAGE_ALLOC \in Nat /\ lp[a] <= LinkBase(a) + count * PageWords
  BY AllocNat DEF PageInv
<1> HIDE DEF TypeOK
<1> QED
  BY <1>1, <1>2, <1>3, <1>4, <1>5

\* Words of the page in use that the code pointer has not passed are apart
\* from everything written before and from the program.
LEMMA FreshWords ==
  ASSUME TypeOK, PageInv, RoomInv, LayoutInv, NEW a \in Areas,
         NEW s \in Nat, NEW m \in Nat,
         cp[a] <= s, s + m <= LinkBase(a) + LINKPAGE_ALLOC
  PROVE  /\ \A h \in headers : Apart(h, HeaderWords, s, m)
         /\ \A b \in DOMAIN blocks : Apart(b, BlockWords, s, m)
         /\ \A c \in Code : Apart(c, 1, s, m)
<1>1. /\ LINKPAGE_ALLOC \in Nat
      /\ \A b \in Areas : LinkBase(b) \in Nat /\ lp[b] \in Nat /\ cp[b] \in Nat
  BY AllocNat, LinkBaseBelow DEF TypeOK
<1>2. PageWords \in Nat
  BY ConstAssumption
<1>3. \A b \in Areas : LinkBase(b) <= cp[b] /\ cp[b] <= LinkBase(b) + LINKPAGE_ALLOC
  BY <1>1, <1>2, PageInAllocation DEF PageInv, RoomInv, HeaderWords, Reserve
<1>4. ASSUME NEW x \in Nat, NEW n \in Nat, NEW b \in Areas,
             LinkBase(b) <= x, x + n <= cp[b]
      PROVE  Apart(x, n, s, m)
  <2>1. CASE b = a
    BY <1>1, <1>4, <2>1 DEF Apart
  <2>2. CASE b # a
    <3>1. Apart(LinkBase(a), LINKPAGE_ALLOC, LinkBase(b), LINKPAGE_ALLOC)
      BY <2>2, ConstAssumption
    <3> QED
      BY <1>1, <1>3, <1>4, <3>1 DEF Apart
  <2> QED
    BY <2>1, <2>2
<1>5. \A h \in headers : Apart(h, HeaderWords, s, m)
  BY <1>4 DEF LayoutInv, TypeOK, HeaderWords
<1>6. \A b \in DOMAIN blocks : Apart(b, BlockWords, s, m)
  BY <1>4 DEF LayoutInv, TypeOK, BlockWords
<1>7. ASSUME NEW c \in Code PROVE Apart(c, 1, s, m)
  <2>1. c \in Nat /\ Apart(c, 1, LinkBase(a), LINKPAGE_ALLOC)
    BY ConstAssumption
  <2> QED
    BY <1>1, <1>3, <2>1 DEF Apart
<1> QED
  BY <1>5, <1>6, <1>7

\* What patching does to the memory: it adds one jump and the block for it,
\* and perhaps the header of the next page, and keeps all else.
Grows(a) ==
  /\ DOMAIN jump' = DOMAIN jump \cup {at}
  /\ jump'[at] = cp[a]
  /\ \A c \in DOMAIN jump : jump'[c] = jump[c]
  /\ DOMAIN blocks' = DOMAIN blocks \cup {cp[a]}
  /\ blocks'[cp[a]] = [pc |-> at, back |-> at + 1, lp |-> lp[a]]
  /\ cp[a] \notin DOMAIN blocks
  /\ \A s \in DOMAIN blocks : blocks'[s] = blocks[s]
  /\ headers \subseteq headers'

LEMMA PatchGrows ==
  ASSUME IInv, NEW a \in Areas, Patch(a) \/ PatchAndTurn(a)
  PROVE  Grows(a)
<1> DEFINE next == lp[a] + PageWords
<1>1. /\ cp[a] \in Nat /\ next \in Nat /\ PageWords \in Nat
      /\ LinkBase(a) \in Nat /\ LINKPAGE_ALLOC \in Nat
  BY ConstAssumption, AllocNat, LinkBaseBelow DEF IInv, TypeOK
<1>2. cp[a] + BlockWords <= next /\ next <= LinkBase(a) + LINKPAGE_ALLOC
  BY <1>1, PageInAllocation DEF IInv, TypeOK, RoomInv, BlockWords, Reserve
<1>3. at \in Code /\ at \notin DOMAIN jump /\ DOMAIN jump \subseteq Code
  BY DEF Patch, PatchAndTurn, Emulates, Faults, IInv, TypeOK
<1>4. /\ \A h \in headers : Apart(h, HeaderWords, cp[a], BlockWords)
      /\ \A b \in DOMAIN blocks : Apart(b, BlockWords, cp[a], BlockWords)
      /\ \A c \in Code : Apart(c, 1, cp[a], BlockWords)
  <2>1. cp[a] + BlockWords <= LinkBase(a) + LINKPAGE_ALLOC /\ BlockWords \in Nat
    BY <1>1, <1>2 DEF BlockWords
  <2> QED
    BY <1>1, <2>1, FreshWords DEF IInv
<1>5. cp[a] \notin DOMAIN blocks
  BY <1>1, <1>4 DEF Apart, BlockWords
<1>6. /\ DOMAIN JumpEmitted(a) = DOMAIN jump \cup {at}
      /\ JumpEmitted(a)[at] = cp[a]
      /\ \A c \in DOMAIN jump : JumpEmitted(a)[c] = jump[c]
  BY <1>3, <1>4 DEF JumpEmitted, Clear, Put
<1>7. /\ DOMAIN BlockEmitted(a) = DOMAIN blocks \cup {cp[a]}
      /\ BlockEmitted(a)[cp[a]] = [pc |-> at, back |-> at + 1, lp |-> lp[a]]
      /\ \A s \in DOMAIN blocks : BlockEmitted(a)[s] = blocks[s]
  BY <1>4, <1>5 DEF BlockEmitted, Clear, Put
<1>8. HeadersLeft(a) = headers
  BY <1>4 DEF HeadersLeft
<1>9. CASE Patch(a)
  BY <1>5, <1>6, <1>7, <1>8, <1>9 DEF Patch, Grows
<1>10. CASE PatchAndTurn(a)
  <2>1. next + HeaderWords <= LinkBase(a) + LINKPAGE_ALLOC
    <3>1. count \in Nat /\ PageCount \in Nat /\ (count + 1) + 1 <= PageCount
      BY <1>10, ConstAssumption DEF PatchAndTurn, IInv, TypeOK
    <3>2. (count + 1) * PageWords + PageWords <= PageCount * PageWords
      BY <3>1, <1>1, MulMono
    <3>3. /\ (count + 1) * PageWords = count * PageWords + PageWords
          /\ count * PageWords \in Nat
      BY <3>1, <1>1
    <3>4. LINKPAGE_ALLOC = PageCount * PageWords /\ HeaderWords <= PageWords
      BY <3>1, <1>1, ConstAssumption DEF LINKPAGE_ALLOC, HeaderWords, Reserve
    <3>5. lp[a] \in Nat /\ lp[a] <= LinkBase(a) + count * PageWords
      BY DEF IInv, TypeOK, PageInv
    <3> QED
      BY <1>1, <3>2, <3>3, <3>4, <3>5 DEF HeaderWords
  <2>2. /\ \A h \in headers : Apart(h, HeaderWords, next, HeaderWords)
        /\ \A b \in DOMAIN blocks : Apart(b, BlockWords, next, HeaderWords)
        /\ \A c \in Code : Apart(c, 1, next, HeaderWords)
    <3>1. HeaderWords \in Nat /\ cp[a] <= next
      BY <1>1, <1>2 DEF HeaderWords, BlockWords
    <3> QED
      BY <1>1, <2>1, <3>1, FreshWords DEF IInv
  <2>3. Apart(cp[a], BlockWords, next, HeaderWords)
    BY <1>2 DEF Apart
  <2>4. /\ DOMAIN jump' = DOMAIN JumpEmitted(a)
        /\ \A c \in DOMAIN JumpEmitted(a) : jump'[c] = JumpEmitted(a)[c]
    BY <1>3, <1>6, <1>10, <2>2 DEF PatchAndTurn, Clear
  <2>5. /\ DOMAIN blocks' = DOMAIN BlockEmitted(a)
        /\ \A s \in DOMAIN BlockEmitted(a) : blocks'[s] = BlockEmitted(a)[s]
    BY <1>7, <1>10, <2>2, <2>3 DEF PatchAndTurn, Clear
  <2>6. headers \subseteq headers'
    BY <1>8, <1>10, <2>2 DEF PatchAndTurn
  <2> QED
    BY <1>5, <1>6, <1>7, <2>4, <2>5, <2>6 DEF Grows
<1> QED
  BY <1>9, <1>10

-----------------------------------------------------------------------------
\* A patched instruction runs its own block.
LEMMA TargetOfJump ==
  ASSUME JumpsLand, at \in DOMAIN jump
  PROVE  Target.pc = at /\ Target.back = at + 1
  BY DEF JumpsLand, Target

\* Either nothing is written or a block is added.
LEMMA MemorySteps ==
  ASSUME Next
  PROVE  \/ UNCHANGED memory
         \/ \E a \in Areas : (Patch(a) \/ PatchAndTurn(a)) /\ UNCHANGED <<program, status>>
<1>1. ASSUME NEW a \in Areas, TooFar(a) \/ Patch(a) \/ PatchAndTurn(a) \/ TooManyPages(a)
      PROVE  UNCHANGED memory \/ ((Patch(a) \/ PatchAndTurn(a)) /\ UNCHANGED <<program, status>>)
  BY <1>1 DEF TooFar, Patch, PatchAndTurn, TooManyPages
<1> QED
  BY <1>1 DEF Next, Step, Handle, RealCrash, NoNearPage, Execute, ExecuteUnhandled, RunPlain, Branch

LEMMA InvInit == Init => IInv
<1> SUFFICES ASSUME Init PROVE IInv
  OBVIOUS
<1>1. /\ PageWords \in Nat /\ PageWords >= HeaderWords + Reserve
      /\ PageCount \in Nat /\ PageCount >= 1
      /\ \A a \in Areas : LinkBase(a) \in Nat
  BY ConstAssumption, LinkBaseBelow
<1>2. TypeOK
  BY <1>1 DEF Init, TypeOK, HeaderWords, Places
<1>3. PageInv
  BY <1>1 DEF Init, PageInv
<1>4. RoomInv
  BY <1>1 DEF Init, RoomInv, HeaderWords, Reserve
<1>5. LayoutInv
  BY <1>1 DEF Init, LayoutInv, HeaderWords
<1>6. JumpsLand
  BY DEF Init, JumpsLand
<1>7. TouchedInv
  BY DEF Init, TouchedInv
<1> QED
  BY <1>2, <1>3, <1>4, <1>5, <1>6, <1>7 DEF IInv

\* The program side of the type invariant.
LEMMA ProgramTypeStep ==
  ASSUME IInv, Next
  PROVE  /\ at' \in Places /\ passes' \in BOOLEAN /\ where' \in Kinds
         /\ touched' \subseteq Code /\ done' \in Code \cup {-1}
         /\ status' \in {"run", "crash", "no_page", "too_far", "too_many", "unhandled"}
<1> USE DEF IInv, TypeOK, program, memory, Places, Arrive
<1>1. ASSUME NEW a \in Areas, TooFar(a) \/ Patch(a) \/ PatchAndTurn(a) \/ TooManyPages(a)
      PROVE  UNCHANGED program /\ status' \in {status, "too_far", "too_many"}
  BY <1>1 DEF TooFar, Patch, PatchAndTurn, TooManyPages
<1>2. CASE RealCrash \/ NoNearPage \/ ExecuteUnhandled
  BY <1>2 DEF RealCrash, NoNearPage, ExecuteUnhandled
<1>3. CASE Execute
  <2>1. at \in Code /\ Target.pc = at /\ Target.back = at + 1
    BY <1>3, TargetOfJump DEF Execute
  <2> QED
    BY <1>3, <2>1 DEF Execute
<1>4. CASE RunPlain \/ Branch
  BY <1>4 DEF RunPlain, Branch
<1> QED
  BY <1>1, <1>2, <1>3, <1>4 DEF Next, Step, Handle

LEMMA PatchInv ==
  ASSUME IInv, NEW a \in Areas, Patch(a) \/ PatchAndTurn(a)
  PROVE  /\ lp' \in [Areas -> Nat] /\ cp' \in [Areas -> Nat]
         /\ count' \in 0..(PageCount - 1)
         /\ PageInv' /\ RoomInv'
         /\ \A b \in Areas : cp[b] <= cp'[b]
         /\ cp[a] + BlockWords <= cp'[a]
<1> USE DEF IInv, TypeOK, BlockWords, HeaderWords, Reserve
<1>1. /\ PageWords \in Nat /\ PageWords >= HeaderWords + Reserve
      /\ PageCount \in Nat
      /\ \A b \in Areas : LinkBase(b) \in Nat
  BY ConstAssumption, LinkBaseBelow
<1>2. CASE Patch(a)
  <2>1. /\ cp' = [cp EXCEPT ![a] = cp[a] + BlockWords] /\ lp' = lp /\ count' = count
        /\ cp[a] + BlockWords - lp[a] + Reserve <= PageWords
    BY <1>2 DEF Patch, RoomAfter
  <2>2. PageInv'
    BY <2>1 DEF PageInv
  <2>3. RoomInv'
    BY <1>1, <2>1 DEF RoomInv
  <2> QED
    BY <1>1, <2>1, <2>2, <2>3
<1>3. CASE PatchAndTurn(a)
  <2>1. /\ lp' = [lp EXCEPT ![a] = lp[a] + PageWords]
        /\ cp' = [cp EXCEPT ![a] = lp[a] + PageWords + HeaderWords]
        /\ count' = count + 1 /\ count + 1 < PageCount
    BY <1>3 DEF PatchAndTurn
  <2>2. count' * PageWords = count * PageWords + PageWords /\ count * PageWords \in Nat
    BY <1>1, <2>1
  <2>3. PageInv'
    BY <1>1, <2>1, <2>2 DEF PageInv
  <2>4. RoomInv'
    BY <1>1, <2>1 DEF RoomInv
  <2>5. cp[a] + BlockWords <= cp'[a] /\ \A b \in Areas : cp[b] <= cp'[b]
    BY <1>1, <2>1 DEF RoomInv
  <2> QED
    BY <1>1, <2>1, <2>3, <2>4, <2>5
<1> QED
  BY <1>2, <1>3

LEMMA LayoutStep ==
  ASSUME IInv, NEW a \in Areas, Patch(a) \/ PatchAndTurn(a)
  PROVE  LayoutInv' /\ headers' \subseteq Nat /\ DOMAIN blocks' \subseteq Nat
<1> USE DEF IInv, TypeOK
<1>1. Grows(a) /\ (\A b \in Areas : cp[b] <= cp'[b]) /\ cp[a] + BlockWords <= cp'[a]
      /\ lp' \in [Areas -> Nat] /\ cp' \in [Areas -> Nat] /\ RoomInv' /\ PageInv'
  BY PatchGrows, PatchInv
<1>2. \A b \in Areas : LinkBase(b) \in Nat /\ LinkBase(b) <= cp[b]
  BY LinkBaseBelow DEF PageInv, RoomInv, HeaderWords
<1>3. headers' \subseteq headers \cup {lp'[a]} /\ lp'[a] \in headers'
      /\ \A b \in Areas : b # a => lp'[b] = lp[b]
  <2>1. CASE Patch(a)
    BY <1>1, <2>1 DEF Patch, HeadersLeft, LayoutInv, Grows
  <2>2. CASE PatchAndTurn(a)
    BY <1>1, <2>2 DEF PatchAndTurn, HeadersLeft
  <2> QED
    BY <2>1, <2>2
<1>4. ASSUME NEW h \in headers'
      PROVE  \E b \in Areas : LinkBase(b) <= h /\ h + HeaderWords <= cp'[b]
  <2>1. CASE h = lp'[a]
    BY <1>1, <2>1 DEF PageInv, RoomInv
  <2>2. CASE h \in headers
    <3>1. PICK b \in Areas : LinkBase(b) <= h /\ h + HeaderWords <= cp[b]
      BY <2>2 DEF LayoutInv
    <3>2. cp[b] <= cp'[b] /\ h \in Nat /\ cp[b] \in Nat /\ cp'[b] \in Nat
      BY <1>1, <2>2
    <3>3. h + HeaderWords <= cp'[b]
      BY <3>1, <3>2 DEF HeaderWords
    <3> QED
      BY <3>1, <3>3
  <2> QED
    BY <1>3, <1>4, <2>1, <2>2
<1>5. ASSUME NEW s \in DOMAIN blocks'
      PROVE  \E b \in Areas : LinkBase(b) <= s /\ s + BlockWords <= cp'[b]
  <2>1. CASE s = cp[a]
    BY <1>1, <1>2, <2>1
  <2>2. CASE s \in DOMAIN blocks
    <3>1. PICK b \in Areas : LinkBase(b) <= s /\ s + BlockWords <= cp[b]
      BY <2>2 DEF LayoutInv
    <3>2. cp[b] <= cp'[b] /\ s \in Nat /\ cp[b] \in Nat /\ cp'[b] \in Nat
      BY <1>1, <2>2
    <3>3. s + BlockWords <= cp'[b]
      BY <3>1, <3>2 DEF BlockWords
    <3> QED
      BY <3>1, <3>3
  <2> QED
    BY <1>1, <1>5, <2>1, <2>2 DEF Grows
<1>6. \A b \in Areas : lp'[b] \in headers'
  BY <1>1, <1>3 DEF Grows, LayoutInv
<1>7. headers' \subseteq Nat /\ DOMAIN blocks' \subseteq Nat
  BY <1>1, <1>3 DEF Grows
<1> QED
  BY <1>4, <1>5, <1>6, <1>7 DEF LayoutInv

LEMMA JumpsStep ==
  ASSUME IInv, NEW a \in Areas, Patch(a) \/ PatchAndTurn(a)
  PROVE  JumpsLand' /\ DOMAIN jump' \subseteq Code
<1> USE DEF IInv
<1>1. Grows(a)
  BY PatchGrows
<1>2. at \in Code
  BY DEF Patch, PatchAndTurn, Emulates, Faults
<1>3. lp[a] \in headers
  BY DEF LayoutInv
<1>4. ASSUME NEW c \in DOMAIN jump'
      PROVE  /\ jump'[c] \in DOMAIN blocks'
             /\ blocks'[jump'[c]].pc = c /\ blocks'[jump'[c]].back = c + 1
             /\ blocks'[jump'[c]].lp \in headers'
  <2>1. CASE c \in DOMAIN jump
    BY <1>1, <2>1 DEF Grows, JumpsLand
  <2>2. CASE c = at /\ c \notin DOMAIN jump
    BY <1>1, <1>3, <2>2 DEF Grows
  <2> QED
    BY <1>1, <1>4, <2>1, <2>2 DEF Grows
<1>5. DOMAIN jump' \subseteq Code
  BY <1>1, <1>2 DEF Grows, TypeOK
<1> QED
  BY <1>4, <1>5 DEF JumpsLand

LEMMA TouchedStep == ASSUME IInv, Next PROVE TouchedInv'
<1> USE DEF IInv, TouchedInv
<1>1. ASSUME NEW a \in Areas, Patch(a) \/ PatchAndTurn(a) PROVE TouchedInv'
  <2>1. Grows(a) /\ UNCHANGED program
    BY <1>1, PatchGrows DEF Patch, PatchAndTurn
  <2>2. passes /\ where = "register"
    BY <1>1 DEF Patch, PatchAndTurn, Emulates, Faults, Crashes
  <2> QED
    BY <2>1, <2>2 DEF Grows, program
<1>2. ASSUME NEW a \in Areas, TooFar(a) \/ TooManyPages(a) PROVE TouchedInv'
  BY <1>2 DEF TooFar, TooManyPages, memory, program
<1>3. CASE RealCrash \/ NoNearPage \/ ExecuteUnhandled
  BY <1>3 DEF RealCrash, NoNearPage, ExecuteUnhandled, memory, program
<1>4. CASE Execute
  BY <1>4 DEF Execute, Reaches, memory
<1>5. CASE RunPlain
  BY <1>5 DEF RunPlain, memory
<1>6. CASE Branch
  BY <1>6 DEF Branch, memory, TypeOK
<1> QED
  BY <1>1, <1>2, <1>3, <1>4, <1>5, <1>6 DEF Next, Step, Handle

LEMMA InvStep == IInv /\ [Next]_vars => IInv'
<1> SUFFICES ASSUME IInv, [Next]_vars PROVE IInv'
  OBVIOUS
<1>1. CASE UNCHANGED vars
  BY <1>1 DEF vars, IInv, TypeOK, PageInv, RoomInv, LayoutInv, JumpsLand, TouchedInv
<1>2. CASE Next /\ UNCHANGED memory
  <2>1. UNCHANGED <<lp, cp, count, headers, blocks, jump>>
    BY <1>2 DEF memory
  <2>2. TypeOK'
    BY <1>2, <2>1, ProgramTypeStep DEF IInv, TypeOK
  <2> QED
    BY <1>2, <2>1, <2>2, TouchedStep DEF IInv, PageInv, RoomInv, LayoutInv, JumpsLand
<1>3. ASSUME Next, NEW a \in Areas, Patch(a) \/ PatchAndTurn(a) PROVE IInv'
  <2>1. TypeOK'
    BY <1>3, ProgramTypeStep, PatchInv, LayoutStep, JumpsStep DEF TypeOK
  <2> QED
    BY <1>3, <2>1, PatchInv, LayoutStep, JumpsStep, TouchedStep DEF IInv
<1> QED
  BY <1>1, <1>2, <1>3, MemorySteps

THEOREM Invariance == Spec => []IInv
  BY InvInit, InvStep, PTL DEF Spec

\* Every page pointer, counter and program counter keeps its range.
THEOREM TypeCorrect == Spec => []TypeOK
<1>1. IInv => TypeOK
  BY DEF IInv
<1> QED
  BY <1>1, Invariance, PTL

\* The reserve of 14 words always leaves room for the next block, and the
\* header within reach of its load.
THEOREM RoomIsLeft == Spec => []RoomForBlock
<1>1. IInv => RoomForBlock
  <2> SUFFICES ASSUME IInv, NEW a \in Areas
               PROVE  cp[a] + BlockWords <= lp[a] + PageWords /\ HandlerFits(a)
    BY DEF RoomForBlock
  <2>1. PageWords \in Nat /\ lp[a] \in Nat /\ cp[a] \in Nat
    BY ConstAssumption DEF IInv, TypeOK
  <2>2. cp[a] + Reserve <= lp[a] + PageWords
    BY DEF IInv, RoomInv
  <2> QED
    BY <2>1, <2>2 DEF HandlerFits, BlockWords, Reserve
<1> QED
  BY <1>1, Invariance, PTL

\* One counter for both areas keeps the pages of each in its allocation.
THEOREM PagesStayMapped == Spec => []PagesMapped
<1>1. IInv => PagesMapped
  BY PageInAllocation DEF IInv, PageInv, PagesMapped
<1> QED
  BY <1>1, Invariance, PTL

\* No write ever hits a block, a header or a jump that is in use.
THEOREM PatchedCodeIntact == Spec => []JumpsLand
<1>1. IInv => JumpsLand
  BY DEF IInv
<1> QED
  BY <1>1, Invariance, PTL

\* Once overwritten, an instruction never faults again.
THEOREM FaultOnlyOnce == Spec => FaultsOnce
<1> DEFINE Kept == \A c \in DOMAIN jump : c \in DOMAIN jump' /\ jump'[c] = jump[c]
<1>1. IInv /\ [Next]_vars => [Kept]_vars
  <2> SUFFICES ASSUME IInv, Next PROVE Kept
    BY DEF vars
  <2>1. CASE UNCHANGED memory
    BY <2>1 DEF memory
  <2>2. ASSUME NEW a \in Areas, Patch(a) \/ PatchAndTurn(a) PROVE Kept
    BY <2>2, PatchGrows DEF Grows
  <2> QED
    BY <2>1, <2>2, MemorySteps
<1> QED
  BY <1>1, Invariance, PTL DEF Spec, FaultsOnce
-----------------------------------------------------------------------------
(* The refinement.                                                          *)

LEMMA ImplInit == Init => Io!Init
  BY DEF Init, Io!Init, Kinds, Io!Kinds

LEMMA ImplStep == IInv /\ [Next]_vars => [Io!Next]_Io!vars
<1> SUFFICES ASSUME IInv, [Next]_vars PROVE [Io!Next]_Io!vars
  OBVIOUS
<1> USE DEF program, Io!Next, Io!vars, Arrive, Io!Arrive, Kinds, Io!Kinds
<1>1. ASSUME NEW a \in Areas, TooFar(a) \/ TooManyPages(a) PROVE Io!Stop
  BY <1>1 DEF TooFar, TooManyPages, Emulates, Faults, Io!Stop
<1>2. ASSUME NEW a \in Areas, Patch(a) \/ PatchAndTurn(a) PROVE UNCHANGED Io!vars
  BY <1>2 DEF Patch, PatchAndTurn
<1>3. CASE RealCrash \/ NoNearPage \/ ExecuteUnhandled
  BY <1>3 DEF RealCrash, NoNearPage, ExecuteUnhandled, Emulates, Faults, Io!Stop
<1>4. CASE Execute
  <2>1. at \in Code /\ Target.pc = at /\ Target.back = at + 1
    BY <1>4, TargetOfJump DEF Execute, IInv, TypeOK
  <2>2. CASE ~passes
    BY <1>4, <2>1, <2>2 DEF Execute, Reaches, Io!Skip
  <2>3. CASE passes /\ where = "register"
    BY <1>4, <2>1, <2>3 DEF Execute, Reaches, Io!AccessRegister
  <2>4. CASE passes /\ where # "register"
    <3>1. at \in touched
      BY <1>4, <2>4 DEF Execute, IInv, TouchedInv
    <3> QED
      BY <1>4, <2>1, <2>4, <3>1 DEF Execute, Reaches, Io!Lose
  <2> QED
    BY <2>2, <2>3, <2>4
<1>5. CASE RunPlain
  <2>1. CASE ~passes
    BY <1>5, <2>1 DEF RunPlain, Io!Skip
  <2>2. CASE passes
    <3>1. at \notin touched
      BY <1>5 DEF RunPlain, IInv, TouchedInv
    <3> QED
      BY <1>5, <2>2, <3>1 DEF RunPlain, Io!AccessMemory
  <2> QED
    BY <2>1, <2>2
<1>6. CASE Branch
  BY <1>6 DEF Branch, Io!Branch
<1>7. CASE UNCHANGED vars
  BY <1>7 DEF vars
<1> QED
  BY <1>1, <1>2, <1>3, <1>4, <1>5, <1>6, <1>7 DEF Next, Step, Handle

\* The program on link pages behaves as one whose registers are there, but for
\* accesses elsewhere by instructions that have accessed a register before.
THEOREM Refinement == Spec => ImplementsIo
  BY ImplInit, ImplStep, Invariance, PTL DEF Spec, ImplementsIo, Io!Spec
=============================================================================
