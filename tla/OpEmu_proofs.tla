---------------------------- MODULE OpEmu_proofs ----------------------------
(* emu_handle_op against the processor, for words of any width and every    *)
(* value of the registers.                                                  *)
EXTENDS OpEmu, TLAPS

\* Remainders of what a sum or difference of two words can be.
LEMMA ModFacts ==
  ASSUME NEW y \in Word
  PROVE  y % M = y /\ (y + M) % M = y /\ (y - M) % M = y
BY WordAssumption DEF Word

LEMMA ModWord ==
  ASSUME NEW x \in Int
  PROVE  x % M \in Word
BY WordAssumption DEF Word

\* Adding t negated is subtracting t.
LEMMA SubtractIsAdd ==
  ASSUME NEW a \in Word, NEW t \in Word
  PROVE  Negated(t) \in Word /\ (a + Negated(t)) % M = (a - t) % M
<1>1. M \in Nat \ {0} /\ a \in 0..(M - 1) /\ t \in 0..(M - 1)
  BY WordAssumption DEF Word
<1>2. CASE t = 0
  <2>1. Negated(t) = 0
    BY <1>2, <1>1, ModFacts DEF Negated, Word
  <2> QED BY <2>1, <1>1, <1>2 DEF Word
<1>3. CASE t > 0
  <2>1. M - t \in Word
    BY <1>1, <1>3 DEF Word
  <2>2. ((M - t) - M) % M = M - t
    BY <2>1, ModFacts
  <2>3. Negated(t) = M - t
    BY <2>2, <1>1 DEF Negated
  <2>4. CASE a >= t
    <3>1. a - t \in Word
      BY <1>1, <2>4 DEF Word
    <3>2. ((a - t) + M) % M = a - t /\ (a - t) % M = a - t
      BY <3>1, ModFacts
    <3>3. a + (M - t) = (a - t) + M
      BY <1>1
    <3> QED BY <2>1, <2>3, <3>2, <3>3
  <2>5. CASE a < t
    <3>1. a + (M - t) \in Word
      BY <1>1, <2>5 DEF Word
    <3>2. (a + (M - t)) % M = a + (M - t) /\ ((a + (M - t)) - M) % M = a + (M - t)
      BY <3>1, ModFacts
    <3>3. (a + (M - t)) - M = a - t
      BY <1>1
    <3> QED BY <2>1, <2>3, <3>2, <3>3
  <2> QED BY <2>4, <2>5, <1>1
<1> QED BY <1>1, <1>2, <1>3

LEMMA DivWord ==
  ASSUME NEW x \in Word, NEW n \in 0..Bits
  PROVE  x \div 2^n \in Word
<1>1. 2^n \in Nat \ {0} /\ M \in Nat \ {0}
  BY WordAssumption
<1> DEFINE d == 2^n
<1> HIDE DEF d
<1>2. ASSUME NEW e \in Nat \ {0}, NEW z \in Nat PROVE z \div e \in Nat /\ z \div e <= z
  BY <1>2
<1> QED BY <1>1, <1>2 DEF Word

LEMMA ShiftedWords ==
  ASSUME NEW x \in Word, NEW n \in 0..Bits
  PROVE  (x * 2^n) % M \in Word /\ Lsr(x, n) \subseteq Word /\ AsrSet(x, n) \subseteq Word
<1>1. 2^n \in Nat \ {0} /\ M \in Nat \ {0} /\ x \in Nat
  BY WordAssumption DEF Word
<1> DEFINE d == 2^n
<1>2. Signed(x) \in Int
  BY <1>1 DEF Signed
<1> HIDE DEF d
<1>3. x * d \in Int /\ Signed(x) \div d \in Int
  BY <1>1, <1>2 DEF d
<1>4. (x * d) % M \in Word /\ (Signed(x) \div d) % M \in Word
  BY <1>3, ModWord
<1>5. Asr(x, n) \in Word
  BY <1>4 DEF Asr, d
<1>6. 0 \in Word
  BY <1>1 DEF Word
<1> QED BY <1>4, <1>5, <1>6, DivWord DEF Lsr, AsrSet, d

Allowed == Halfword \/ Single

\* Every offset is a word, and the processor's unless it is shifted right.
LEMMA OffsetWord ==
  ASSUME TypeOK, Allowed, NEW t \in Offsets
  PROVE  /\ t \in Word
         /\ ~RightShift /\ regs = before => t = ArmOffset
<1>1. op \in Op /\ regs \in [Regs -> Word]
  BY DEF TypeOK
<1>2. /\ op.rm \in Regs /\ op.imm \in Word /\ op.shift \in 0..3
      /\ op.amount \in 0..(Bits - 1) /\ regs[op.rm] \in Word
  BY <1>1 DEF Op
<1>3. Bits \in Nat /\ op.amount \in 0..Bits /\ op.amount + 1 \in 0..Bits
  BY <1>2, WordAssumption
<1>4. CASE op.form = "half"
  BY <1>2, <1>4 DEF Offsets, ArmOffset
<1>5. CASE op.form # "half" /\ ~op.b25
  BY <1>2, <1>5 DEF Offsets, ArmOffset
<1>6. CASE op.form # "half" /\ op.b25
  <2>1. op.form = "word" /\ op.shift \in 0..2
    BY <1>2, <1>6 DEF Allowed, Halfword, Extra, Single
  <2>2. CASE op.shift = 0
    <3>1. t = (regs[op.rm] * 2^op.amount) % M
      BY <1>6, <2>2 DEF Offsets
    <3> QED BY <3>1, <1>2, <1>3, <1>6, <2>2, ShiftedWords DEF ArmOffset, ArmShift
  <2>3. CASE op.shift = 1
    BY <1>2, <1>3, <1>6, <2>1, <2>3, ShiftedWords DEF Offsets, RightShift
  <2>4. CASE op.shift = 2
    BY <1>2, <1>3, <1>6, <2>1, <2>4, ShiftedWords DEF Offsets, RightShift
  <2> QED BY <2>1, <2>2, <2>3, <2>4
<1> QED BY <1>4, <1>5, <1>6

\* The code's base plus the signed offset is the processor's indexed address.
LEMMA IndexedRight ==
  ASSUME TypeOK, Allowed, NEW t \in Offsets
  PROVE  /\ Signed23(t) \in Word
         /\ (regs[op.rn] + Signed23(t)) % M \in Word
         /\ ~RightShift /\ regs = before => (regs[op.rn] + Signed23(t)) % M = ArmIndexed
<1>1. op.rn \in Regs /\ regs[op.rn] \in Word /\ t \in Word
  BY OffsetWord DEF TypeOK, Op
<1>2. Signed23(t) \in Word
  BY <1>1, SubtractIsAdd DEF Signed23
<1>3. regs[op.rn] + Signed23(t) \in Int
  BY <1>1, <1>2, WordAssumption DEF Word
<1>4. (regs[op.rn] + Signed23(t)) % M = IF op.U THEN (regs[op.rn] + t) % M
                                        ELSE (regs[op.rn] - t) % M
  BY <1>1, SubtractIsAdd DEF Signed23
<1> QED BY <1>2, <1>3, <1>4, ModWord, OffsetWord DEF ArmIndexed

LEMMA SignRight ==
  ASSUME NEW v \in 0..(HalfM - 1)
  PROVE  /\ v \in Word /\ SignExtended(v) \in Word
         /\ SignExtended(v) = IF v >= HalfM \div 2 THEN (v - HalfM) % M ELSE v
<1>1. /\ HalfM \in Nat \ {0} /\ M \in Nat \ {0} /\ HalfM % 2 = 0 /\ M = HalfM * HalfM
  BY WordAssumption
<1>2. HalfM <= M
  <2>1. ASSUME NEW h \in Nat \ {0} PROVE h <= h * h
    BY <2>1
  <2> QED BY <1>1, <2>1
<1>3. 2 * v >= HalfM <=> v >= HalfM \div 2
  BY <1>1
<1>4. v \in Word /\ (2 * v >= HalfM => v + (M - HalfM) \in Word)
  BY <1>1, <1>2 DEF Word
<1>5. ASSUME 2 * v >= HalfM PROVE v + (M - HalfM) = (v - HalfM) % M
  <2>1. ((v + (M - HalfM)) - M) % M = v + (M - HalfM)
    BY <1>4, <1>5, ModFacts
  <2>2. (v + (M - HalfM)) - M = v - HalfM
    BY <1>1
  <2> QED BY <2>1, <2>2
<1> QED BY <1>3, <1>4, <1>5 DEF SignExtended

LEMMA AnswerWord ==
  ASSUME TypeOK
  PROVE  Answer \in Word /\ (op.form = "half" => Answer \in 0..(HalfM - 1))
<1>1. M \in Nat \ {0} /\ HalfM \in Nat \ {0} /\ input \in 0..(M - 1)
  BY WordAssumption DEF TypeOK, Word
<1>2. input % HalfM \in 0..(HalfM - 1)
  BY <1>1
<1> QED BY <1>1, <1>2, SignRight DEF Answer, Word

LEMMA PassesRight ==
  ASSUME TypeOK, op.cond \in Known
  PROVE  Passes <=> ArmPasses
BY DEF TypeOK, Op, Known, Conditions, Passes, ArmPasses
-----------------------------------------------------------------------------
IInv ==
  /\ TypeOK /\ EmulatedRight /\ SkipsRight
  /\ state = "fault" => regs = before

\* A frame before the instruction stays as the history has it, so the results
\* of a step can be compared with the processor's.
LEMMA InitInv == Init => IInv
<1> SUFFICES ASSUME Init PROVE IInv
  OBVIOUS
<1>1. TypeOK
  BY InputAssumption DEF Init, Reached, TypeOK, None
<1> QED BY <1>1 DEF Init, Reached, IInv, EmulatedRight, SkipsRight

LEMMA SkipInv ==
  ASSUME IInv, Skip
  PROVE  IInv'
<1>1. TypeOK' /\ state' = "skipped" /\ regs' = before'
  BY DEF IInv, Skip, given, TypeOK
<1>2. ~ArmPasses'
  <2>1. ~ArmPasses
    BY PassesRight DEF IInv, Skip
  <2> QED BY <2>1 DEF Skip, given, ArmPasses
<1> QED BY <1>1, <1>2 DEF IInv, EmulatedRight, SkipsRight

LEMMA AbortInv ==
  ASSUME IInv, Abort
  PROVE  IInv'
<1>1. TypeOK' /\ state' = "aborted"
  BY DEF IInv, Abort, given, TypeOK
<1> QED BY <1>1 DEF IInv, EmulatedRight, SkipsRight

\* What the four actions that carry an instruction out have in common.
LEMMA Carried ==
  ASSUME IInv, Executes
  PROVE  TypeOK /\ regs = before /\ ArmPasses /\ op.cond \in Known /\ op \in Op
BY PassesRight DEF IInv, Executes, TypeOK

\* The processor's view does not change while the instruction is carried out.
LEMMA SameView ==
  ASSUME UNCHANGED given
  PROVE  /\ ArmPasses' = ArmPasses /\ ArmLoaded' = ArmLoaded /\ ArmBytes' = ArmBytes
         /\ ArmIndexed' = ArmIndexed /\ ArmAddress' = ArmAddress
         /\ RightShift' = RightShift /\ Unpredictable' = Unpredictable
         /\ ArmRegs' = ArmRegs /\ ArmAccess' = ArmAccess
<1>1. op' = op /\ flags' = flags /\ before' = before /\ input' = input
  BY DEF given
<1>2. Answer' = Answer
  BY <1>1 DEF Answer
<1>3. ArmOffset' = ArmOffset
  BY <1>1 DEF ArmOffset, ArmShift
<1>4. ArmIndexed' = ArmIndexed
  BY <1>1, <1>3 DEF ArmIndexed
<1>5. ArmAddress' = ArmAddress
  BY <1>1, <1>4 DEF ArmAddress
<1>6. ArmLoaded' = ArmLoaded /\ ArmBytes' = ArmBytes /\ ArmPasses' = ArmPasses
  BY <1>1, <1>2 DEF ArmLoaded, ArmBytes, ArmPasses
<1>7. ArmRegs' = ArmRegs
  BY <1>1, <1>4, <1>6 DEF ArmRegs
<1>8. ArmAccess' = ArmAccess
  BY <1>1, <1>5, <1>6 DEF ArmAccess, Cut
<1> QED BY <1>1, <1>4, <1>5, <1>6, <1>7, <1>8 DEF RightShift, Unpredictable

LEMMA NarrowedStore ==
  ASSUME NEW bytes, NEW addr, NEW data
  PROVE  Narrowed(Store(bytes, addr, data)) = Store(bytes, addr, Cut(bytes, data))
  BY DEF Narrowed, Store

\* A step that ends an instruction keeps the invariant when it gives what the
\* processor gives.
LEMMA DoneInv ==
  ASSUME IInv, Executes, UNCHANGED given, state' = "done",
         regs' \in [Regs -> Word], access' # None, access'.addr \in Word,
         ~RightShift /\ ~Unpredictable => regs' = ArmRegs /\ Narrowed(access') = ArmAccess
  PROVE  IInv'
<1>1. TypeOK'
  BY Carried DEF TypeOK, given
<1>2. SkipsRight' /\ EmulatedRight'
  BY Carried, SameView DEF SkipsRight, EmulatedRight, Narrowed, Cut
<1> QED BY <1>1, <1>2 DEF IInv

LEMMA LoadHalfInv ==
  ASSUME IInv, LoadHalf
  PROVE  IInv'
<1>1. Executes /\ UNCHANGED given /\ state' = "done" /\ Halfword /\ op.L
  BY DEF LoadHalf
<1>2. TypeOK /\ regs = before /\ op \in Op /\ Allowed
  BY <1>1, Carried DEF Allowed
<1> DEFINE v == IF op.b6 THEN SignExtended(Answer) ELSE Answer
<1>3. PICK t \in Offsets :
        /\ access' = Access("read", 2, (regs[op.rn] + Signed23(t)) % M)
        /\ regs' = [regs EXCEPT ![op.rd] = v]
  BY DEF LoadHalf
<1>4. op.form = "half" /\ op.P
  BY <1>1 DEF Halfword, Extra
<1>5. v \in Word /\ v = ArmLoaded
  BY <1>2, <1>4, AnswerWord, SignRight DEF ArmLoaded
<1>6. /\ (regs[op.rn] + Signed23(t)) % M \in Word
      /\ ~RightShift => (regs[op.rn] + Signed23(t)) % M = ArmIndexed
  BY <1>2, IndexedRight
<1> HIDE DEF v
<1>7. regs' \in [Regs -> Word]
  BY <1>2, <1>3, <1>5 DEF TypeOK
<1>8. regs' = ArmRegs
  BY <1>1, <1>2, <1>3, <1>4, <1>5 DEF ArmRegs, TypeOK
<1>9. ~RightShift => Narrowed(access') = ArmAccess
  <2>1. Narrowed(access') = access'
    BY <1>3 DEF Narrowed, Access
  <2> QED BY <1>1, <1>3, <1>4, <1>6, <2>1 DEF ArmAccess, ArmBytes, ArmAddress
<1>10. access' # None /\ access'.addr \in Word
  BY <1>3, <1>6 DEF Access, None
<1> QED BY <1>1, <1>7, <1>8, <1>9, <1>10, DoneInv

LEMMA StoreHalfInv ==
  ASSUME IInv, StoreHalf
  PROVE  IInv'
<1>1. Executes /\ UNCHANGED given /\ state' = "done" /\ Halfword /\ ~op.L /\ regs' = regs
  BY DEF StoreHalf
<1>2. TypeOK /\ regs = before /\ op \in Op /\ Allowed
  BY <1>1, Carried DEF Allowed
<1>3. PICK t \in Offsets :
        access' = Store(2, (regs[op.rn] + Signed23(t)) % M, regs[op.rd])
  BY DEF StoreHalf
<1>4. op.form = "half" /\ op.P
  BY <1>1 DEF Halfword, Extra
<1>5. /\ (regs[op.rn] + Signed23(t)) % M \in Word
      /\ ~RightShift => (regs[op.rn] + Signed23(t)) % M = ArmIndexed
  BY <1>2, IndexedRight
<1>6. regs' \in [Regs -> Word]
  BY <1>1, <1>2 DEF TypeOK
<1>7. regs' = ArmRegs
  BY <1>1, <1>2, <1>4 DEF ArmRegs, TypeOK
<1>8. ~RightShift => Narrowed(access') = ArmAccess
  <2>1. Narrowed(access') = Store(2, (regs[op.rn] + Signed23(t)) % M, Cut(2, regs[op.rd]))
    BY <1>3, NarrowedStore
  <2> QED BY <1>1, <1>2, <1>4, <1>5, <2>1 DEF ArmAccess, ArmBytes, ArmAddress
<1>9. access' # None /\ access'.addr \in Word
  BY <1>3, <1>5 DEF Store, None
<1> QED BY <1>1, <1>6, <1>7, <1>8, <1>9, DoneInv

\* The base that is left behind and the address used by a word or byte access.
LEMMA BackRight ==
  ASSUME TypeOK, Allowed, regs = before, NEW t \in Offsets
  PROVE  /\ Back(regs, Signed23(t)) \in [Regs -> Word]
         /\ Indexed(Signed23(t)) \in Word
         /\ ~RightShift =>
              /\ Indexed(Signed23(t)) = ArmAddress
              /\ Back(regs, Signed23(t)) =
                   [r \in Regs |-> IF ~op.P /\ r = op.rn THEN ArmIndexed ELSE before[r]]
<1>1. regs \in [Regs -> Word] /\ op.rn \in Regs
  BY DEF TypeOK, Op
<1> DEFINE a == (regs[op.rn] + Signed23(t)) % M
<1>2. a \in Word /\ (~RightShift => a = ArmIndexed)
  BY IndexedRight
<1>3. Back(regs, Signed23(t)) = IF op.P THEN regs ELSE [regs EXCEPT ![op.rn] = a]
  BY DEF Back
<1>4. Indexed(Signed23(t)) = IF op.P THEN a ELSE regs[op.rn]
  BY DEF Indexed
<1> HIDE DEF a
<1>5. Back(regs, Signed23(t)) \in [Regs -> Word] /\ Indexed(Signed23(t)) \in Word
  BY <1>1, <1>2, <1>3, <1>4
<1>6. ~RightShift => Indexed(Signed23(t)) = ArmAddress
  BY <1>2, <1>4 DEF ArmAddress
<1>7. ~RightShift => Back(regs, Signed23(t)) =
        [r \in Regs |-> IF ~op.P /\ r = op.rn THEN ArmIndexed ELSE before[r]]
  BY <1>1, <1>2, <1>3
<1> QED BY <1>5, <1>6, <1>7

LEMMA LoadSingleInv ==
  ASSUME IInv, LoadSingle
  PROVE  IInv'
<1>1. Executes /\ UNCHANGED given /\ state' = "done" /\ Single /\ op.L
  BY DEF LoadSingle
<1>2. TypeOK /\ regs = before /\ op \in Op /\ Allowed /\ op.rd \in Regs
  BY <1>1, Carried DEF Allowed, Op
<1>3. PICK t \in Offsets :
        /\ access' = Access("read", IF op.b22 THEN 1 ELSE 4, Indexed(Signed23(t)))
        /\ regs' = Load(regs, Signed23(t), Answer)
  BY DEF LoadSingle
<1>4. op.form = "word"
  BY <1>1 DEF Single
<1>5. Answer \in Word /\ Answer = ArmLoaded
  BY <1>2, <1>4, AnswerWord DEF ArmLoaded
<1> DEFINE b == Back(regs, Signed23(t))
<1>6. /\ b \in [Regs -> Word] /\ Indexed(Signed23(t)) \in Word
      /\ ~RightShift =>
           /\ Indexed(Signed23(t)) = ArmAddress
           /\ b = [r \in Regs |-> IF ~op.P /\ r = op.rn THEN ArmIndexed ELSE before[r]]
  BY <1>2, BackRight
<1>7. regs' = [b EXCEPT ![op.rd] = Answer]
  BY <1>3 DEF Load
<1> HIDE DEF b
<1>8. regs' \in [Regs -> Word]
  BY <1>5, <1>6, <1>7
<1>9. ~RightShift => regs' = ArmRegs
  BY <1>1, <1>2, <1>5, <1>6, <1>7 DEF ArmRegs
<1>10. ~RightShift => Narrowed(access') = ArmAccess
  <2>1. Narrowed(access') = access'
    BY <1>3 DEF Narrowed, Access
  <2> QED BY <1>1, <1>3, <1>4, <1>6, <2>1 DEF ArmAccess, ArmBytes
<1>11. access' # None /\ access'.addr \in Word
  BY <1>3, <1>6 DEF Access, None
<1> QED BY <1>1, <1>8, <1>9, <1>10, <1>11, DoneInv

LEMMA StoreSingleInv ==
  ASSUME IInv, StoreSingle
  PROVE  IInv'
<1>1. Executes /\ UNCHANGED given /\ state' = "done" /\ Single /\ ~op.L
  BY DEF StoreSingle
<1>2. TypeOK /\ regs = before /\ op \in Op /\ Allowed /\ op.rd \in Regs /\ op.rn \in Regs
  BY <1>1, Carried DEF Allowed, Op
<1>3. PICK t \in Offsets :
        /\ regs' = Back(regs, Signed23(t))
        /\ access' = Store(IF op.b22 THEN 1 ELSE 4, Indexed(Signed23(t)), regs'[op.rd])
  BY DEF StoreSingle
<1>4. op.form = "word"
  BY <1>1 DEF Single
<1>5. /\ regs' \in [Regs -> Word] /\ Indexed(Signed23(t)) \in Word
      /\ ~RightShift =>
           /\ Indexed(Signed23(t)) = ArmAddress
           /\ regs' = [r \in Regs |-> IF ~op.P /\ r = op.rn THEN ArmIndexed ELSE before[r]]
  BY <1>2, <1>3, BackRight
<1>6. ~RightShift => regs' = ArmRegs
  BY <1>1, <1>5 DEF ArmRegs
<1>7. ~RightShift /\ ~Unpredictable => regs'[op.rd] = before[op.rd]
  BY <1>2, <1>5 DEF Unpredictable
<1>8. ~RightShift /\ ~Unpredictable => Narrowed(access') = ArmAccess
  <2>1. Narrowed(access') = Store(ArmBytes, Indexed(Signed23(t)), Cut(ArmBytes, regs'[op.rd]))
    BY <1>3, <1>4, NarrowedStore DEF ArmBytes
  <2> QED BY <1>1, <1>5, <1>7, <2>1 DEF ArmAccess
<1>9. access' # None /\ access'.addr \in Word
  BY <1>3, <1>5 DEF Store, None
<1> QED BY <1>1, <1>5, <1>6, <1>8, <1>9, DoneInv

LEMMA StepInv == IInv /\ [Next]_vars => IInv'
<1> SUFFICES ASSUME IInv, [Next]_vars PROVE IInv'
  OBVIOUS
<1>1. CASE UNCHANGED vars
  <2>1. UNCHANGED given /\ UNCHANGED <<regs, access, state>>
    BY <1>1 DEF vars, given
  <2>2. TypeOK'
    BY <2>1 DEF IInv, TypeOK, given
  <2> QED BY <2>1, <2>2, SameView DEF IInv, EmulatedRight, SkipsRight, Narrowed, Cut, given
<1> QED BY <1>1, SkipInv, AbortInv, LoadHalfInv, StoreHalfInv, LoadSingleInv,
           StoreSingleInv DEF Next

LEMMA Inductive == Spec => []IInv
BY InitInv, StepInv, PTL DEF Spec

\* The saved registers and the address the device sees stay words.
THEOREM TypeCorrect == Spec => []TypeOK
<1>1. IInv => TypeOK
  BY DEF IInv
<1> QED BY <1>1, Inductive, PTL

\* Every emulated access is the one the processor would have made, with the
\* registers it would have left (emu.c:792-859), right shifts excepted.
THEOREM EmulationRight == Spec => []EmulatedRight
<1>1. IInv => EmulatedRight
  BY DEF IInv
<1> QED BY <1>1, Inductive, PTL

\* Conditions are those of the processor (emu.c:777-791).
THEOREM ConditionsRight == Spec => []SkipsRight
<1>1. IInv => SkipsRight
  BY DEF IInv
<1> QED BY <1>1, Inductive, PTL

=============================================================================
