------------------------------- MODULE OpEmu -------------------------------
(***************************************************************************)
(* emu_handle_op of loader/emu.c: one load or store to a device register,  *)
(* carried out on the saved registers of the program, beside what the      *)
(* processor would have done with it.                                      *)
(*                                                                         *)
(* An instruction is a record of its fields: the bits the code tests by    *)
(* their numbers (P = 24, U = 23, W = 21, L = 20), the registers, the      *)
(* shift and the immediate.  "half" is an instruction with the bits of the *)
(* extra loads and stores (27-25 clear, 7 and 4 set), "word" one with      *)
(* 27-26 = 01, "other" the rest.  The frame's word behind r14 is the saved *)
(* cpsr, so that is what the code takes for r15; such instructions are     *)
(* left to the proviso of the properties, because one that addresses       *)
(* device registers relative to the pc does not exist.                     *)
(***************************************************************************)
EXTENDS Integers

CONSTANTS
  Bits,            \* 32, the width of a word
  M,               \* 2^Bits
  HalfM, ByteM,    \* 2^(Bits / 2) and 2^(Bits / 4)
  Regs,            \* the general registers, numbers below 15
  Ops,             \* bound: the instructions that access device registers
  Frames,          \* bound: what the registers hold
  Flags,           \* bound: settings of the N, Z, C and V flags
  Inputs           \* bound: what a device register holds

Word == 0..(M - 1)
Conditions == {"EQ", "NE", "CS", "CC", "MI", "PL", "VS", "VC",
               "HI", "LS", "GE", "LT", "GT", "LE", "AL"}
Op == [cond : Conditions, form : {"half", "word", "other"},
       b25 : BOOLEAN, P : BOOLEAN, U : BOOLEAN, b22 : BOOLEAN, W : BOOLEAN, L : BOOLEAN,
       b6 : BOOLEAN, b5 : BOOLEAN, b4 : BOOLEAN,
       rn : Regs, rd : Regs, rm : Regs, shift : 0..3, amount : 0..(Bits - 1), imm : Word]

ASSUME WordAssumption ==
  /\ Bits \in Nat \ {0} /\ M \in Nat \ {0} /\ HalfM \in Nat \ {0} /\ ByteM \in Nat \ {0}
  /\ M = 2^Bits /\ M = HalfM * HalfM /\ HalfM % 2 = 0
  /\ \A n \in 0..Bits : 2^n \in Nat \ {0}
  /\ Regs \subseteq 0..14

ASSUME InputAssumption ==
  /\ Ops \subseteq Op /\ Frames \subseteq [Regs -> Word]
  /\ Flags \subseteq [{"N", "Z", "C", "V"} -> BOOLEAN]
  /\ Inputs \subseteq Word

VARIABLES
  op, flags,
  regs,            \* saved_regs
  input,           \* what the device register holds, should it be read
  access,          \* what the device sees
  state,           \* "fault", and then "skipped", "done" or "aborted"
  before           \* history: the registers when the instruction was reached

vars == <<op, flags, regs, input, access, state, before>>
given == <<op, flags, input, before>>

None == [kind |-> "none"]
Access(kind, bytes, addr) == [kind |-> kind, bytes |-> bytes, addr |-> addr]
Store(bytes, addr, data) == [kind |-> "write", bytes |-> bytes, addr |-> addr, data |-> data]

Signed(x) == IF 2 * x >= M THEN x - M ELSE x
Asr(x, n) == (Signed(x) \div 2^n) % M
-----------------------------------------------------------------------------
(* Slips that a change to this code could make; each breaks a property.     *)

Negated_Ones(t) == M - 1 - t                \* ~t for -t

Passes_Unsigned ==                          \* MI and PL test the carry
  CASE op.cond = "EQ" -> flags["Z"]  [] op.cond = "NE" -> ~flags["Z"]
    [] op.cond \in {"CS", "MI"} -> flags["C"]  [] op.cond \in {"CC", "PL"} -> ~flags["C"]
    [] op.cond = "VS" -> flags["V"]  [] op.cond = "VC" -> ~flags["V"]
    [] op.cond = "AL" -> TRUE
-----------------------------------------------------------------------------
(* What the code does.                                                      *)

\* The conditions it tests; HI to LE go to unhandled.
Known == Conditions \ {"HI", "LS", "GE", "LT", "GT", "LE"}
Passes ==
  CASE op.cond = "EQ" -> flags["Z"]  [] op.cond = "NE" -> ~flags["Z"]
    [] op.cond = "CS" -> flags["C"]  [] op.cond = "CC" -> ~flags["C"]
    [] op.cond = "MI" -> flags["N"]  [] op.cond = "PL" -> ~flags["N"]
    [] op.cond = "VS" -> flags["V"]  [] op.cond = "VC" -> ~flags["V"]
    [] op.cond = "AL" -> TRUE

\* (op & 0x0f200090) == 0x01000090: pre-indexed without writeback.
Extra == op.form = "half" /\ op.P /\ ~op.W

\* LDRH, LDRSH and STRH of them.
Halfword == Extra /\ op.b5 /\ ~(op.b6 /\ ~op.L)

\* Declined: bit 21 (unprivileged, or pre-indexed with writeback), media
\* instructions and rotated offsets.
Unprivileged == op.W
Single == op.form = "word" /\ ~Unprivileged /\ ~(op.b25 /\ (op.b4 \/ op.shift = 3))

\* A shift by the width is undefined: nothing is left, or nothing shifted.
Lsr(x, n) == IF n = Bits THEN {0, x} ELSE {x \div 2^n}
AsrSet(x, n) == IF n = Bits THEN {Asr(x, n), x} ELSE {Asr(x, n)}

Offsets ==
  IF op.form = "half" THEN {IF op.b22 THEN op.imm ELSE regs[op.rm]}
  ELSE IF ~op.b25 THEN {op.imm}
  ELSE CASE op.shift = 0 -> {(regs[op.rm] * 2^op.amount) % M}
         [] op.shift = 1 -> Lsr(regs[op.rm], op.amount + 1)
         [] op.shift = 2 -> AsrSet(regs[op.rm], op.amount + 1)

Negated(t) == (0 - t) % M
Signed23(t) == IF op.U THEN t ELSE Negated(t)

\* ret <<= 16; ret = (signed int)ret >> 16
SignExtended(v) == IF 2 * v >= HalfM THEN v + (M - HalfM) ELSE v

\* The base after a load or store of a word or byte, and the register loaded.
Back(r, t) == IF op.P THEN r ELSE [r EXCEPT ![op.rn] = (@ + t) % M]
Load(r, t, v) == [Back(r, t) EXCEPT ![op.rd] = v]

Reached == before = regs /\ access = None /\ state = "fault"

Init ==
  /\ op \in Ops /\ flags \in Flags /\ regs \in Frames /\ input \in Inputs
  /\ Reached

Skip ==
  /\ state = "fault" /\ op.cond \in Known /\ ~Passes
  /\ state' = "skipped"
  /\ UNCHANGED <<given, regs, access>>

Executes == state = "fault" /\ op.cond \in Known /\ Passes

\* What a load is given: xread16 and xread32 give the register, xread8 gives 0
\* whatever it holds.
Answer == IF op.form = "half" THEN input % HalfM ELSE IF op.b22 THEN 0 ELSE input

LoadHalf ==
  /\ Executes /\ Halfword /\ op.L
  /\ \E t \in Offsets :
       LET addr == (regs[op.rn] + Signed23(t)) % M
           v == IF op.b6 THEN SignExtended(Answer) ELSE Answer
       IN /\ access' = Access("read", 2, addr)
          /\ regs' = [regs EXCEPT ![op.rd] = v]
  /\ state' = "done" /\ UNCHANGED given

StoreHalf ==
  /\ Executes /\ Halfword /\ ~op.L
  /\ \E t \in Offsets :
       access' = Store(2, (regs[op.rn] + Signed23(t)) % M, regs[op.rd])
  /\ state' = "done" /\ UNCHANGED <<given, regs>>

Indexed(t) == IF op.P THEN (regs[op.rn] + t) % M ELSE regs[op.rn]

LoadSingle ==
  /\ Executes /\ Single /\ op.L
  /\ \E t \in Offsets :
       /\ access' = Access("read", IF op.b22 THEN 1 ELSE 4, Indexed(Signed23(t)))
       /\ regs' = Load(regs, Signed23(t), Answer)
  /\ state' = "done" /\ UNCHANGED given

\* The register is read after the writeback.
StoreSingle ==
  /\ Executes /\ Single /\ ~op.L
  /\ \E t \in Offsets :
       /\ regs' = Back(regs, Signed23(t))
       /\ access' = Store(IF op.b22 THEN 1 ELSE 4, Indexed(Signed23(t)), regs'[op.rd])
  /\ state' = "done" /\ UNCHANGED given

Abort ==
  /\ state = "fault"
  /\ op.cond \in Known => Passes /\ ~Halfword /\ ~Single
  /\ state' = "aborted" /\ UNCHANGED <<given, regs, access>>

Next == Skip \/ LoadHalf \/ StoreHalf \/ LoadSingle \/ StoreSingle \/ Abort

Spec == Init /\ [][Next]_vars
-----------------------------------------------------------------------------
(* What the processor does: the manual's single and halfword transfers.     *)

ArmPasses ==
  LET n == flags["N"]  z == flags["Z"]  c == flags["C"]  v == flags["V"]
  IN CASE op.cond = "EQ" -> z             [] op.cond = "NE" -> ~z
       [] op.cond = "CS" -> c             [] op.cond = "CC" -> ~c
       [] op.cond = "MI" -> n             [] op.cond = "PL" -> ~n
       [] op.cond = "VS" -> v             [] op.cond = "VC" -> ~v
       [] op.cond = "HI" -> c /\ ~z       [] op.cond = "LS" -> ~c \/ z
       [] op.cond = "GE" -> n = v         [] op.cond = "LT" -> n # v
       [] op.cond = "GT" -> ~z /\ n = v   [] op.cond = "LE" -> z \/ n # v
       [] op.cond = "AL" -> TRUE

\* Right shifts of 0 stand for shifts by the width.
ArmShift(x) ==
  CASE op.shift = 0 -> (x * 2^op.amount) % M
    [] op.shift = 1 -> IF op.amount = 0 THEN 0 ELSE x \div 2^op.amount
    [] op.shift = 2 -> Asr(x, IF op.amount = 0 THEN Bits ELSE op.amount)

ArmOffset ==
  IF op.form = "half" THEN (IF op.b22 THEN op.imm ELSE before[op.rm])
  ELSE IF op.b25 THEN ArmShift(before[op.rm]) ELSE op.imm

ArmIndexed == IF op.U THEN (before[op.rn] + ArmOffset) % M
              ELSE (before[op.rn] - ArmOffset) % M
ArmAddress == IF op.P THEN ArmIndexed ELSE before[op.rn]

\* A halfword with its sign, as a word.
ArmLoaded ==
  IF op.form = "half" /\ op.b6 /\ Answer >= HalfM \div 2 THEN (Answer - HalfM) % M ELSE Answer

ArmRegs ==
  [r \in Regs |-> IF op.L /\ r = op.rd THEN ArmLoaded
                  ELSE IF ~op.P /\ r = op.rn THEN ArmIndexed
                  ELSE before[r]]

ArmBytes == IF op.form = "half" THEN 2 ELSE IF op.b22 THEN 1 ELSE 4
Cut(bytes, data) == CASE bytes = 1 -> data % ByteM [] bytes = 2 -> data % HalfM [] OTHER -> data
ArmAccess == IF op.L THEN Access("read", ArmBytes, ArmAddress)
             ELSE Store(ArmBytes, ArmAddress, Cut(ArmBytes, before[op.rd]))

\* A base that is written back must not be the register transferred.
Unpredictable == ~op.P /\ op.rn = op.rd

\* The lower bits of what the code passes on, for an access of some width.
Narrowed(a) == IF a.kind = "write" THEN [a EXCEPT !.data = Cut(a.bytes, @)] ELSE a
RightShift == op.form = "word" /\ op.b25 /\ op.shift \in {1, 2}
-----------------------------------------------------------------------------
(* Properties.                                                              *)

\* Types; an abort or a skip leaves no access behind.
TypeOK ==
  /\ op \in Op /\ flags \in [{"N", "Z", "C", "V"} -> BOOLEAN]
  /\ regs \in [Regs -> Word] /\ before \in [Regs -> Word] /\ input \in Word
  /\ state \in {"fault", "skipped", "done", "aborted"}
  /\ access # None <=> state = "done"
  /\ access # None => access.addr \in Word

\* An instruction that is emulated leaves the program's registers, and asks the
\* device for, what the processor would have: the address with its offset up or
\* down and the base written back or not, the loaded value over a base that is
\* also loaded, signs of halfwords, the data of stores (emu.c:792-859).  The
\* code passes the whole register on whatever the width of a store; of that the
\* bits that belong to the store are compared, and the others are left to the
\* device.  Offsets shifted to the right are excepted: the code shifts them one
\* bit too far (emu.c:829-830).
EmulatedRight ==
  state = "done" /\ ~RightShift /\ ~Unpredictable
    => regs = ArmRegs /\ Narrowed(access) = ArmAccess

\* Only an instruction whose condition fails is passed over, and none whose
\* condition fails is carried out (emu.c:777-791).
SkipsRight ==
  /\ state = "skipped" => ~ArmPasses
  /\ state = "done" => ArmPasses

\* The address the code computes is the one the processor would access, so that
\* the check that is compiled out ("bad calculated addr", emu.c:863-868) would
\* never stop the program.
CalculatedAddr == state = "done" /\ ~Unpredictable => access.addr = ArmAddress
=============================================================================
