------------------------------ MODULE MCOpEmu ------------------------------
(* Words of 4 bits.  Three registers, so that base, offset and the register *)
(* transferred can be the same or not; the boundary values of a word; every *)
(* setting of the bits the code tests with AL, and every condition with a   *)
(* simple load and a simple store.                                          *)
EXTENDS OpEmu

MCFrames == {r \in [{0, 1, 2} -> {0, 1, 7, 8, 15}] : r[1] = 8}

Fields(cond, form, f, rd, rm, imm) ==
  [cond |-> cond, form |-> form, b25 |-> f.b25, P |-> f.P, U |-> f.U, b22 |-> f.b22,
   W |-> f.W, L |-> f.L, b6 |-> f.b6, b5 |-> f.b5, b4 |-> f.b4, rn |-> 0, rd |-> rd,
   rm |-> rm, shift |-> f.shift, amount |-> f.amount, imm |-> imm]

AnyBits == [b25 : BOOLEAN, P : BOOLEAN, U : BOOLEAN, b22 : BOOLEAN, W : BOOLEAN, L : BOOLEAN,
            b6 : BOOLEAN, b5 : BOOLEAN, b4 : BOOLEAN, shift : 0..3, amount : {0, 1, 3}]

\* Bits a form does not look at are left clear.
HalfBits == {f \in AnyBits : ~f.b25 /\ ~f.b4 /\ f.shift = 0 /\ f.amount = 0}
WordBits == {f \in AnyBits : /\ ~f.b6 /\ ~f.b5
                             /\ ~f.b25 => ~f.b4 /\ f.shift = 0 /\ f.amount = 0}
Plain(form) == {f \in AnyBits : /\ ~f.b25 /\ f.P /\ f.U /\ ~f.b22 /\ ~f.W /\ ~f.b6 /\ ~f.b4
                                /\ f.b5 = (form = "half") /\ f.shift = 0 /\ f.amount = 0}

MCFlags == [{"N", "Z", "C", "V"} -> BOOLEAN]
NoFlags == [f \in {"N", "Z", "C", "V"} |-> FALSE]
MCInputs == {2, 15}

MCOps ==
  {Fields("AL", "half", f, rd, rm, 3) : f \in HalfBits, rd \in {0, 1}, rm \in {0, 2}}
  \cup {Fields("AL", "word", f, rd, rm, 3) : f \in WordBits, rd \in {0, 1}, rm \in {0, 2}}
  \cup {Fields(c, x, f, 1, 2, 3) : c \in Conditions, x \in {"half", "word", "other"},
                                   f \in Plain("half") \cup Plain("word")}

\* The flags matter to the conditions only, and there the registers do not.
MCInit ==
  /\ op \in MCOps
  /\ flags \in IF op.cond = "AL" THEN {NoFlags} ELSE MCFlags
  /\ regs \in IF op.cond = "AL" THEN MCFrames ELSE {[r \in {0, 1, 2} |-> 8]}
  /\ input \in MCInputs
  /\ Reached

MCSpec == MCInit /\ [][Next]_vars
=============================================================================
