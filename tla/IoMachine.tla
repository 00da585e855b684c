----------------------------- MODULE IoMachine -----------------------------
(***************************************************************************)
(* What segv_sigaction and emu_handle_op (loader/emu.c) promise a program: *)
(* it runs as if the device registers were there.  A load or store takes   *)
(* effect once, where it stands, and the program goes on behind it; or the *)
(* process stops.  There is one limit: an instruction that has accessed a  *)
(* register is emulated from then on, and loses its access when it         *)
(* addresses anything else.  How accesses reach the emulator is module     *)
(* LinkPages, which implements this one.                                   *)
(***************************************************************************)
EXTENDS Integers

CONSTANT Code        \* addresses of loads and stores that may access registers

VARIABLES
  at,                \* the program counter
  passes,            \* the condition of the instruction there holds
  where,             \* what the instruction addresses this time
  done,              \* the instruction last executed if its access was made
  touched,           \* instructions that have accessed a register
  alive

vars == <<at, passes, where, done, touched, alive>>

Kinds == {"register", "memory", "none"}

\* The program gets to p, where registers and flags are what they are.
Arrive(p) == at' = p /\ passes' \in BOOLEAN /\ where' \in Kinds

Init ==
  /\ at \in Code /\ passes \in BOOLEAN /\ where \in Kinds
  /\ done = -1 /\ touched = {}
  /\ alive = TRUE

\* An instruction whose condition does not hold.
Skip ==
  /\ alive /\ at \in Code /\ ~passes
  /\ done' = -1
  /\ Arrive(at + 1)
  /\ UNCHANGED <<touched, alive>>

AccessRegister ==
  /\ alive /\ at \in Code /\ passes /\ where = "register"
  /\ done' = at /\ touched' = touched \cup {at}
  /\ Arrive(at + 1)
  /\ UNCHANGED alive

AccessMemory ==
  /\ alive /\ at \in Code \ touched /\ passes /\ where = "memory"
  /\ done' = at
  /\ Arrive(at + 1)
  /\ UNCHANGED <<touched, alive>>

\* The limit: there is no such register, so a load gives a fixed value and a
\* store is ignored.
Lose ==
  /\ alive /\ at \in touched /\ passes /\ where # "register"
  /\ done' = -1
  /\ Arrive(at + 1)
  /\ UNCHANGED <<touched, alive>>

\* Other instructions lead to one of these.
Branch ==
  /\ alive /\ at \notin Code
  /\ \E c \in Code : Arrive(c)
  /\ done' = -1
  /\ UNCHANGED <<touched, alive>>

Stop ==
  /\ alive /\ ~alive'
  /\ UNCHANGED <<at, passes, where, done, touched>>

Next == Skip \/ AccessRegister \/ AccessMemory \/ Lose \/ Branch \/ Stop

Spec == Init /\ [][Next]_vars
=============================================================================
