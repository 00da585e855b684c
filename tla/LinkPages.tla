----------------------------- MODULE LinkPages -----------------------------
(***************************************************************************)
(* How a register access reaches the emulator: segv_sigaction and the link *)
(* pages of loader/emu.c.                                                  *)
(*                                                                         *)
(* The first time an instruction touches a device register it faults.  The *)
(* handler writes a block of code to a link page near the program, which   *)
(* calls emu_handle_op with the instruction and jumps back behind it, and  *)
(* overwrites the instruction with a jump to the block.  From then on the  *)
(* program takes the jump.                                                 *)
(*                                                                         *)
(* Addresses count 32-bit words.  What is in a word is kept only as far as *)
(* it matters: blocks, headers and jumps that are whole, and every write   *)
(* destroys those that it overlaps.  What an instruction addresses may be  *)
(* different each time it is executed.  Faults in the emulator's own       *)
(* segment are left out, and so are faults of two threads of the program   *)
(* at once.                                                                *)
(***************************************************************************)
EXTENDS Integers

CONSTANTS
  PageWords,     \* LINKPAGE_SIZE
  PageCount,     \* LINKPAGE_COUNT
  Reach,         \* an ARM branch reaches Reach words back, Reach - 1 forward
  Areas,         \* the indices of g_linkpages that are in use
  MapBottom,     \* map_bottom: the lowest address of each part of the program
  Code,          \* the loads and stores that may address a register
  Unhandled,     \* those emu_handle_op does not know how to emulate
  UnknownCond    \* those whose condition (HI to LE) it does not test

LINKPAGE_ALLOC == PageWords * PageCount

HeaderWords == 2     \* code_ptr and handler of struct op_linkpage
BlockWords  == 9     \* struct op_context and seven instructions
Reserve     == 14    \* what must be left for the next block

\* emu_init: as much below map_bottom as is needed, on a page boundary.
LinkBase(a) == ((MapBottom[a] - LINKPAGE_ALLOC) \div PageWords) * PageWords

\* Two runs of words, n from x and m from s, share none.
Apart(x, n, s, m) == x + n <= s \/ s + m <= x

\* The program lies above its lowest address and the pages of the second area
\* below the segment they are for and above the first part: that is what the
\* loaders' choice of map_bottom is meant to give.
ASSUME ConstAssumption ==
  /\ PageWords \in Nat /\ PageWords >= HeaderWords + Reserve
  /\ PageCount \in Nat /\ PageCount >= 1
  /\ Reach \in Nat
  /\ Areas = {0} \/ Areas = {0, 1}
  /\ MapBottom \in [Areas -> Nat]
  /\ \A a \in Areas : MapBottom[a] >= LINKPAGE_ALLOC
  /\ Code \subseteq Nat /\ Code # {} /\ Unhandled \subseteq Code
  /\ UnknownCond \subseteq Code
  /\ \A a \in Areas : \A c \in Code : Apart(c, 1, LinkBase(a), LINKPAGE_ALLOC)
  /\ \A a, b \in Areas :
       a # b => Apart(LinkBase(a), LINKPAGE_ALLOC, LinkBase(b), LINKPAGE_ALLOC)

VARIABLES
  lp,        \* g_linkpages: the page in use of each area
  cp,        \* code_ptr of that page
  count,     \* g_linkpage_count, pages given up in both areas together
  headers,   \* pages whose header is set and whole
  blocks,    \* start of a block -> the instruction it emulates, where it
             \* returns to and the page whose handler it calls
  jump,      \* overwritten instruction -> the block it jumps to
  at, passes, where, done, touched,      \* the program, as in IoMachine
  status     \* "run", or what ended the process

vars == <<lp, cp, count, headers, blocks, jump,
          at, passes, where, done, touched, status>>
program == <<at, passes, where, done, touched>>
memory  == <<lp, cp, count, headers, blocks, jump>>

Places == Code \cup {c + 1 : c \in Code}
Kinds == {"register", "memory", "none"}
Arrive(p) == at' = p /\ passes' \in BOOLEAN /\ where' \in Kinds

Nowhere == [pc |-> -1, back |-> -1, lp |-> -1]     \* no block is there

\* A function with one more argument, and one without those written over.
Put(f, x, v) == [y \in DOMAIN f \cup {x} |-> IF y = x THEN v ELSE f[y]]
Clear(f, n, s, m) == [y \in {z \in DOMAIN f : Apart(z, n, s, m)} |-> f[y]]
-----------------------------------------------------------------------------
(* Slips that a change to this code could make; each breaks a property.     *)

BlockEmitted_ReturnToPc(a) ==   \* jumps back to pc, not behind it
  Put(Clear(blocks, BlockWords, cp[a], BlockWords), cp[a],
      [pc |-> at, back |-> at, lp |-> lp[a]])

RoomAfter_NoReserve(a) ==       \* turns the page when it is full, not before
  cp[a] + BlockWords - lp[a] <= PageWords
-----------------------------------------------------------------------------
Init ==
  /\ lp = [a \in Areas |-> LinkBase(a)]
  /\ cp = [a \in Areas |-> LinkBase(a) + HeaderWords]
  /\ count = 0
  /\ headers = {LinkBase(a) : a \in Areas}
  /\ blocks = [s \in {} |-> Nowhere] /\ jump = [c \in {} |-> 0]
  /\ at \in Code /\ passes \in BOOLEAN /\ where \in Kinds
  /\ done = -1 /\ touched = {}
  /\ status = "run"

\* "PC is .. in linkpage": the test compares all but the low bits of the size
\* of the whole allocation.
InLinkpage(pc) == pc \div LINKPAGE_ALLOC = lp[0] \div LINKPAGE_ALLOC

JumpFits(from, to) == to - from - 2 \in (-Reach)..(Reach - 1)      \* make_jmp
HandlerFits(a) == cp[a] + 6 + 2 - (lp[a] + 1) < PageWords   \* make_offset12

\* The area the handler picks: the first whose next block is near enough.
Near(a) == cp[a] - at \in (-Reach)..(Reach - 1)
Nearest(a) == Near(a) /\ \A b \in Areas : b < a => ~Near(b)

\* The emitted code is reached and reaches: pc -> block, handler, block -> pc + 1.
Emittable(a) ==
  /\ JumpFits(at, cp[a] + 2)
  /\ HandlerFits(a)
  /\ JumpFits(cp[a] + 8, at + 1)

\* What the memory holds once the handler has written the jump and the block.
JumpEmitted(a) == Clear(Put(jump, at, cp[a]), 1, cp[a], BlockWords)
BlockEmitted(a) ==
  Put(Clear(blocks, BlockWords, cp[a], BlockWords), cp[a],
      [pc |-> at, back |-> at + 1, lp |-> lp[a]])
HeadersLeft(a) == {h \in headers : Apart(h, HeaderWords, cp[a], BlockWords)}

\* The page has room for one more block after the one emitted now.
RoomAfter(a) == cp[a] + BlockWords - lp[a] + Reserve <= PageWords

\* The instruction at the program counter faults: it has not been patched, its
\* condition holds and what it addresses is not mapped.
Faults ==
  /\ status = "run" /\ at \in Code /\ at \notin DOMAIN jump
  /\ passes /\ where # "memory"

\* "real crash - time to die": the place or the address is not as expected.
Crashes == InLinkpage(at) \/ where # "register"
Emulates == Faults /\ ~Crashes

RealCrash ==
  /\ Faults /\ Crashes
  /\ status' = "crash"
  /\ UNCHANGED <<memory, program>>

NoNearPage ==
  /\ Emulates /\ \A a \in Areas : ~Near(a)
  /\ status' = "no_page"
  /\ UNCHANGED <<memory, program>>

TooFar(a) ==
  /\ Emulates /\ Nearest(a) /\ ~Emittable(a)
  /\ status' = "too_far"
  /\ UNCHANGED <<memory, program>>

Patch(a) ==
  /\ Emulates /\ Nearest(a) /\ Emittable(a) /\ RoomAfter(a)
  /\ jump' = JumpEmitted(a) /\ blocks' = BlockEmitted(a) /\ headers' = HeadersLeft(a)
  /\ cp' = [cp EXCEPT ![a] = @ + BlockWords]
  /\ UNCHANGED <<lp, count, program, status>>

PatchAndTurn_LateCount(a) ==      \* counts to the end of the allocation and beyond
  LET next == lp[a] + PageWords IN
  /\ Emulates /\ Nearest(a) /\ Emittable(a) /\ ~RoomAfter(a)
  /\ count < PageCount
  /\ count' = count + 1
  /\ lp' = [lp EXCEPT ![a] = next]
  /\ cp' = [cp EXCEPT ![a] = next + HeaderWords]
  /\ jump' = Clear(JumpEmitted(a), 1, next, HeaderWords)
  /\ blocks' = Clear(BlockEmitted(a), BlockWords, next, HeaderWords)
  /\ headers' = {h \in HeadersLeft(a) : Apart(h, HeaderWords, next, HeaderWords)}
                \cup {next}
  /\ UNCHANGED <<program, status>>

PatchAndTurn_OverHeader(a) ==     \* code_ptr starts on the header
  LET next == lp[a] + PageWords IN
  /\ Emulates /\ Nearest(a) /\ Emittable(a) /\ ~RoomAfter(a)
  /\ count + 1 < PageCount
  /\ count' = count + 1
  /\ lp' = [lp EXCEPT ![a] = next]
  /\ cp' = [cp EXCEPT ![a] = next]
  /\ jump' = Clear(JumpEmitted(a), 1, next, HeaderWords)
  /\ blocks' = Clear(BlockEmitted(a), BlockWords, next, HeaderWords)
  /\ headers' = {h \in HeadersLeft(a) : Apart(h, HeaderWords, next, HeaderWords)}
                \cup {next}
  /\ UNCHANGED <<program, status>>

\* The page is full: go to the next one of the allocation and set its header.
PatchAndTurn(a) ==
  LET next == lp[a] + PageWords IN
  /\ Emulates /\ Nearest(a) /\ Emittable(a) /\ ~RoomAfter(a)
  /\ count + 1 < PageCount
  /\ count' = count + 1
  /\ lp' = [lp EXCEPT ![a] = next]
  /\ cp' = [cp EXCEPT ![a] = next + HeaderWords]
  /\ jump' = Clear(JumpEmitted(a), 1, next, HeaderWords)
  /\ blocks' = Clear(BlockEmitted(a), BlockWords, next, HeaderWords)
  /\ headers' = {h \in HeadersLeft(a) : Apart(h, HeaderWords, next, HeaderWords)}
                \cup {next}
  /\ UNCHANGED <<program, status>>

TooManyPages(a) ==
  /\ Emulates /\ Nearest(a) /\ Emittable(a) /\ ~RoomAfter(a)
  /\ count + 1 >= PageCount
  /\ status' = "too_many"
  /\ UNCHANGED <<memory, program>>
-----------------------------------------------------------------------------
(* The program runs.                                                        *)

\* The block a patched instruction jumps to, if it is still there whole.
Target ==
  IF jump[at] \in DOMAIN blocks /\ blocks[jump[at]].lp \in headers
  THEN blocks[jump[at]] ELSE Nowhere

\* What emu_handle_op gives up on: the condition is looked at first.
GivesUp(c) == c \in UnknownCond \/ (passes /\ c \in Unhandled)

\* emu_handle_op reaches a register.  Any other address ends in an unknown
\* register: a read gives a fixed value, a write is ignored.
Reaches == passes /\ where = "register"

Execute_Inverted ==     \* returns where the condition holds, not where it fails
  /\ status = "run" /\ at \in DOMAIN jump /\ ~GivesUp(Target.pc)
  /\ LET reaches == ~passes /\ where = "register" IN
     /\ done' = IF reaches THEN Target.pc ELSE -1
     /\ touched' = IF reaches THEN touched \cup {at} ELSE touched
  /\ Arrive(Target.back)
  /\ UNCHANGED <<memory, status>>

\* emu_handle_op: tests the condition, makes the access, returns to the block.
Execute ==
  /\ status = "run" /\ at \in DOMAIN jump /\ ~GivesUp(Target.pc)
  /\ done' = IF Reaches THEN Target.pc ELSE -1
  /\ touched' = IF Reaches THEN touched \cup {at} ELSE touched
  /\ Arrive(Target.back)
  /\ UNCHANGED <<memory, status>>

ExecuteUnhandled ==
  /\ status = "run" /\ at \in DOMAIN jump /\ GivesUp(Target.pc)
  /\ status' = "unhandled"
  /\ UNCHANGED <<memory, program>>

\* An instruction that is not patched and does not fault.
RunPlain ==
  /\ status = "run" /\ at \in Code \ DOMAIN jump /\ (passes => where = "memory")
  /\ done' = IF passes THEN at ELSE -1
  /\ Arrive(at + 1)
  /\ UNCHANGED <<memory, touched, status>>

Branch ==
  /\ status = "run" /\ at \notin Code
  /\ \E c \in Code : Arrive(c)
  /\ done' = -1
  /\ UNCHANGED <<memory, touched, status>>

Handle == RealCrash \/ NoNearPage
          \/ \E a \in Areas : TooFar(a) \/ Patch(a) \/ PatchAndTurn(a) \/ TooManyPages(a)

Step == Handle \/ Execute \/ ExecuteUnhandled \/ RunPlain

Next == Step \/ Branch

\* The processor goes on with an instruction it has reached.
Spec == Init /\ [][Next]_vars /\ WF_vars(Step)
-----------------------------------------------------------------------------
TypeOK ==
  /\ lp \in [Areas -> Nat] /\ cp \in [Areas -> Nat]
  /\ count \in 0..(PageCount - 1)
  /\ headers \subseteq Nat
  /\ DOMAIN blocks \subseteq Nat /\ DOMAIN jump \subseteq Code
  /\ at \in Places /\ passes \in BOOLEAN /\ where \in Kinds
  /\ touched \subseteq Code /\ done \in Code \cup {-1}
  /\ status \in {"run", "crash", "no_page", "too_far", "too_many", "unhandled"}

\* Whatever faults next, its block fits in what is left of the page and its
\* load of the handler's address reaches the header: the reserve of 14 words
\* that ends a page is enough.
RoomForBlock ==
  \A a \in Areas : cp[a] + BlockWords <= lp[a] + PageWords /\ HandlerFits(a)

\* The pages in use are of the allocation made for their area.  There is one
\* counter for both areas, and only it stops the page pointers.
PagesMapped ==
  \A a \in Areas :
    LinkBase(a) <= lp[a] /\ lp[a] + PageWords <= LinkBase(a) + LINKPAGE_ALLOC

\* An overwritten instruction jumps to a whole block that emulates it, returns
\* behind it and finds the handler: no block or header is ever written over.
JumpsLand ==
  \A c \in DOMAIN jump :
    /\ jump[c] \in DOMAIN blocks
    /\ blocks[jump[c]].pc = c /\ blocks[jump[c]].back = c + 1
    /\ blocks[jump[c]].lp \in headers

\* What is reported as a crash is one ("real crash - time to die"): no access
\* to a register by the program is taken for a fault in the link pages.
CrashIsReal == status = "crash" => where # "register"

\* An instruction faults at most once: its jump stays and is never redirected.
FaultsOnce ==
  [][\A c \in DOMAIN jump : c \in DOMAIN jump' /\ jump'[c] = jump[c]]_vars

\* A program run on link pages does what it does with the device there, each
\* access made or lost as IoMachine says, wherever its registers point when
\* an instruction is executed again.
Io == INSTANCE IoMachine WITH alive <- (status = "run")
ImplementsIo == Io!Spec

\* Every access to a register that is reached is made in the end, whether the
\* instruction has to be patched first or not, or the process ends.
AccessMade ==
  \A c \in Code :
    (at = c /\ passes /\ where = "register") ~> (done = c \/ status # "run")
=============================================================================
