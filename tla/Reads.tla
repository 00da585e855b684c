------------------------------- MODULE Reads -------------------------------
(***************************************************************************)
(* What a program finds in the registers it polls: xread16, xread32,       *)
(* xread32_io_cmn and emu_do_read of loader/emu.c, and what loader/host.c  *)
(* and host_wiz.c make of the host's keys.                                 *)
(*                                                                         *)
(* Buttons.  A register holds a part of them, so a program polls with      *)
(* several reads.  One of them asks the host and keeps the answer in       *)
(* btn_state for the others; fb_sync_thread, which looks for the kill key, *)
(* puts another answer there now and then.                                 *)
(*                                                                         *)
(* Timers.  Both are made of the host's clock by a multiplication and a    *)
(* shift, in words that wrap around.                                       *)
(*                                                                         *)
(* Unknown registers.  A program that waits for a bit of one must not wait *)
(* for ever, so a register that is read again reads as all zeros and all   *)
(* ones in turn.                                                           *)
(*                                                                         *)
(* A word is the set of its bits that are 1, a time and a timer a number.  *)
(* What the program makes of the button words is the layout in the         *)
(* comments ("minilib reads as", "wiz_lib reads"), where a bit that is 0   *)
(* is a button that is pressed.  A program polls one of the three; they    *)
(* share nothing.                                                          *)
(***************************************************************************)
EXTENDS Integers, FiniteSets

CONSTANTS
  Holdings,     \* sets of buttons the user may hold at a time
  MaxStates,    \* bound: values btn_state has during one poll
  HasFn,        \* probably_caanoo: the home key changes what some keys mean
  Unknown,      \* addresses of registers xread16 does not know
  Awaited,      \* bits of them programs wait for
  MaxTries,     \* bound: reads that are counted while a program waits
  Wrap,         \* 2^32
  Ns,           \* 1000000000, the clock's units of a second
  Rates,        \* ticks of a second: [TIMER3 |-> 1000000, TCOUNT |-> 7372800]
  Factors,      \* [TIMER3 |-> 4294968, TCOUNT |-> 31665935]
  Moments       \* bound: times at which a timer is read, in the clock's units

GP2X_UP == 0
GP2X_LEFT == 2
GP2X_DOWN == 4
GP2X_RIGHT == 6
GP2X_START == 8
GP2X_SELECT == 9
GP2X_L == 10
GP2X_R == 11
GP2X_A == 12
GP2X_B == 13
GP2X_X == 14
GP2X_Y == 15
GP2X_VOL_UP == 16
GP2X_VOL_DOWN == 17
GP2X_PUSH == 18

Buttons == {0, 2, 4, 6} \cup 8..18

ASSUME ConstAssumption ==
  /\ Holdings \subseteq SUBSET Buttons /\ MaxStates \in Nat \ {0}
  /\ HasFn \in BOOLEAN
  /\ Awaited \subseteq 0..15 /\ MaxTries \in Nat /\ 0 \notin Unknown

\* The factors are the rates as fractions of Wrap, rounded up.
Timers == {"TIMER3", "TCOUNT"}
ASSUME ClockAssumption ==
  /\ Wrap \in Nat /\ Ns \in 1..Wrap /\ Moments \subseteq Nat
  /\ Rates \in [Timers -> Nat] /\ Factors \in [Timers -> Nat]
  /\ \A k \in Timers : Wrap * Rates[k] + 2 * Ns < Wrap * Ns
  /\ \A k \in Timers : Factors[k] * Ns - Rates[k] * Wrap \in 0..(Ns - 1)

VARIABLES
  polls,       \* what the program polls: "buttons", "timers" or "unknown"
  held,        \* the buttons the user holds
  home,        \* the user holds the home key
  btn_state,   \* mmsp2.btn_state
  seen,        \* what the program has read since it began to poll
  during,      \* history: the values of btn_state since then
  steady,      \* history: the user has changed nothing since then
  exited,      \* host_forced_exit
  fudge, old_a,        \* of xread16
  waits,       \* the bit the program waits for
  tries,       \* history: polls in vain with no other unknown register read
  now,         \* the host's clock
  older, newer \* history: the last two readings of a timer

buttons == <<held, home, btn_state, seen, during, steady, exited>>
unknown == <<fudge, old_a, waits, tries>>
clock   == <<now, older, newer>>
vars == <<polls, buttons, unknown, clock>>
user == <<held, home>>

Bits == 0..31
Not(w) == Bits \ w
Shl(w, n) == {b + n : b \in w} \cap Bits
Shr(w, n) == {b - n : b \in w} \cap Bits
Low(w) == w \cap 0..15                        \* & 0xffff
Mask(first, last) == first..last              \* a mask, by its bits
-----------------------------------------------------------------------------
(* The host.                                                                *)

\* host_actions of host_wiz.c: with home, start and select are the volume keys.
HostActions(act) ==
  (act \ {GP2X_START, GP2X_SELECT})
    \cup (IF GP2X_START \in act THEN {GP2X_VOL_UP} ELSE {})
    \cup (IF GP2X_SELECT \in act THEN {GP2X_VOL_DOWN} ELSE {})

Fn == HasFn /\ home
Kill == Fn /\ GP2X_Y \in held
HostReadBtns == IF Fn THEN HostActions(held) ELSE held
-----------------------------------------------------------------------------
(* Slips that a change to this code could make; each breaks a property.     *)

Fresh_Kept == btn_state                 \* leaves the reading to fb_sync_thread

GPIOD_Swapped(b) ==                     \* the volume keys change places
  (Shr(Not(b), 10) \cap {7}) \cup (Shr(Not(b), 10) \cap {6})
    \cup (Shr(Not(b), 7) \cap {11}) \cup {0, 1, 3, 4, 5, 8, 9, 10, 12, 13}

Flipped_Not == fudge                    \* fudge = ~fudge is forgotten

Micros_Narrow(ns) ==                    \* without the cast to u64
  ((ns * Factors["TIMER3"]) % Wrap) \div Wrap
-----------------------------------------------------------------------------
(* The registers, as functions of btn_state.                                *)

\* 0x1184
GPIOC(b) == (Not(b) \cap Mask(8, 15)) \cup Mask(0, 7)

\* 0x1186; the constant is 0x373b.
GPIOD(b) ==
  (Shr(Not(b), 9) \cap {7}) \cup (Shr(Not(b), 11) \cap {6})
    \cup (Shr(Not(b), 7) \cap {11}) \cup {0, 1, 3, 4, 5, 8, 9, 10, 12, 13}

\* 0x1198; the constant is 0x01aa.
GPIOM(b) == (Not(b) \cap Mask(0, 7)) \cup {1, 3, 5, 7, 8}

\* 0xa058
GPIOBPAD(b) ==
  Not(Shl((Shr(b, 1) \cap {8}) \cup (Shl(b, 1) \cap {9}) \cup (Shr(b, 3) \cap {7})
            \cup (Shr(b, 5) \cap {6}) \cup (Shr(b, 6) \cap {10, 11}), 16))

\* 0xa098
GPIOCPAD(b) ==
  Not(Shl((Shr(b, 8) \cap Mask(4, 7)) \cup (Shr(b, 1) \cap {3}) \cup (Shl(b, 2) \cap {2})
            \cup (Shr(b, 5) \cap {1}) \cup (Shr(b, 2) \cap {0}), 16))

Registers == [gp2x |-> {"GPIOM", "GPIOC", "GPIOD"}, wiz |-> {"GPIOCPAD", "GPIOBPAD"},
              device |-> {"GPIO"}]
Machines == DOMAIN Registers

Half(w) == Low(Shr(w, 16))

\* What a read of buttons gives.  The Wiz registers are read whole, by xread32,
\* and the program takes the upper half.  A program that reads that half alone is
\* left out: at the address of the half xread16 knows no register, and what it
\* gives at the address of the whole is the half that belongs two bytes further
\* (emu.c:547-552).
Value(reg, b) ==
  CASE reg = "GPIOM" -> Low(GPIOM(b))
    [] reg = "GPIOC" -> Low(GPIOC(b))
    [] reg = "GPIOD" -> Low(GPIOD(b))
    [] reg = "GPIOBPAD" -> Half(GPIOBPAD(b))
    [] reg = "GPIOCPAD" -> Half(GPIOCPAD(b))
    [] reg = "GPIO" -> b

\* The reads that ask the host first, and what they put in btn_state.
First == {"GPIOM", "GPIOCPAD", "GPIO"}
Fresh == HostReadBtns

NoWait == [reg |-> 0, bit |-> 0, set |-> FALSE]
NoReading == [timer |-> "none", at |-> 0, value |-> 0]

Init ==
  /\ held = {} /\ home = FALSE /\ btn_state = {} /\ exited = FALSE
  /\ seen = <<>> /\ during = {} /\ steady = FALSE
  /\ polls \in {"buttons", "timers", "unknown"}
  /\ fudge = {} /\ old_a = 0 /\ waits = NoWait /\ tries = 0
  /\ now = 0 /\ older = NoReading /\ newer = NoReading

\* The first read of a poll is the one that asks the host.
BeginPoll(m, reg) ==
  /\ reg \in Registers[m] \cap First
  /\ btn_state' = Fresh /\ exited' = Kill
  /\ seen' = [r \in {reg} |-> Value(reg, btn_state')]
  /\ during' = {btn_state'} /\ steady' = TRUE
  /\ UNCHANGED user

\* The others follow, in any order.
ReadMore(m, reg) ==
  /\ DOMAIN seen \subseteq Registers[m] /\ DOMAIN seen # {}
  /\ reg \in Registers[m] \ DOMAIN seen /\ reg \notin First
  /\ seen' = [r \in DOMAIN seen \cup {reg} |->
                IF r = reg THEN Value(reg, btn_state) ELSE seen[r]]
  /\ UNCHANGED <<user, btn_state, during, steady, exited>>

\* fb_sync_thread, at check_keys.
CheckKeys ==
  /\ Cardinality(during \cup {HostReadBtns}) <= MaxStates
  /\ btn_state' = HostReadBtns /\ exited' = Kill
  /\ during' = IF DOMAIN seen = {} THEN {} ELSE during \cup {HostReadBtns}
  /\ UNCHANGED <<user, seen, steady>>

UserHolds(keys, h) ==
  /\ <<keys, h>> # user
  /\ held' = keys /\ home' = h /\ steady' = FALSE
  /\ UNCHANGED <<btn_state, seen, during, exited>>

-----------------------------------------------------------------------------
(* Unknown registers.                                                       *)

\* The first read of one gives 0, and any further read what fudge holds.
Unk(a) == IF a = old_a THEN Low(fudge) ELSE {}
Flipped == Not(fudge)
ReadUnk(a) ==
  /\ fudge' = IF a = old_a THEN Flipped ELSE fudge
  /\ old_a' = a

BeginWait(a, b, v) ==
  /\ waits = NoWait
  /\ waits' = [reg |-> a, bit |-> b, set |-> v] /\ tries' = 0
  /\ UNCHANGED <<fudge, old_a>>

\* One turn of a loop that waits for a bit.
Poll ==
  /\ waits # NoWait /\ tries < MaxTries
  /\ ReadUnk(waits.reg)
  /\ IF (waits.bit \in Unk(waits.reg)) = waits.set
     THEN waits' = NoWait /\ tries' = 0
     ELSE tries' = tries + 1 /\ UNCHANGED waits

\* A read for anything else.
ReadAnother(a) ==
  /\ ReadUnk(a) /\ tries' = 0
  /\ UNCHANGED waits
-----------------------------------------------------------------------------
(* Timers.                                                                  *)

\* The part of a second in ticks, and the seconds; the sum is cut to a word.
Micros(ns) == (ns * Factors["TIMER3"]) \div Wrap
Timer3(t) == ((t \div Ns) * Rates["TIMER3"] + Micros(t % Ns)) % Wrap

\* The product is cut to two words, of which the upper one is taken.
Tcount(t) == ((t * Factors["TCOUNT"]) % (Wrap * Wrap)) \div Wrap

Ticks(k, t) == IF k = "TIMER3" THEN Timer3(t) ELSE Tcount(t)

TimePasses(t) ==
  /\ t > now /\ now' = t
  /\ UNCHANGED <<older, newer>>

ReadTimer(k) ==
  /\ older' = newer /\ newer' = [timer |-> k, at |-> now, value |-> Ticks(k, now)]
  /\ UNCHANGED now
-----------------------------------------------------------------------------
PollButtons ==
  /\ ~exited
  /\ \/ \E m \in Machines : \E reg \in Registers[m] : BeginPoll(m, reg) \/ ReadMore(m, reg)
     \/ CheckKeys
     \/ \E keys \in Holdings, h \in BOOLEAN : UserHolds(keys, h)

PollUnknown ==
  \/ \E a \in Unknown, b \in Awaited, v \in BOOLEAN : BeginWait(a, b, v)
  \/ Poll
  \/ \E a \in Unknown : ReadAnother(a)

PollTimers == (\E t \in Moments : TimePasses(t)) \/ (\E k \in Timers : ReadTimer(k))

Next ==
  /\ UNCHANGED polls
  /\ \/ polls = "buttons" /\ PollButtons /\ UNCHANGED <<unknown, clock>>
     \/ polls = "unknown" /\ PollUnknown /\ UNCHANGED <<buttons, clock>>
     \/ polls = "timers" /\ PollTimers /\ UNCHANGED <<buttons, unknown>>

Spec == Init /\ [][Next]_vars
-----------------------------------------------------------------------------
\* The program's reading of a register: which buttons are pressed in it.  The
\* layouts are "0000 P000 VuVd00 0000", "YXBA RLSeSt", "0Ri0D 0Le0U", and for
\* the Wiz "YXBA DURiLe" and "VdVuMS LR??".
Place ==
  [GPIOM |-> [b \in {GP2X_UP, GP2X_LEFT, GP2X_DOWN, GP2X_RIGHT} |-> b],
   GPIOC |-> [b \in GP2X_START..GP2X_Y |-> b],
   GPIOD |-> [b \in {GP2X_VOL_UP, GP2X_VOL_DOWN, GP2X_PUSH} |->
                CASE b = GP2X_PUSH -> 11 [] b = GP2X_VOL_UP -> 7 [] OTHER -> 6],
   GPIOCPAD |-> [b \in {GP2X_UP, GP2X_LEFT, GP2X_DOWN, GP2X_RIGHT} \cup GP2X_A..GP2X_Y |->
                   CASE b >= GP2X_A -> b - GP2X_A + 4 [] b = GP2X_DOWN -> 3
                     [] b = GP2X_UP -> 2 [] b = GP2X_RIGHT -> 1 [] OTHER -> 0],
   GPIOBPAD |-> [b \in GP2X_START..GP2X_R \cup {GP2X_VOL_UP, GP2X_VOL_DOWN} |->
                   CASE b = GP2X_VOL_DOWN -> 11 [] b = GP2X_VOL_UP -> 10
                     [] b = GP2X_START -> 9 [] b = GP2X_SELECT -> 8
                     [] b = GP2X_L -> 7 [] OTHER -> 6]]

Pressed(reg) ==
  IF reg = "GPIO" THEN seen[reg]
  ELSE {b \in DOMAIN Place[reg] : Place[reg][b] \notin seen[reg]}
Shown(reg) == IF reg = "GPIO" THEN Buttons ELSE DOMAIN Place[reg]

Complete == \E m \in Machines : DOMAIN seen = Registers[m]
Polled == UNION {Pressed(r) : r \in DOMAIN seen}
Visible == UNION {Shown(r) : r \in DOMAIN seen}

ButtonsType ==
  /\ held \in Holdings \cup {{}} /\ home \in BOOLEAN
  /\ btn_state \subseteq Buttons /\ during \subseteq SUBSET Buttons
  /\ \E m \in Machines : DOMAIN seen \subseteq Registers[m]
  /\ \A r \in DOMAIN seen \ {"GPIO"} : seen[r] \subseteq 0..15
  /\ steady \in BOOLEAN /\ exited \in BOOLEAN

UnknownType ==
  /\ fudge \subseteq Bits /\ old_a \in Unknown \cup {0} /\ tries \in Nat
  /\ waits \in [reg : Unknown, bit : Awaited, set : BOOLEAN] \cup {NoWait}

ClockType ==
  /\ now \in Nat
  /\ \A r \in {older, newer} :
       \/ r = NoReading
       \/ /\ r \in [timer : Timers, at : 0..now, value : 0..(Wrap - 1)]
          /\ r.value = Ticks(r.timer, r.at)
  /\ older # NoReading => older.at <= newer.at

\* Types, and that what is remembered of a timer is what it gave then.
TypeOK ==
  /\ polls \in {"buttons", "timers", "unknown"}
  /\ ButtonsType /\ UnknownType /\ ClockType

\* What a poll says of a button was so at some moment of the poll: the words
\* fit together, and what fb_sync_thread does in the middle may mix two
\* moments but makes nothing up.
EachButtonTrue ==
  Complete => \A b \in Visible : \E s \in during : b \in Polled <=> b \in s

\* What the user has held from the beginning to the end of a poll is what the
\* program sees, whatever the thread does.
HeldIsSeen == Complete /\ steady => Polled = HostReadBtns \cap Visible

\* A program that waits for a bit of an unknown register, to be 0 or to be 1,
\* finds it so at the third read at the latest, whatever was read before
\* (emu.c:558-563).  It must read no other unknown register meanwhile, and this
\* one once a turn: two reads a turn leave fudge as it was.
WaitEnds == waits # NoWait => tries <= 2

\* Two readings of a timer, up to Wrap units of the clock apart (4 s), measure
\* the time between them to within two ticks.  The factors are rounded up, so
\* that the end of a second gives what the next one begins with; the words
\* overflow all the time and the readings wrap around (emu.c:440-444, 582-588).
TimersTrue ==
  older.timer = newer.timer /\ newer.timer \in Timers /\ newer.at - older.at <= Wrap
    => LET ticks == (newer.value - older.value) % Wrap
           exact == (newer.at - older.at) * Rates[newer.timer]
       IN (ticks - 2) * Ns < exact /\ exact < (ticks + 2) * Ns
=============================================================================
