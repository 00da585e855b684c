---------------------------- MODULE Reads_proofs ----------------------------
(***************************************************************************)
(* What polls show, for all buttons the user may hold and any number of    *)
(* answers of the host within a poll, for all sets of unknown registers,   *)
(* and for all clocks and factors as ClockAssumption has them.             *)
(*                                                                         *)
(* First the registers: that each button is 0 in its place and only there  *)
(* (lemma Decoded), by what the shifts do to a bit.  Then the poll: each   *)
(* word that has been read is that of some value btn_state has had since   *)
(* the poll began.  An unknown register that has been read in vain twice   *)
(* gives the other value next.                                             *)
(*                                                                         *)
(* A timer, but for the wrap, is near the exact number of ticks (lemma     *)
(* RawNear) and never goes back, at the ends of seconds neither (lemma     *)
(* RawGrows); so the difference of two readings is right (ReadingsTrue).   *)
(***************************************************************************)
EXTENDS Reads, TLAPS

WordsTrue == \A r \in DOMAIN seen : \E s \in during : seen[r] = Value(r, s)

Kept ==
  /\ DOMAIN seen # {} => btn_state \in during
  /\ steady => DOMAIN seen # {} /\ during = {HostReadBtns}

\* A register that has been polled in vain is the last one read, and the second
\* time it was fudge that did not have the bit, which has been flipped since.
Progress ==
  waits # NoWait =>
    /\ tries \in 0..2
    /\ tries > 0 => old_a = waits.reg
    /\ tries = 2 => (waits.bit \in fudge) = waits.set

ButtonsInv == ButtonsType /\ WordsTrue /\ Kept
UnknownInv == UnknownType /\ Progress

IInv == TypeOK /\ ButtonsInv /\ UnknownInv

Dpad == {0, 2, 4, 6}
AllRegisters == {"GPIOM", "GPIOC", "GPIOD", "GPIOCPAD", "GPIOBPAD", "GPIO"}

\* The buttons a program finds in a word of a register.
Found(r, w) == IF r = "GPIO" THEN w ELSE {b \in DOMAIN Place[r] : Place[r][b] \notin w}
-----------------------------------------------------------------------------
(* Words.                                                                   *)

\* Where a bit comes from that is there after a shift.
LEMMA Shifts ==
  ASSUME NEW w \in SUBSET Int, NEW n \in Nat, NEW b \in Int
  PROVE  /\ b \in Shr(w, n) <=> b \in Bits /\ b + n \in w
         /\ b \in Shl(w, n) <=> b \in Bits /\ b - n \in w
<1>1. b \in Shr(w, n) <=> b \in Bits /\ b + n \in w
  <2>1. ASSUME b + n \in w PROVE b \in {c - n : c \in w}
    <3>1. (b + n) - n = b
      OBVIOUS
    <3> QED
      BY <2>1, <3>1
  <2>2. ASSUME NEW c \in w, b = c - n PROVE b + n \in w
    BY <2>2
  <2> QED
    BY <2>1, <2>2 DEF Shr
<1>2. b \in Shl(w, n) <=> b \in Bits /\ b - n \in w
  <2>1. ASSUME b - n \in w PROVE b \in {c + n : c \in w}
    <3>1. (b - n) + n = b
      OBVIOUS
    <3> QED
      BY <2>1, <3>1
  <2>2. ASSUME NEW c \in w, b = c + n PROVE b - n \in w
    BY <2>2
  <2> QED
    BY <2>1, <2>2 DEF Shl
<1> QED
  BY <1>1, <1>2

\* What the Wiz registers keep in their upper half, inverted.
LEMMA UpperHalf ==
  ASSUME NEW w \in SUBSET Int, NEW b \in 0..15
  PROVE  b \in Half(Not(Shl(w, 16))) <=> b \notin w
<1> DEFINE u == Not(Shl(w, 16))
<1>1. u \in SUBSET Int
  BY DEF Not, Bits
<1>2. b \in Half(u) <=> b + 16 \in u
  BY <1>1, Shifts DEF Half, Low, Bits
<1>3. b + 16 \in Shl(w, 16) <=> b \in w
  <2>1. (b + 16) - 16 = b /\ b + 16 \in Bits
    BY DEF Bits
  <2> QED
    BY <2>1, Shifts
<1>4. b + 16 \in u <=> b \notin w
  BY <1>3 DEF Not, Bits
<1> QED
  BY <1>2, <1>4
-----------------------------------------------------------------------------
(* Registers.                                                               *)

\* The buttons of each register and their places.
LEMMA Places ==
  /\ DOMAIN Place["GPIOM"] = Dpad /\ \A b \in Dpad : Place["GPIOM"][b] = b
  /\ DOMAIN Place["GPIOC"] = 8..15 /\ \A b \in 8..15 : Place["GPIOC"][b] = b
  /\ DOMAIN Place["GPIOD"] = {16, 17, 18}
  /\ Place["GPIOD"][16] = 7 /\ Place["GPIOD"][17] = 6 /\ Place["GPIOD"][18] = 11
  /\ DOMAIN Place["GPIOCPAD"] = Dpad \cup 12..15
  /\ \A b \in 12..15 : Place["GPIOCPAD"][b] = b - 8
  /\ Place["GPIOCPAD"][0] = 2 /\ Place["GPIOCPAD"][2] = 0
  /\ Place["GPIOCPAD"][4] = 3 /\ Place["GPIOCPAD"][6] = 1
  /\ DOMAIN Place["GPIOBPAD"] = 8..11 \cup {16, 17}
  /\ Place["GPIOBPAD"][8] = 9 /\ Place["GPIOBPAD"][9] = 8
  /\ Place["GPIOBPAD"][10] = 7 /\ Place["GPIOBPAD"][11] = 6
  /\ Place["GPIOBPAD"][16] = 10 /\ Place["GPIOBPAD"][17] = 11
<1> USE DEF GP2X_UP, GP2X_LEFT, GP2X_DOWN, GP2X_RIGHT, GP2X_START, GP2X_SELECT, GP2X_L,
            GP2X_R, GP2X_A, GP2X_Y, GP2X_VOL_UP, GP2X_VOL_DOWN, GP2X_PUSH, Dpad
<1>1. DOMAIN Place["GPIOM"] = Dpad /\ \A b \in Dpad : Place["GPIOM"][b] = b
  BY DEF Place
<1>2. DOMAIN Place["GPIOC"] = 8..15 /\ \A b \in 8..15 : Place["GPIOC"][b] = b
  BY DEF Place
<1>3. /\ DOMAIN Place["GPIOD"] = {16, 17, 18}
      /\ Place["GPIOD"][16] = 7 /\ Place["GPIOD"][17] = 6 /\ Place["GPIOD"][18] = 11
  BY DEF Place
<1>4. DOMAIN Place["GPIOCPAD"] = Dpad \cup 12..15
  BY DEF Place
<1>5. \A b \in 12..15 : Place["GPIOCPAD"][b] = b - 8
  BY DEF Place
<1>6. /\ Place["GPIOCPAD"][0] = 2 /\ Place["GPIOCPAD"][2] = 0
      /\ Place["GPIOCPAD"][4] = 3 /\ Place["GPIOCPAD"][6] = 1
  BY DEF Place
<1>7. DOMAIN Place["GPIOBPAD"] = 8..11 \cup {16, 17}
  BY DEF Place
<1>8. /\ Place["GPIOBPAD"][8] = 9 /\ Place["GPIOBPAD"][9] = 8
      /\ Place["GPIOBPAD"][10] = 7 /\ Place["GPIOBPAD"][11] = 6
      /\ Place["GPIOBPAD"][16] = 10 /\ Place["GPIOBPAD"][17] = 11
  BY DEF Place
<1> QED
  BY <1>1, <1>2, <1>3, <1>4, <1>5, <1>6, <1>7, <1>8

\* The directions in GPIOM are where they are in btn_state.
LEMMA GpiomDecoded ==
  ASSUME NEW s \in SUBSET Buttons, NEW b \in Dpad
  PROVE  b \in Low(GPIOM(s)) <=> b \notin s
  BY DEF Low, GPIOM, Not, Bits, Mask, Dpad

\* And so are the buttons of GPIOC.
LEMMA GpiocDecoded ==
  ASSUME NEW s \in SUBSET Buttons, NEW b \in 8..15
  PROVE  b \in Low(GPIOC(s)) <=> b \notin s
  BY DEF Low, GPIOC, Not, Bits, Mask

\* The volume keys and the stick's button are moved.
LEMMA GpiodDecoded ==
  ASSUME NEW s \in SUBSET Buttons
  PROVE  /\ 7 \in Low(GPIOD(s)) <=> 16 \notin s
         /\ 6 \in Low(GPIOD(s)) <=> 17 \notin s
         /\ 11 \in Low(GPIOD(s)) <=> 18 \notin s
<1>1. Not(s) \in SUBSET Int
  BY DEF Not, Bits
<1>2. 7 \in Shr(Not(s), 9) <=> 16 \notin s
  BY <1>1, Shifts DEF Not, Bits
<1>3. 6 \in Shr(Not(s), 11) <=> 17 \notin s
  BY <1>1, Shifts DEF Not, Bits
<1>4. 11 \in Shr(Not(s), 7) <=> 18 \notin s
  BY <1>1, Shifts DEF Not, Bits
<1> QED
  BY <1>2, <1>3, <1>4 DEF Low, GPIOD

\* The words of btn_state that are gathered for the Wiz registers.
GatheredC(s) ==
  (Shr(s, 8) \cap Mask(4, 7)) \cup (Shr(s, 1) \cap {3}) \cup (Shl(s, 2) \cap {2})
    \cup (Shr(s, 5) \cap {1}) \cup (Shr(s, 2) \cap {0})
GatheredB(s) ==
  (Shr(s, 1) \cap {8}) \cup (Shl(s, 1) \cap {9}) \cup (Shr(s, 3) \cap {7})
    \cup (Shr(s, 5) \cap {6}) \cup (Shr(s, 6) \cap {10, 11})

\* Each button of GPIOCPAD is in its place.
LEMMA GpiocpadDecoded ==
  ASSUME NEW s \in SUBSET Buttons
  PROVE  /\ \A b \in 12..15 : b - 8 \in Half(GPIOCPAD(s)) <=> b \notin s
         /\ 2 \in Half(GPIOCPAD(s)) <=> 0 \notin s
         /\ 0 \in Half(GPIOCPAD(s)) <=> 2 \notin s
         /\ 3 \in Half(GPIOCPAD(s)) <=> 4 \notin s
         /\ 1 \in Half(GPIOCPAD(s)) <=> 6 \notin s
<1>1. s \in SUBSET Int /\ GatheredC(s) \in SUBSET Int
  BY DEF Buttons, GatheredC, Mask, Bits, Shr, Shl
<1>2. \A b \in 0..15 : b \in Half(GPIOCPAD(s)) <=> b \notin GatheredC(s)
  BY <1>1, UpperHalf DEF GPIOCPAD, GatheredC
<1>3. \A b \in 12..15 : b - 8 \in GatheredC(s) <=> b \in s
  <2> TAKE b \in 12..15
  <2>1. b - 8 \in Shr(s, 8) <=> b \in s
    <3>1. (b - 8) + 8 = b /\ b - 8 \in Bits /\ b - 8 \in Int
      BY DEF Bits
    <3> QED
      BY <1>1, <3>1, Shifts
  <2> QED
    BY <2>1 DEF GatheredC, Mask
<1>4. 2 \in GatheredC(s) <=> 0 \in s
  <2>1. 2 \in Shl(s, 2) <=> 0 \in s
    BY <1>1, Shifts DEF Bits
  <2> QED
    BY <2>1 DEF GatheredC, Mask
<1>5. 0 \in GatheredC(s) <=> 2 \in s
  <2>1. 0 \in Shr(s, 2) <=> 2 \in s
    BY <1>1, Shifts DEF Bits
  <2> QED
    BY <2>1 DEF GatheredC, Mask
<1>6. 3 \in GatheredC(s) <=> 4 \in s
  <2>1. 3 \in Shr(s, 1) <=> 4 \in s
    BY <1>1, Shifts DEF Bits
  <2> QED
    BY <2>1 DEF GatheredC, Mask
<1>7. 1 \in GatheredC(s) <=> 6 \in s
  <2>1. 1 \in Shr(s, 5) <=> 6 \in s
    BY <1>1, Shifts DEF Bits
  <2> QED
    BY <2>1 DEF GatheredC, Mask
<1>8. \A b \in 12..15 : b - 8 \in 0..15
  OBVIOUS
<1> QED
  BY <1>2, <1>3, <1>4, <1>5, <1>6, <1>7, <1>8

\* Each button of GPIOBPAD is in its place.
LEMMA GpiobpadDecoded ==
  ASSUME NEW s \in SUBSET Buttons
  PROVE  /\ 9 \in Half(GPIOBPAD(s)) <=> 8 \notin s
         /\ 8 \in Half(GPIOBPAD(s)) <=> 9 \notin s
         /\ 7 \in Half(GPIOBPAD(s)) <=> 10 \notin s
         /\ 6 \in Half(GPIOBPAD(s)) <=> 11 \notin s
         /\ 10 \in Half(GPIOBPAD(s)) <=> 16 \notin s
         /\ 11 \in Half(GPIOBPAD(s)) <=> 17 \notin s
<1>1. s \in SUBSET Int /\ GatheredB(s) \in SUBSET Int
  BY DEF Buttons, GatheredB, Bits, Shr, Shl
<1>2. \A b \in 0..15 : b \in Half(GPIOBPAD(s)) <=> b \notin GatheredB(s)
  BY <1>1, UpperHalf DEF GPIOBPAD, GatheredB
<1>3. 9 \in Shl(s, 1) <=> 8 \in s
  BY <1>1, Shifts DEF Bits
<1>4. 8 \in Shr(s, 1) <=> 9 \in s
  BY <1>1, Shifts DEF Bits
<1>5. 7 \in Shr(s, 3) <=> 10 \in s
  BY <1>1, Shifts DEF Bits
<1>6. 6 \in Shr(s, 5) <=> 11 \in s
  BY <1>1, Shifts DEF Bits
<1>7. 10 \in Shr(s, 6) <=> 16 \in s
  BY <1>1, Shifts DEF Bits
<1>8. 11 \in Shr(s, 6) <=> 17 \in s
  BY <1>1, Shifts DEF Bits
<1>9. /\ 9 \in GatheredB(s) <=> 8 \in s
      /\ 8 \in GatheredB(s) <=> 9 \in s
      /\ 7 \in GatheredB(s) <=> 10 \in s
      /\ 6 \in GatheredB(s) <=> 11 \in s
      /\ 10 \in GatheredB(s) <=> 16 \in s
      /\ 11 \in GatheredB(s) <=> 17 \in s
  BY <1>3, <1>4, <1>5, <1>6, <1>7, <1>8 DEF GatheredB
<1> QED
  BY <1>2, <1>9

\* What a program finds in the word of a register is what was held of the
\* buttons the register shows.
LEMMA Decoded ==
  ASSUME NEW s \in SUBSET Buttons, NEW r \in AllRegisters
  PROVE  Found(r, Value(r, s)) = s \cap Shown(r)
<1> USE DEF Found, Value, Shown
<1>1. CASE r = "GPIOM"
  <2>1. \A b \in Dpad : b \in Low(GPIOM(s)) <=> b \notin s
    BY GpiomDecoded
  <2> QED
    BY <1>1, <2>1, Places
<1>2. CASE r = "GPIOC"
  <2>1. \A b \in 8..15 : b \in Low(GPIOC(s)) <=> b \notin s
    BY GpiocDecoded
  <2> QED
    BY <1>2, <2>1, Places
<1>3. CASE r = "GPIOD"
  <2>1. \A b \in {16, 17, 18} : Place["GPIOD"][b] \in Low(GPIOD(s)) <=> b \notin s
    BY GpiodDecoded, Places
  <2> QED
    BY <1>3, <2>1, Places
<1>4. CASE r = "GPIOCPAD"
  <2>1. \A b \in Dpad \cup 12..15 :
          Place["GPIOCPAD"][b] \in Half(GPIOCPAD(s)) <=> b \notin s
    <3>1. \A b \in Dpad : Place["GPIOCPAD"][b] \in Half(GPIOCPAD(s)) <=> b \notin s
      BY GpiocpadDecoded, Places DEF Dpad
    <3>2. \A b \in 12..15 : Place["GPIOCPAD"][b] \in Half(GPIOCPAD(s)) <=> b \notin s
      BY GpiocpadDecoded, Places
    <3> QED
      BY <3>1, <3>2
  <2> QED
    BY <1>4, <2>1, Places
<1>5. CASE r = "GPIOBPAD"
  <2>1. \A b \in {8, 9, 10, 11, 16, 17} :
          Place["GPIOBPAD"][b] \in Half(GPIOBPAD(s)) <=> b \notin s
    BY GpiobpadDecoded, Places
  <2>2. DOMAIN Place["GPIOBPAD"] = {8, 9, 10, 11, 16, 17}
    BY Places
  <2> QED
    BY <1>5, <2>1, <2>2
<1>6. CASE r = "GPIO"
  BY <1>6
<1> QED
  BY <1>1, <1>2, <1>3, <1>4, <1>5, <1>6 DEF AllRegisters

\* The registers of a machine show different buttons.
LEMMA Apart ==
  ASSUME NEW m \in Machines, NEW q \in Registers[m], NEW r \in Registers[m],
         NEW b \in Shown(q) \cap Shown(r)
  PROVE  q = r
<1>1. /\ DOMAIN Place["GPIOM"] = {0, 2, 4, 6} /\ DOMAIN Place["GPIOC"] = 8..15
      /\ DOMAIN Place["GPIOD"] = {16, 17, 18}
      /\ DOMAIN Place["GPIOCPAD"] = {0, 2, 4, 6} \cup 12..15
      /\ DOMAIN Place["GPIOBPAD"] = 8..11 \cup {16, 17}
  BY Places DEF Dpad
<1>2. \/ q \in {"GPIOM", "GPIOC", "GPIOD"} /\ r \in {"GPIOM", "GPIOC", "GPIOD"}
      \/ q \in {"GPIOCPAD", "GPIOBPAD"} /\ r \in {"GPIOCPAD", "GPIOBPAD"}
      \/ q = "GPIO" /\ r = "GPIO"
  BY DEF Registers, Machines
<1>3. CASE q \in {"GPIOM", "GPIOC", "GPIOD"} /\ r \in {"GPIOM", "GPIOC", "GPIOD"}
  BY <1>1, <1>3 DEF Shown
<1>4. CASE q \in {"GPIOCPAD", "GPIOBPAD"} /\ r \in {"GPIOCPAD", "GPIOBPAD"}
  BY <1>1, <1>4 DEF Shown
<1> QED
  BY <1>2, <1>3, <1>4

\* Every register of a machine is one of the six.
LEMMA Known == \A m \in Machines : Registers[m] \subseteq AllRegisters
  BY DEF Registers, Machines, AllRegisters

\* A word read from a 16-bit register has 16 bits.
LEMMA WordType ==
  ASSUME NEW s, NEW r \in AllRegisters \ {"GPIO"}
  PROVE  Value(r, s) \subseteq 0..15
  BY DEF Value, AllRegisters, Half, Low
-----------------------------------------------------------------------------
(* A poll.                                                                  *)

\* What the host answers are buttons.
LEMMA HostAnswers ==
  ASSUME held \in SUBSET Buttons
  PROVE  HostReadBtns \in SUBSET Buttons
<1>1. GP2X_VOL_UP \in Buttons /\ GP2X_VOL_DOWN \in Buttons
  BY DEF Buttons, GP2X_VOL_UP, GP2X_VOL_DOWN
<1>2. HostActions(held) \in SUBSET Buttons
  BY <1>1 DEF HostActions
<1> QED
  BY <1>2 DEF HostReadBtns

\* A step of polling buttons preserves what is known of them.
LEMMA ButtonsStep == ButtonsInv /\ [PollButtons]_buttons => ButtonsInv'
<1> SUFFICES ASSUME ButtonsInv, [PollButtons]_buttons PROVE ButtonsInv'
  OBVIOUS
<1> USE DEF ButtonsInv, user
<1>0. held \in SUBSET Buttons /\ HostReadBtns \in SUBSET Buttons
  BY HostAnswers, ConstAssumption DEF ButtonsType
<1>1. ASSUME NEW m \in Machines, NEW reg \in Registers[m], BeginPoll(m, reg) PROVE ButtonsInv'
  <2>1. DOMAIN seen' = {reg} /\ seen'[reg] = Value(reg, btn_state')
    BY <1>1 DEF BeginPoll
  <2>2. btn_state' = HostReadBtns /\ HostReadBtns' = HostReadBtns
    BY <1>1 DEF BeginPoll, Fresh, HostReadBtns, HostActions, Fn
  <2>3. reg # "GPIO" => seen'[reg] \subseteq 0..15
    BY <2>1, WordType, Known
  <2>4. ButtonsType'
    BY <1>0, <1>1, <2>1, <2>2, <2>3 DEF BeginPoll, ButtonsType, Kill, Fn
  <2>5. WordsTrue'
    BY <1>1, <2>1 DEF BeginPoll, WordsTrue
  <2>6. Kept'
    BY <1>1, <2>1, <2>2 DEF BeginPoll, Kept
  <2> QED
    BY <2>4, <2>5, <2>6
<1>2. ASSUME NEW m \in Machines, NEW reg \in Registers[m], ReadMore(m, reg) PROVE ButtonsInv'
  <2>1. /\ DOMAIN seen' = DOMAIN seen \cup {reg} /\ seen'[reg] = Value(reg, btn_state)
        /\ \A r \in DOMAIN seen : seen'[r] = seen[r]
    BY <1>2 DEF ReadMore
  <2>2. HostReadBtns' = HostReadBtns
    BY <1>2 DEF ReadMore, HostReadBtns, HostActions, Fn
  <2>3. reg # "GPIO" => seen'[reg] \subseteq 0..15
    BY <2>1, WordType, Known
  <2>4. ButtonsType'
    <3>1. \E n \in Machines : DOMAIN seen' \subseteq Registers[n]
      BY <1>2, <2>1 DEF ReadMore
    <3>2. \A r \in DOMAIN seen' \ {"GPIO"} : seen'[r] \subseteq 0..15
      BY <2>1, <2>3 DEF ButtonsType
    <3> QED
      BY <1>2, <3>1, <3>2 DEF ReadMore, ButtonsType
  <2>5. DOMAIN seen # {}
    BY <1>2 DEF ReadMore
  <2>6. WordsTrue'
    BY <1>2, <2>1, <2>5 DEF ReadMore, WordsTrue, Kept
  <2>7. Kept'
    BY <1>2, <2>1, <2>2, <2>5 DEF ReadMore, Kept
  <2> QED
    BY <2>4, <2>6, <2>7
<1>3. ASSUME CheckKeys PROVE ButtonsInv'
  <2>1. HostReadBtns' = HostReadBtns
    BY <1>3 DEF CheckKeys, HostReadBtns, HostActions, Fn
  <2>2. ButtonsType'
    BY <1>0, <1>3 DEF CheckKeys, ButtonsType, Kill, Fn
  <2>3. CASE DOMAIN seen = {}
    BY <1>3, <2>1, <2>2, <2>3 DEF CheckKeys, WordsTrue, Kept
  <2>4. CASE DOMAIN seen # {}
    <3>1. during' = during \cup {HostReadBtns}
      <4>1. seen # <<>>
        BY <2>4
      <4> QED
        BY <1>3, <4>1 DEF CheckKeys
    <3> QED
      BY <1>3, <2>1, <2>2, <3>1 DEF CheckKeys, WordsTrue, Kept
  <2> QED
    BY <2>3, <2>4
<1>4. ASSUME NEW keys \in Holdings, NEW h \in BOOLEAN, UserHolds(keys, h) PROVE ButtonsInv'
  BY <1>4 DEF UserHolds, ButtonsType, WordsTrue, Kept
<1>5. ASSUME UNCHANGED buttons PROVE ButtonsInv'
  BY <1>5 DEF buttons, ButtonsType, WordsTrue, Kept, HostReadBtns, HostActions, Fn
<1> QED
  BY <1>1, <1>2, <1>3, <1>4, <1>5 DEF PollButtons
-----------------------------------------------------------------------------
(* Unknown registers.                                                       *)

\* A word and what ~ makes of it differ in each of the lower bits.
LEMMA FlippedBit ==
  ASSUME NEW w \in SUBSET Bits, NEW b \in 0..15
  PROVE  Not(w) \in SUBSET Bits /\ (b \in Not(w) <=> b \notin w) /\ (b \in Low(w) <=> b \in w)
  BY DEF Not, Low, Bits

\* A step of polling unknown registers preserves what is known of them.
LEMMA UnknownStep == UnknownInv /\ [PollUnknown]_unknown => UnknownInv'
<1> SUFFICES ASSUME UnknownInv, [PollUnknown]_unknown PROVE UnknownInv'
  OBVIOUS
<1> USE DEF UnknownInv
<1>0. \A a \in Unknown : ReadUnk(a) => fudge' \subseteq Bits /\ old_a' \in Unknown \cup {0}
  BY DEF ReadUnk, Flipped, Not, UnknownType
<1>1. ASSUME NEW a \in Unknown, NEW b \in Awaited, NEW v \in BOOLEAN, BeginWait(a, b, v)
      PROVE  UnknownInv'
  BY <1>1 DEF BeginWait, UnknownType, Progress
<1>2. ASSUME Poll PROVE UnknownInv'
  <2>1. /\ waits \in [reg : Unknown, bit : Awaited, set : BOOLEAN] /\ waits.reg \in Unknown
        /\ waits.bit \in 0..15 /\ waits.set \in BOOLEAN
    BY <1>2, ConstAssumption DEF Poll, UnknownType
  <2>2. CASE (waits.bit \in Unk(waits.reg)) = waits.set
    <3>1. waits' = NoWait /\ tries' = 0
      BY <1>2, <2>2 DEF Poll
    <3> QED
      BY <1>0, <1>2, <2>1, <3>1 DEF Poll, UnknownType, Progress
  <2>3. CASE (waits.bit \in Unk(waits.reg)) # waits.set
    <3>1. tries' = tries + 1 /\ waits' = waits /\ old_a' = waits.reg
      BY <1>2, <2>3 DEF Poll, ReadUnk
    <3>2. tries > 0 =>
            /\ Unk(waits.reg) = Low(fudge) /\ fudge' = Not(fudge)
            /\ (waits.bit \in fudge) # waits.set
      <4>1. ASSUME tries > 0 PROVE Unk(waits.reg) = Low(fudge) /\ fudge' = Not(fudge)
        BY <1>2, <4>1 DEF Poll, Progress, Unk, ReadUnk, Flipped
      <4>2. waits.bit \in Low(fudge) <=> waits.bit \in fudge
        BY <2>1, FlippedBit DEF UnknownType
      <4> QED
        BY <2>3, <4>1, <4>2
    <3>3. tries \in 0..2
      BY <1>2 DEF Poll, Progress
    <3>4. tries # 2
      BY <3>2, <1>2 DEF Poll, Progress
    <3>5. tries = 1 => (waits.bit \in fudge') = waits.set
      BY <2>1, <3>2, FlippedBit DEF UnknownType
    <3>6. UnknownType'
      BY <1>0, <1>2, <2>1, <3>1, <3>3 DEF Poll, UnknownType
    <3>7. Progress'
      BY <3>1, <3>3, <3>4, <3>5 DEF Progress
    <3> QED
      BY <3>6, <3>7
  <2> QED
    BY <2>2, <2>3
<1>3. ASSUME NEW a \in Unknown, ReadAnother(a) PROVE UnknownInv'
  BY <1>0, <1>3 DEF ReadAnother, UnknownType, Progress
<1>4. ASSUME UNCHANGED unknown PROVE UnknownInv'
  BY <1>4 DEF unknown, UnknownType, Progress
<1> QED
  BY <1>1, <1>2, <1>3, <1>4 DEF PollUnknown
-----------------------------------------------------------------------------
(* Timers.                                                                  *)

\* Multiplication by a positive number.
LEMMA Mult ==
  ASSUME NEW b \in Nat \ {0}, NEW x \in Int, NEW y \in Int
  PROVE  /\ b * x \in Int /\ b * (x - y) = b * x - b * y /\ b * (x + y) = b * x + b * y
         /\ x < y => b * x + b <= b * y
         /\ x <= y => b * x <= b * y
  OBVIOUS

\* The smaller product has the smaller factor.
LEMMA Factor ==
  ASSUME NEW b \in Nat \ {0}, NEW x \in Int, NEW y \in Int, b * x < b * y
  PROVE  x < y
  BY Mult

\* Quotient and remainder are the only ones.
LEMMA Unique ==
  ASSUME NEW b \in Nat \ {0}, NEW q \in Int, NEW r \in 0..(b - 1)
  PROVE  (b * q + r) \div b = q /\ (b * q + r) % b = r
<1>1. (b * q + r) \div b = q
  OBVIOUS
<1>2. (b * q + r) % b = r
  OBVIOUS
<1> QED BY <1>1, <1>2

\* Quotient and remainder of natural numbers.
LEMMA Division ==
  ASSUME NEW x \in Nat, NEW b \in Nat \ {0}
  PROVE  \E q \in Nat, r \in 0..(b - 1) : q = x \div b /\ r = x % b /\ x = b * q + r
<1>1. PICK q \in Int : q = x \div b /\ b * q <= x /\ x < b * q + b
  OBVIOUS
<1>2. b * q \in Int /\ x - b * q \in 0..(b - 1) /\ x = b * q + (x - b * q)
  BY <1>1, Mult
<1>3. x % b = x - b * q
  BY <1>1, <1>2, Unique
<1>4. q \in Nat
  <2> SUFFICES ASSUME q < 0 PROVE FALSE
    BY <1>1
  <2>1. b * q + b <= b * 0 /\ b * 0 = 0
    BY <1>1, Mult
  <2> QED
    BY <1>1, <2>1
<1> QED
  BY <1>1, <1>2, <1>3, <1>4

\* Readings that wrap around have the difference of those that do not, if it
\* fits in a word.
LEMMA Difference ==
  ASSUME NEW w \in Nat \ {0}, NEW u \in Nat, NEW v \in Nat, v - u \in 0..(w - 1)
  PROVE  ((v % w) - (u % w)) % w = v - u
<1> DEFINE r == u % w  s == v % w
<1>1. PICK p \in Nat : r \in 0..(w - 1) /\ u = w * p + r
  BY Division
<1>2. PICK q \in Nat : s \in 0..(w - 1) /\ v = w * q + s
  BY Division
<1> HIDE DEF r, s
<1>3. s - r = w * (p - q) + (v - u)
  <2>1. w * (p - q) = w * p - w * q /\ w * p \in Int /\ w * q \in Int
    BY Mult
  <2> QED
    BY <1>1, <1>2, <2>1
<1>4. (w * (p - q) + (v - u)) % w = v - u
  <2>1. p - q \in Int
    OBVIOUS
  <2> QED
    BY <2>1, Unique
<1>5. (s - r) % w = v - u
  BY <1>3, <1>4
<1> QED
  BY <1>5 DEF r, s

\* The upper one of the two words a product is cut to.
LEMMA UpperWord ==
  ASSUME NEW w \in Nat \ {0}, NEW x \in Nat
  PROVE  (x % (w * w)) \div w = (x \div w) % w
<1>1. PICK q \in Nat, r \in 0..(w - 1) : q = x \div w /\ x = w * q + r
  BY Division
<1>2. PICK p \in Nat, s \in 0..(w - 1) : s = q % w /\ q = w * p + s
  BY Division
<1>3. PICK ww \in Nat \ {0} : ww = w * w /\ w * s + w <= ww
  <2>1. w * w \in Nat \ {0}
    OBVIOUS
  <2> QED
    BY <2>1, Mult
<1>4. w * s + r \in 0..(ww - 1)
  <2>1. w * s >= w * 0 /\ w * 0 = 0 /\ w * s \in Int
    BY Mult
  <2> QED
    BY <1>3, <2>1
<1>5. x = ww * p + (w * s + r)
  <2>1. w * q = w * (w * p) + w * s /\ w * p \in Int /\ w * s \in Int
    BY <1>2, Mult
  <2>2. w * (w * p) = (w * w) * p /\ ww * p \in Int
    OBVIOUS
  <2> QED
    BY <1>1, <1>3, <2>1, <2>2
<1>6. x % ww = w * s + r
  BY <1>4, <1>5, Unique
<1>7. (w * s + r) \div w = s
  BY Unique
<1> QED
  BY <1>1, <1>2, <1>3, <1>6, <1>7

\* A factor that is the rate rounded up, times the clock.
LEMMA Product ==
  ASSUME NEW w \in Nat \ {0}, NEW n \in Nat \ {0}, NEW U \in Nat, NEW k \in Nat,
         NEW x \in Nat, NEW d \in 0..(n - 1), k * n = U * w + d
  PROVE  /\ n * (k * x) = w * (U * x) + d * x
         /\ U * x \in Nat /\ k * x \in Nat /\ d * x \in Nat
<1>1. U * x \in Nat /\ k * x \in Nat /\ d * x \in Nat
  OBVIOUS
<1>2. n * (k * x) = (k * n) * x
  OBVIOUS
<1>3. (U * w + d) * x = (U * w) * x + d * x /\ (U * w) * x = w * (U * x)
  OBVIOUS
<1> QED
  BY <1>1, <1>2, <1>3

\* The upper word of the product, and the exact number of ticks.
LEMMA Near ==
  ASSUME NEW w \in Nat \ {0}, NEW n \in 1..w, NEW U \in Nat, NEW k \in Nat,
         NEW x \in Nat, NEW d \in 0..(n - 1), k * n = U * w + d,
         NEW y \in Nat, y = (k * x) \div w
  PROVE  /\ w * (n * y) <= w * (U * x) + d * x
         /\ w * (U * x) + d * x < w * (n * y) + w * n
         /\ n * y \in Nat /\ U * x \in Nat /\ d * x \in Nat
<1>1. /\ n * (k * x) = w * (U * x) + d * x
      /\ U * x \in Nat /\ k * x \in Nat /\ d * x \in Nat
  BY Product
<1>2. PICK r \in 0..(w - 1) : k * x = w * y + r
  <2>1. PICK z \in Nat : z = k * x
    BY <1>1
  <2>2. y = z \div w
    BY <2>1
  <2>3. PICK q \in Nat, r \in 0..(w - 1) : q = z \div w /\ z = w * q + r
    BY Division
  <2>4. q = y
    BY <2>2, <2>3
  <2> QED
    BY <2>1, <2>3, <2>4
<1>3. n * (w * y + r) = n * (w * y) + n * r /\ n * (w * y) = w * (n * y)
  OBVIOUS
<1>4. n * r < w * n /\ n * r \in Nat /\ w * n \in Nat
  <2>1. n * r < n * w /\ n * w = w * n
    OBVIOUS
  <2> QED
    BY <2>1
<1>5. w * (n * y) \in Nat /\ n * y \in Nat /\ w * (U * x) \in Nat
  BY <1>1
<1> QED
  BY <1>1, <1>2, <1>3, <1>4, <1>5

\* More units of the clock, no fewer ticks.
LEMMA Grows ==
  ASSUME NEW w \in Nat \ {0}, NEW k \in Nat, NEW x \in Nat, NEW y \in Nat, k * x <= k * y
  PROVE  (k * x) \div w <= (k * y) \div w
<1>1. PICK a \in Nat, b \in Nat : a = k * x /\ b = k * y
  OBVIOUS
<1>2. PICK p \in Nat, r \in 0..(w - 1) : p = a \div w /\ a = w * p + r
  BY Division
<1>3. PICK q \in Nat, s \in 0..(w - 1) : q = b \div w /\ b = w * q + s
  BY Division
<1>4. w * p < w * (q + 1)
  <2>1. w * (q + 1) = w * q + w /\ w * p \in Int /\ w * q \in Int
    BY Mult
  <2> QED
    BY <1>1, <1>2, <1>3, <2>1
<1>5. p < q + 1
  BY <1>4, Factor
<1> QED
  BY <1>1, <1>2, <1>3, <1>5

\* Two readings, of which each is near the exact number and both are off by
\* nearly the same.
LEMMA Measures ==
  ASSUME NEW w \in Nat \ {0}, NEW n \in 1..w, NEW U \in Nat, w * U + 2 * n < w * n,
         NEW t \in Nat, NEW e \in 0..w, NEW a \in Nat, NEW b \in Nat, a <= b,
         NEW g \in Int, NEW h \in Int, h - g < w * n, g - h < w * n,
         w * (n * a) <= w * (U * t) + g, w * (U * t) + g < w * (n * a) + w * n,
         w * (n * b) <= w * (U * (t + e)) + h,
         w * (U * (t + e)) + h < w * (n * b) + w * n
  PROVE  /\ b - a \in 0..(w - 1)
         /\ ((b - a) - 2) * n < e * U /\ e * U < ((b - a) + 2) * n
<1> DEFINE D == b - a
<1>0. n \in Nat \ {0} /\ D \in Nat /\ e \in Nat /\ b = a + D
  OBVIOUS
<1> HIDE DEF D
<1>1. /\ n * b = n * a + n * D /\ U * (t + e) = U * t + U * e
      /\ n * a \in Nat /\ n * D \in Nat /\ U * t \in Nat /\ U * e \in Nat
  BY <1>0
<1>2. /\ w * (n * b) = w * (n * a) + w * (n * D)
      /\ w * (U * (t + e)) = w * (U * t) + w * (U * e)
      /\ w * (n * a) \in Int /\ w * (n * D) \in Int /\ w * (U * t) \in Int
      /\ w * (U * e) \in Int /\ w * n \in Int
  BY <1>1, Mult
<1>3. w * (n * D) < w * (U * e) + w * n + w * n /\ w * (U * e) < w * (n * D) + w * n + w * n
  BY <1>2
<1>4. n * D < U * e + 2 * n
  <2>1. w * (U * e + 2 * n) = w * (U * e) + w * n + w * n
    <3>1. w * (U * e + 2 * n) = w * (U * e) + w * (2 * n) /\ w * (2 * n) = w * n + w * n
      BY <1>0, <1>1, Mult
    <3> QED
      BY <1>2, <3>1
  <2> QED
    BY <1>1, <1>3, <2>1, Factor
<1>5. U * e < n * D + 2 * n
  <2>1. w * (n * D + 2 * n) = w * (n * D) + w * n + w * n
    <3>1. w * (n * D + 2 * n) = w * (n * D) + w * (2 * n) /\ w * (2 * n) = w * n + w * n
      BY <1>0, <1>1, Mult
    <3> QED
      BY <1>2, <3>1
  <2> QED
    BY <1>1, <1>3, <2>1, Factor
<1>6. D < w
  <2>1. U * e <= U * w /\ U * w = w * U /\ w * U \in Int /\ n * w = w * n
    BY <1>0
  <2>2. n * D < n * w
    BY <1>1, <1>2, <1>4, <2>1
  <2> QED
    BY <1>0, <2>2, Factor
<1>7. (D - 2) * n = n * D - 2 * n /\ (D + 2) * n = n * D + 2 * n /\ e * U = U * e
  BY <1>0
<1> QED
  BY <1>0, <1>1, <1>4, <1>5, <1>6, <1>7 DEF D

\* What a timer would show if its words were wide enough.
Raw(k, t) ==
  IF k = "TIMER3" THEN (t \div Ns) * Rates[k] + Micros(t % Ns)
  ELSE (t * Factors[k]) \div Wrap

\* By how much the factor of a timer is rounded up.
Excess(k) == Factors[k] * Ns - Rates[k] * Wrap
Error(k, t) == IF k = "TIMER3" THEN Excess(k) * (t % Ns) ELSE Excess(k) * t

\* The constants of the clock.
LEMMA Constants ==
  ASSUME NEW k \in Timers
  PROVE  /\ Wrap \in Nat \ {0} /\ Ns \in 1..Wrap /\ Ns \in Nat \ {0}
         /\ Rates[k] \in Nat /\ Factors[k] \in Nat /\ Excess(k) \in 0..(Ns - 1)
         /\ Factors[k] * Ns = Rates[k] * Wrap + Excess(k)
         /\ Wrap * Rates[k] + 2 * Ns < Wrap * Ns
  BY ClockAssumption DEF Excess

\* The seconds and the rest of a time.
LEMMA Seconds ==
  ASSUME NEW t \in Nat
  PROVE  \E q \in Nat, r \in 0..(Ns - 1) : q = t \div Ns /\ r = t % Ns /\ t = Ns * q + r
<1>1. Ns \in Nat \ {0}
  BY ClockAssumption
<1> QED
  BY <1>1, Division

\* A timer that wraps around is the wide one in a word.
LEMMA TicksRaw ==
  ASSUME NEW k \in Timers, NEW t \in Nat
  PROVE  Raw(k, t) \in Nat /\ Ticks(k, t) = Raw(k, t) % Wrap /\ Ticks(k, t) \in 0..(Wrap - 1)
<1>1. Raw(k, t) \in Nat
  <2>1. CASE k = "TIMER3"
    <3>1. PICK q \in Nat, r \in 0..(Ns - 1) : q = t \div Ns /\ r = t % Ns
      BY Seconds
    <3>2. r * Factors[k] \in Nat /\ q * Rates[k] \in Nat
      BY <3>1, Constants
    <3>3. Micros(r) \in Nat
      BY <2>1, <3>2, Constants, Division DEF Micros
    <3> QED
      BY <2>1, <3>1, <3>2, <3>3 DEF Raw
  <2>2. CASE k # "TIMER3"
    <3>1. t * Factors[k] \in Nat
      BY Constants
    <3> QED
      BY <2>2, <3>1, Constants, Division DEF Raw
  <2> QED
    BY <2>1, <2>2
<1>2. Ticks(k, t) = Raw(k, t) % Wrap
  <2>1. CASE k = "TIMER3"
    BY <2>1 DEF Ticks, Timer3, Raw
  <2>2. CASE k = "TCOUNT"
    <3>1. t * Factors[k] \in Nat
      BY Constants
    <3> QED
      BY <2>2, <3>1, Constants, UpperWord DEF Ticks, Tcount, Raw
  <2> QED
    BY <2>1, <2>2 DEF Timers
<1>3. Raw(k, t) % Wrap \in 0..(Wrap - 1)
  BY <1>1, Constants, Division
<1> QED
  BY <1>1, <1>2, <1>3

\* Each reading is near the exact number of ticks.
LEMMA RawNear ==
  ASSUME NEW k \in Timers, NEW t \in Nat
  PROVE  /\ Error(k, t) \in Int
         /\ k = "TIMER3" => Error(k, t) >= 0 /\ Error(k, t) < Wrap * Ns
         /\ Wrap * (Ns * Raw(k, t)) <= Wrap * (Rates[k] * t) + Error(k, t)
         /\ Wrap * (Rates[k] * t) + Error(k, t) < Wrap * (Ns * Raw(k, t)) + Wrap * Ns
<1> DEFINE U == Rates[k]  K == Factors[k]  d == Excess(k)
<1>0. /\ Wrap \in Nat \ {0} /\ Ns \in 1..Wrap /\ Ns \in Nat \ {0} /\ U \in Nat /\ K \in Nat
      /\ d \in 0..(Ns - 1) /\ K * Ns = U * Wrap + d
  BY Constants
<1>1. CASE k = "TIMER3"
  <2>1. PICK q \in Nat, r \in 0..(Ns - 1) : q = t \div Ns /\ r = t % Ns /\ t = Ns * q + r
    BY Seconds
  <2>2. PICK y : y = (K * r) \div Wrap
    OBVIOUS
  <2>3. y \in Nat
    <3>1. K * r \in Nat
      BY <1>0
    <3> QED
      BY <1>0, <2>2, <3>1, Division
  <2>4. /\ Raw(k, t) = q * U + y /\ Error(k, t) = d * r
    <3>1. r * K = K * r
      BY <1>0
    <3> QED
      BY <1>1, <2>1, <2>2, <3>1 DEF Raw, Micros, Error
  <2> HIDE DEF U, K, d
  <2>5. /\ Wrap * (Ns * y) <= Wrap * (U * r) + d * r
        /\ Wrap * (U * r) + d * r < Wrap * (Ns * y) + Wrap * Ns
        /\ Ns * y \in Nat /\ U * r \in Nat /\ d * r \in Nat
    BY <1>0, <2>2, <2>3, Near
  <2>6. d * r < Wrap * Ns
    <3>1. d * r <= d * Ns
      BY <1>0
    <3>2. d * Ns < Wrap * Ns
      BY <1>0
    <3> QED
      BY <1>0, <2>5, <3>1, <3>2
  <2>7. PICK z \in Nat : z = Ns * (q * U)
    BY <1>0
  <2>8. Ns * (q * U + y) = z + Ns * y /\ U * (Ns * q + r) = z + U * r
    <3>1. Ns * (q * U + y) = Ns * (q * U) + Ns * y
      BY <1>0, <2>3
    <3>2. U * (Ns * q + r) = U * (Ns * q) + U * r /\ U * (Ns * q) = Ns * (q * U)
      BY <1>0
    <3> QED
      BY <2>7, <3>1, <3>2
  <2>9. /\ Wrap * (z + Ns * y) = Wrap * z + Wrap * (Ns * y)
        /\ Wrap * (z + U * r) = Wrap * z + Wrap * (U * r)
        /\ Wrap * z \in Int /\ Wrap * (Ns * y) \in Int /\ Wrap * (U * r) \in Int
    BY <1>0, <2>5, Mult
  <2>10. Wrap * Ns \in Int
    BY <1>0
  <2>11. /\ Wrap * (Ns * (q * U + y)) <= Wrap * (U * t) + d * r
         /\ Wrap * (U * t) + d * r < Wrap * (Ns * (q * U + y)) + Wrap * Ns
    BY <2>1, <2>5, <2>8, <2>9, <2>10
  <2> QED
    BY <2>4, <2>5, <2>6, <2>11 DEF U
<1>2. CASE k # "TIMER3"
  <2>1. PICK y : y = (K * t) \div Wrap
    OBVIOUS
  <2>2. y \in Nat
    <3>1. K * t \in Nat
      BY <1>0
    <3> QED
      BY <1>0, <2>1, <3>1, Division
  <2>3. Raw(k, t) = y /\ Error(k, t) = d * t
    <3>1. t * K = K * t
      BY <1>0
    <3> QED
      BY <1>2, <2>1, <3>1 DEF Raw, Error
  <2> HIDE DEF U, K, d
  <2>4. /\ Wrap * (Ns * y) <= Wrap * (U * t) + d * t
        /\ Wrap * (U * t) + d * t < Wrap * (Ns * y) + Wrap * Ns
        /\ d * t \in Nat
    BY <1>0, <2>1, <2>2, Near
  <2> QED
    BY <1>2, <2>3, <2>4 DEF U
<1> QED
  BY <1>1, <1>2

\* A later reading is no smaller, at the end of a second least of all.
LEMMA RawGrows ==
  ASSUME NEW k \in Timers, NEW t \in Nat, NEW u \in Nat, t <= u
  PROVE  Raw(k, t) <= Raw(k, u)
<1> DEFINE U == Rates[k]  K == Factors[k]  d == Excess(k)
<1>0. /\ Wrap \in Nat \ {0} /\ Ns \in 1..Wrap /\ Ns \in Nat \ {0} /\ U \in Nat /\ K \in Nat
      /\ d \in 0..(Ns - 1) /\ K * Ns = U * Wrap + d
  BY Constants
<1> HIDE DEF U, K, d
<1>1. ASSUME NEW x \in Nat, NEW y \in Nat, x <= y
      PROVE  /\ (x * K) \div Wrap <= (y * K) \div Wrap
             /\ (x * K) \div Wrap \in Nat /\ (y * K) \div Wrap \in Nat
  <2>1. K * x <= K * y /\ x * K = K * x /\ y * K = K * y /\ x * K \in Nat /\ y * K \in Nat
    BY <1>0, <1>1
  <2> QED
    BY <1>0, <2>1, Grows, Division
<1>2. CASE k = "TIMER3"
  <2>1. PICK p \in Nat, r \in 0..(Ns - 1) : p = t \div Ns /\ r = t % Ns /\ t = Ns * p + r
    BY Seconds
  <2>2. PICK q \in Nat, s \in 0..(Ns - 1) : q = u \div Ns /\ s = u % Ns /\ u = Ns * q + s
    BY Seconds
  <2>3. PICK y \in Nat, z \in Nat : y = Micros(r) /\ z = Micros(s)
    BY <1>1, <1>2 DEF Micros, K
  <2>4. Raw(k, t) = p * U + y /\ Raw(k, u) = q * U + z
    BY <1>2, <2>1, <2>2, <2>3 DEF Raw, U
  <2>5. p <= q
    <3>1. Ns * p < Ns * (q + 1)
      <4>1. Ns * (q + 1) = Ns * q + Ns /\ Ns * q \in Int /\ Ns * p \in Int
        BY <1>0, Mult
      <4> QED
        BY <1>0, <2>1, <2>2, <4>1
    <3> QED
      BY <1>0, <3>1, Factor
  <2>6. CASE p = q
    <3>1. r <= s
      <4>1. Ns * q \in Int
        BY <1>0
      <4> QED
        BY <2>1, <2>2, <2>6, <4>1
    <3>2. y <= z
      BY <1>1, <1>2, <2>3, <3>1 DEF Micros, K
    <3>3. q * U \in Nat
      BY <1>0
    <3> QED
      BY <2>4, <2>6, <3>2, <3>3
  <2>7. CASE p < q
    <3>1. y <= U
      <4>1. (r * K) \div Wrap <= (Ns * K) \div Wrap /\ y = (r * K) \div Wrap
        BY <1>0, <1>1, <1>2, <2>3 DEF Micros, K
      <4>2. Ns * K = Wrap * U + d /\ d \in 0..(Wrap - 1)
        BY <1>0
      <4>3. (Wrap * U + d) \div Wrap = U
        BY <1>0, <4>2, Unique
      <4> QED
        BY <4>1, <4>2, <4>3
    <3>2. p * U + U <= q * U /\ p * U \in Nat /\ q * U \in Nat
      <4>1. (p + 1) * U <= q * U /\ (p + 1) * U = p * U + U
        BY <1>0, <2>7
      <4> QED
        BY <1>0, <4>1
    <3> QED
      BY <1>0, <2>4, <3>1, <3>2
  <2> QED
    BY <2>5, <2>6, <2>7
<1>3. CASE k # "TIMER3"
  BY <1>1, <1>3 DEF Raw, K
<1> QED
  BY <1>2, <1>3

\* Two readings of a timer, not too far apart, measure the time between them.
LEMMA ReadingsTrue ==
  ASSUME NEW k \in Timers, NEW t \in Nat, NEW u \in Nat, t <= u, u - t <= Wrap,
         NEW ticks, ticks = (Ticks(k, u) - Ticks(k, t)) % Wrap
  PROVE  (ticks - 2) * Ns < (u - t) * Rates[k] /\ (u - t) * Rates[k] < (ticks + 2) * Ns
<1>1. PICK a \in Nat, b \in Nat, g \in Int, h \in Int :
        a = Raw(k, t) /\ b = Raw(k, u) /\ g = Error(k, t) /\ h = Error(k, u)
  BY TicksRaw, RawNear
<1>2. a <= b
  BY <1>1, RawGrows
<1>3. PICK e \in 0..Wrap : e = u - t /\ u = t + e
  BY Constants
<1>4. h - g < Wrap * Ns /\ g - h < Wrap * Ns
  <2>1. CASE k = "TIMER3"
    <3>1. g >= 0 /\ g < Wrap * Ns /\ h >= 0 /\ h < Wrap * Ns
      BY <1>1, <2>1, RawNear
    <3>2. Wrap * Ns \in Int
      BY Constants
    <3> QED
      BY <3>1, <3>2
  <2>2. CASE k # "TIMER3"
    <3>1. PICK d \in 0..(Ns - 1) : d = Excess(k)
      BY Constants
    <3>2. g = d * t /\ h = d * (t + e)
      BY <1>1, <1>3, <2>2, <3>1 DEF Error
    <3>3. d * (t + e) = d * t + d * e /\ d * t \in Int /\ d * e \in Nat
      BY <1>3, Constants
    <3>4. d * e < Wrap * Ns /\ Wrap * Ns \in Nat \ {0}
      <4>1. d * e <= d * Wrap /\ d * Wrap < Ns * Wrap /\ Ns * Wrap = Wrap * Ns
        BY Constants
      <4>2. d * Wrap \in Int /\ Wrap * Ns \in Nat \ {0}
        BY Constants
      <4> QED
        BY <3>3, <4>1, <4>2
    <3> QED
      BY <3>2, <3>3, <3>4
  <2> QED
    BY <2>1, <2>2
<1>5. /\ Wrap * (Ns * a) <= Wrap * (Rates[k] * t) + g
      /\ Wrap * (Rates[k] * t) + g < Wrap * (Ns * a) + Wrap * Ns
      /\ Wrap * (Ns * b) <= Wrap * (Rates[k] * (t + e)) + h
      /\ Wrap * (Rates[k] * (t + e)) + h < Wrap * (Ns * b) + Wrap * Ns
  BY <1>1, <1>3, RawNear
<1>6. /\ b - a \in 0..(Wrap - 1)
      /\ ((b - a) - 2) * Ns < e * Rates[k] /\ e * Rates[k] < ((b - a) + 2) * Ns
  BY <1>2, <1>4, <1>5, Constants, Measures
<1>7. ticks = b - a
  <2>1. Ticks(k, u) = b % Wrap /\ Ticks(k, t) = a % Wrap
    BY <1>1, TicksRaw
  <2>2. Wrap \in Nat \ {0}
    BY Constants
  <2>3. ((b % Wrap) - (a % Wrap)) % Wrap = b - a
    BY <1>6, <2>2, Difference
  <2> QED
    BY <2>1, <2>3
<1> QED
  BY <1>3, <1>6, <1>7

\* A step of polling timers preserves what is known of them.
LEMMA ClockStep == ClockType /\ [PollTimers]_clock => ClockType'
<1> SUFFICES ASSUME ClockType, [PollTimers]_clock PROVE ClockType'
  OBVIOUS
<1>1. ASSUME NEW t \in Moments, TimePasses(t) PROVE ClockType'
  <2>1. now' \in Nat /\ now \in Nat /\ now < now' /\ older' = older /\ newer' = newer
    BY <1>1, ClockAssumption DEF TimePasses, ClockType
  <2>2. ASSUME NEW r \in {older, newer}, r # NoReading
        PROVE  /\ r \in [timer : Timers, at : 0..now', value : 0..(Wrap - 1)]
               /\ r.value = Ticks(r.timer, r.at)
    BY <2>1, <2>2 DEF ClockType
  <2> QED
    BY <2>1, <2>2 DEF ClockType
<1>2. ASSUME NEW k \in Timers, ReadTimer(k) PROVE ClockType'
  <2>1. Ticks(k, now) \in 0..(Wrap - 1)
    BY TicksRaw DEF ClockType
  <2>2. /\ older' = newer /\ newer' = [timer |-> k, at |-> now, value |-> Ticks(k, now)]
        /\ now' = now /\ now \in Nat
    BY <1>2 DEF ReadTimer, ClockType
  <2>3. /\ newer' \in [timer : Timers, at : 0..now, value : 0..(Wrap - 1)]
        /\ newer'.value = Ticks(newer'.timer, newer'.at) /\ newer'.at = now
    BY <2>1, <2>2
  <2>4. \/ newer = NoReading
        \/ newer \in [timer : Timers, at : 0..now, value : 0..(Wrap - 1)]
           /\ newer.value = Ticks(newer.timer, newer.at)
    BY DEF ClockType
  <2>5. newer # NoReading => newer.at <= now
    BY <2>2, <2>4
  <2> QED
    BY <2>2, <2>3, <2>4, <2>5 DEF ClockType
<1>3. ASSUME UNCHANGED clock PROVE ClockType'
  BY <1>3 DEF clock, ClockType
<1> QED
  BY <1>1, <1>2, <1>3 DEF PollTimers

\* The initial state satisfies the invariant.
LEMMA InitInv == Init => IInv
<1> SUFFICES ASSUME Init PROVE IInv
  OBVIOUS
<1>1. DOMAIN seen = {}
  BY DEF Init
<1>2. "wiz" \in Machines
  BY DEF Machines, Registers
<1>3. ButtonsInv
  BY <1>1, <1>2 DEF Init, ButtonsInv, ButtonsType, WordsTrue, Kept
<1>4. UnknownInv /\ ClockType
  BY DEF Init, UnknownInv, UnknownType, Progress, ClockType
<1> QED
  BY <1>3, <1>4 DEF Init, IInv, TypeOK, ButtonsInv, UnknownInv

\* The invariant is inductive: each kind of polls leaves the others alone.
LEMMA StepInv == IInv /\ [Next]_vars => IInv'
<1> SUFFICES ASSUME IInv, [Next]_vars PROVE IInv'
  OBVIOUS
<1>1. /\ [PollButtons]_buttons /\ [PollUnknown]_unknown /\ [PollTimers]_clock
      /\ polls' = polls
  BY DEF Next, vars
<1>2. ButtonsInv' /\ UnknownInv' /\ ClockType'
  BY <1>1, ButtonsStep, UnknownStep, ClockStep DEF IInv, TypeOK
<1> QED
  BY <1>1, <1>2 DEF IInv, TypeOK, ButtonsInv, UnknownInv

\* The invariant holds in every state.
LEMMA Invariant == Spec => []IInv
  BY InitInv, StepInv, PTL DEF Spec

\* What the program finds in a word it has read was so at some moment.
LEMMA WordRead ==
  ASSUME IInv, NEW r \in DOMAIN seen, NEW s \in during, seen[r] = Value(r, s)
  PROVE  Pressed(r) = s \cap Shown(r)
<1>1. r \in AllRegisters /\ s \in SUBSET Buttons
  BY Known DEF IInv, TypeOK, ButtonsType
<1>2. Pressed(r) = Found(r, seen[r])
  BY DEF Pressed, Found
<1> QED
  BY <1>1, <1>2, Decoded

\* Types of all variables.
THEOREM TypeCorrect == Spec => []TypeOK
  BY Invariant, PTL DEF IInv

\* What a poll of any of the three machines says of a button was so at some
\* moment of the poll, for all sets of buttons the user may hold.
THEOREM PollTrue == Spec => []EachButtonTrue
<1>1. IInv => EachButtonTrue
  <2> SUFFICES ASSUME IInv, Complete, NEW b \in Visible
               PROVE  \E s \in during : b \in Polled <=> b \in s
    BY DEF EachButtonTrue
  <2>1. PICK r \in DOMAIN seen : b \in Shown(r)
    BY DEF Visible
  <2>2. PICK s \in during : seen[r] = Value(r, s)
    BY DEF IInv, ButtonsInv, WordsTrue
  <2>3. Pressed(r) = s \cap Shown(r)
    BY <2>2, WordRead
  <2>4. ASSUME b \in Polled PROVE b \in s
    <3>1. PICK q \in DOMAIN seen : b \in Pressed(q)
      BY <2>4 DEF Polled
    <3>2. b \in Shown(q)
      BY <3>1, WordRead DEF IInv, ButtonsInv, WordsTrue
    <3>3. q = r
      BY <2>1, <3>2, Apart DEF IInv, TypeOK, ButtonsType
    <3> QED
      BY <2>3, <3>1, <3>3
  <2>5. ASSUME b \in s PROVE b \in Polled
    BY <2>1, <2>3, <2>5 DEF Polled
  <2> QED
    BY <2>4, <2>5
<1> QED
  BY <1>1, Invariant, PTL

\* What the user holds all through a poll is what the program sees, whatever
\* fb_sync_thread does meanwhile.
THEOREM HeldShown == Spec => []HeldIsSeen
<1>1. IInv => HeldIsSeen
  <2> SUFFICES ASSUME IInv, steady PROVE Polled = HostReadBtns \cap Visible
    BY DEF HeldIsSeen
  <2>1. during = {HostReadBtns}
    BY DEF IInv, ButtonsInv, Kept
  <2>2. \A r \in DOMAIN seen : Pressed(r) = HostReadBtns \cap Shown(r)
    BY <2>1, WordRead DEF IInv, ButtonsInv, WordsTrue
  <2> QED
    BY <2>2 DEF Polled, Visible
<1> QED
  BY <1>1, Invariant, PTL

\* No wait for a bit of an unknown register takes more than three reads, for any
\* registers, bits and order of reads.
THEOREM WaitsEnd == Spec => []WaitEnds
<1>1. IInv => WaitEnds
  BY DEF IInv, UnknownInv, Progress, WaitEnds
<1> QED
  BY <1>1, Invariant, PTL

\* For every clock and every factor that is rounded up, two readings of a timer
\* measure the time between them to within two ticks, through the ends of
\* seconds and the wraps of the words.
THEOREM TimersMeasure == Spec => []TimersTrue
<1>1. IInv => TimersTrue
  <2> SUFFICES ASSUME IInv, older.timer = newer.timer, newer.timer \in Timers,
                      newer.at - older.at <= Wrap
               PROVE  LET ticks == (newer.value - older.value) % Wrap
                          exact == (newer.at - older.at) * Rates[newer.timer]
                      IN (ticks - 2) * Ns < exact /\ exact < (ticks + 2) * Ns
    BY DEF TimersTrue
  <2>1. older # NoReading /\ newer # NoReading
    BY DEF NoReading, Timers
  <2>2. /\ older.at \in Nat /\ newer.at \in Nat /\ older.at <= newer.at
        /\ older.value = Ticks(older.timer, older.at)
        /\ newer.value = Ticks(newer.timer, newer.at)
    BY <2>1 DEF IInv, TypeOK, ClockType
  <2> QED
    BY <2>2, ReadingsTrue
<1> QED
  BY <1>1, Invariant, PTL
=============================================================================
