--------------------------- MODULE Loading_proofs ---------------------------
(***************************************************************************)
(* How a program gets into memory.  The search of do_patches does what     *)
(* Patches says for every table whose jumps are no longer than their       *)
(* signatures, and every program; everything is put where Layout says, for *)
(* every page size, list of maps and list of segments; and a session gives *)
(* each program its loader and one menu to come back to, whatever is on    *)
(* the card and whatever the scripts say.                                  *)
(***************************************************************************)
EXTENDS Patches, Layout, Session, FiniteSetTheorems, WellFoundedInduction, TLAPS

\* How far the search has come: hits begin in the segment and lie behind seg,
\* and from seg on the memory is as it was loaded.
Frontier ==
  /\ \A h \in hits : First <= h.at /\ h.at < End /\ h.at + SigLen(h.patch) <= seg
  /\ \A a \in Addr : a >= seg => mem[a] = orig[a]

IInv == TypeOK /\ Frontier /\ PatchesIntact /\ OnlySignaturesChanged /\ NoneMissed

\* What is written over a signature: words, at least one, and not more than the
\* signature has.
LEMMA WrittenShape ==
  ASSUME NEW p \in Patches
  PROVE  /\ SigLen(p) \in Nat /\ Len(Written(p)) \in 1..SigLen(p)
         /\ Written(p) \in Seq(Words)
<1>0. Table[p] \in Entries
  BY TableAssumption DEF Patches
<1>1. /\ Table[p].sig \in Seq(SUBSET Words) /\ Table[p].type \in 0..2
      /\ Table[p].func \in Words
  BY <1>0 DEF Entries
<1> USE MemoryAssumption
<1>2. SigLen(p) \in Nat /\ Len(Written(p)) <= SigLen(p)
  BY <1>1, TableAssumption DEF SigLen
<1>3. CASE Table[p].type = 0
  <2>1. Written(p) = <<LdrPc, Table[p].func>>
    BY <1>3 DEF Written
  <2> QED BY <1>1, <1>2, <2>1
<1>4. CASE Table[p].type = 1
  <2>1. Written(p) = <<PushPc, LdrPc, Table[p].func>>
    BY <1>4 DEF Written
  <2> QED BY <1>1, <1>2, <2>1
<1>5. CASE Table[p].type = 2
  <2>1. Written(p) = <<Nop>>
    BY <1>5 DEF Written
  <2> QED BY <1>1, <1>2, <2>1
<1> QED BY <1>1, <1>3, <1>4, <1>5

\* A patch at a word of the memory changes its own words only.
LEMMA PutSpan ==
  ASSUME NEW m \in [Addr -> Words], NEW a \in Nat, NEW p \in Patches
  PROVE  /\ Put(m, a, Written(p)) \in [Addr -> Words]
         /\ \A b \in Addr : Put(m, a, Written(p))[b] =
              IF a <= b /\ b < a + Len(Written(p)) THEN Written(p)[b - a + 1] ELSE m[b]
<1> DEFINE w == Written(p)
<1>1. w \in Seq(Words) /\ Len(w) \in Nat
  BY WrittenShape
<1>2. \A b \in Addr : b \in Int
  BY MemoryAssumption DEF Addr
<1>3. \A b \in Addr : b \in a..(a + Len(w) - 1) <=> a <= b /\ b < a + Len(w)
  BY <1>1, <1>2
<1>4. \A b \in Addr : b \in a..(a + Len(w) - 1) => w[b - a + 1] \in Words
  <2> SUFFICES ASSUME NEW b \in Addr, b \in a..(a + Len(w) - 1)
               PROVE  b - a + 1 \in 1..Len(w)
    BY <1>1
  <2> QED BY <1>1, <1>2
<1> HIDE DEF w
<1> QED BY <1>3, <1>4 DEF Put, w
\* A set of numbers has a least one.
LEMMA LeastOf ==
  ASSUME NEW S \in SUBSET Nat, S # {}
  PROVE  \E x \in S : \A y \in S : x <= y
<1> DEFINE R == OpToRel(<, Nat)
<1>1. IsWellFoundedOn(R, Nat)
  BY NatLessThanWellFounded
<1>2. \A x, y \in Nat : <<y, x>> \in R <=> y < x
  BY DEF OpToRel
<1> HIDE DEF R
<1>3. PICK x \in S : \A y \in S : ~ (<<y, x>> \in R)
  BY <1>1, WFMin
<1>4. \A y \in S : ~ (y < x)
  BY <1>2, <1>3, Zenon
<1> QED BY <1>4

\* If an entry fits the word at seg, one is chosen: the first in the table.
LEMMA SomeChosen ==
  ASSUME NEW p \in Patches, Fits(mem, seg, p)
  PROVE  \E q \in Patches : Chosen(q)
<1> DEFINE F == {q \in Patches : Fits(mem, seg, q)}
<1>1. Patches \subseteq Nat /\ \A q \in Patches : 1..q \subseteq Patches
  BY TableAssumption DEF Patches
<1>2. F \in SUBSET Nat /\ F # {}
  BY <1>1
<1>3. PICK q \in F : \A r \in F : q <= r
  BY <1>2, LeastOf
<1>4. \A r \in 1..(q - 1) : r \in Patches /\ ~(q <= r)
  BY <1>1, <1>3
<1>5. \A r \in 1..(q - 1) : ~Fits(mem, seg, r)
  BY <1>3, <1>4
<1> QED BY <1>3, <1>5 DEF Chosen

-----------------------------------------------------------------------------
\* The words of a signature that begins in the segment are all in the memory.
LEMMA InMemory ==
  ASSUME TypeOK, seg < End, NEW p \in Patches
  PROVE  /\ First \in Nat /\ End \in Int /\ Top \in Nat
         /\ seg \in Nat /\ seg + SigLen(p) <= Top
<1>1. ptr \in Nat /\ size \in Nat /\ EndWord(ptr, size) + SigLen(p) <= Top
  BY MemoryAssumption DEF TypeOK
<1>2. FirstWord(ptr) \in Nat /\ EndWord(ptr, size) \in Int
  BY <1>1 DEF FirstWord, EndWord
<1> QED BY <1>1, <1>2, WrittenShape, MemoryAssumption DEF First, End, TypeOK

LEMMA WholeFirst ==
  ASSUME TypeOK
  PROVE  First \in Nat
BY MemoryAssumption DEF TypeOK, First, FirstWord

LEMMA InitInv == Init => IInv
<1> SUFFICES ASSUME Init PROVE IInv
  OBVIOUS
<1>1. ptr \in Nat /\ mem \in [Addr -> Words] /\ orig = mem /\ hits = {}
  BY MemoryAssumption DEF Init
<1>2. FirstWord(ptr) \in Nat /\ 4 * FirstWord(ptr) >= ptr
  BY <1>1 DEF FirstWord
<1>3. TypeOK
  BY <1>1, <1>2 DEF Init, TypeOK, First
<1>4. Frontier
  BY <1>1 DEF Frontier
<1>5. PatchesIntact /\ OnlySignaturesChanged
  BY <1>1 DEF PatchesIntact, OnlySignaturesChanged
<1>6. First..(seg - 1) = {}
  BY <1>2 DEF Init, First
<1>7. NoneMissed
  BY <1>6 DEF NoneMissed
<1> QED BY <1>3, <1>4, <1>5, <1>7 DEF IInv

LEMMA NextWordInv ==
  ASSUME IInv, NextWord
  PROVE  IInv'
<1> USE DEF IInv
<1>1. /\ seg < End /\ seg' = seg + 1 /\ seg \in Nat
      /\ ptr' = ptr /\ size' = size /\ mem' = mem /\ orig' = orig /\ hits' = hits
  BY DEF NextWord, TypeOK
<1>2. First' = First /\ End' = End
  BY <1>1 DEF First, End
<1>3. \A h \in hits : h.at \in Nat /\ h.patch \in Patches /\ SigLen(h.patch) \in Nat
  BY WrittenShape DEF TypeOK
<1>4. TypeOK'
  <2>1. ptr \in Nat /\ First \in Nat
    BY MemoryAssumption, WholeFirst DEF TypeOK
  <2>2. seg' \in Nat /\ 4 * seg' >= ptr' /\ seg' >= First'
    BY <1>1, <1>2, <2>1 DEF TypeOK
  <2> QED BY <1>1, <2>2 DEF TypeOK
<1>5. Frontier'
  BY <1>1, <1>2, <1>3, MemoryAssumption DEF Frontier, Addr
<1>6. PatchesIntact'
  BY <1>1 DEF PatchesIntact
<1>7. OnlySignaturesChanged'
  BY <1>1 DEF OnlySignaturesChanged, Span
<1>8. NoneMissed'
  <2> SUFFICES ASSUME NEW a \in First..seg, NEW p \in Patches,
                      MatchesAt(orig, a, p), Table[p].type = 2 => NotData(mem, a)
               PROVE  \E h \in hits : a \in Span(h)
    BY <1>1, <1>2 DEF NoneMissed, MatchesAt, NotData, Span
  <2>1. CASE a < seg
    BY <2>1, <1>1 DEF NoneMissed, TypeOK
  <2>2. CASE a = seg
    <3>1. MatchesAt(mem, seg, p)
      <4> SUFFICES ASSUME NEW s \in 1..SigLen(p)
                   PROVE  mem[seg + s - 1] = orig[seg + s - 1]
        BY <2>2 DEF MatchesAt
      <4>1. seg + s - 1 \in Addr /\ seg + s - 1 >= seg
        BY <1>1, InMemory, WrittenShape DEF Addr
      <4> QED BY <4>1 DEF Frontier
    <3>2. Fits(mem, seg, p)
      BY <3>1, <2>2 DEF Fits
    <3> QED BY <3>2, SomeChosen DEF NextWord
  <2> QED BY <2>1, <2>2, <1>1, WholeFirst
<1> QED BY <1>4, <1>5, <1>6, <1>7, <1>8

LEMMA PatchInv ==
  ASSUME IInv, NEW p \in Patches, Patch(p)
  PROVE  IInv'
<1> DEFINE new == [at |-> seg, patch |-> p]
<1> DEFINE w == Written(p)
<1> USE DEF IInv
<1>1. /\ seg < End /\ seg' = seg + SigLen(p) /\ mem' = Put(mem, seg, Written(p))
      /\ ptr' = ptr /\ size' = size /\ orig' = orig /\ hits' = hits \cup {new}
      /\ Fits(mem, seg, p)
  BY DEF Patch, After, Chosen
<1>2. /\ seg \in Nat /\ First \in Nat /\ First <= seg /\ ptr \in Nat
      /\ SigLen(p) \in Nat /\ Len(w) \in 1..SigLen(p) /\ seg + SigLen(p) <= Top
      /\ Top \in Nat /\ End \in Int
  BY <1>1, InMemory, WrittenShape, MemoryAssumption DEF TypeOK
<1>3. First' = First /\ End' = End
  BY <1>1 DEF First, End
<1>4. /\ mem' \in [Addr -> Words]
      /\ \A b \in Addr : mem'[b] = IF seg <= b /\ b < seg + Len(w) THEN w[b - seg + 1]
                                   ELSE mem[b]
  BY <1>1, <1>2, PutSpan DEF TypeOK
<1>5. \A h \in hits : /\ h.at \in Nat /\ h.patch \in Patches /\ SigLen(h.patch) \in Nat
                      /\ First <= h.at /\ h.at < End /\ h.at + SigLen(h.patch) <= seg
  BY WrittenShape DEF TypeOK, Frontier
<1>6. new.at = seg /\ new.patch = p /\ new \in [at : Nat, patch : Patches]
  BY <1>2
<1>7. \A s \in 1..SigLen(p) : /\ seg + s - 1 \in Addr /\ orig[seg + s - 1] = mem[seg + s - 1]
                              /\ mem[seg + s - 1] \in Table[p].sig[s]
  <2> SUFFICES ASSUME NEW s \in 1..SigLen(p)
               PROVE  /\ seg + s - 1 \in Addr /\ orig[seg + s - 1] = mem[seg + s - 1]
                      /\ mem[seg + s - 1] \in Table[p].sig[s]
    OBVIOUS
  <2>1. seg + s - 1 \in Addr /\ seg + s - 1 >= seg
    BY <1>2 DEF Addr
  <2>2. orig[seg + s - 1] = mem[seg + s - 1]
    BY <2>1 DEF Frontier
  <2> QED BY <1>1, <2>1, <2>2 DEF Fits, MatchesAt
<1> HIDE DEF new, w
<1>8. TypeOK'
  <2>1. seg' \in Nat /\ 4 * seg' >= ptr' /\ seg' >= First'
    BY <1>1, <1>2, <1>3 DEF TypeOK
  <2> QED BY <1>1, <1>4, <1>6, <2>1 DEF TypeOK
<1>9. Frontier'
  <2>1. \A h \in hits' : First' <= h.at /\ h.at < End' /\ h.at + SigLen(h.patch) <= seg'
    BY <1>1, <1>2, <1>3, <1>5, <1>6
  <2>2. ASSUME NEW a \in Addr, a >= seg' PROVE mem'[a] = orig'[a]
    <3>1. a \in Int /\ a >= seg /\ ~(a < seg + Len(w))
      BY <2>2, <1>1, <1>2 DEF Addr
    <3> QED BY <3>1, <1>1, <1>4 DEF Frontier
  <2> QED BY <2>1, <2>2 DEF Frontier
<1>10. PatchesIntact'
  <2> SUFFICES ASSUME NEW h \in hits', NEW s \in 1..SigLen(h.patch)
               PROVE  /\ orig[h.at + s - 1] \in Table[h.patch].sig[s]
                      /\ mem'[h.at + s - 1] = IF s <= Len(Written(h.patch))
                           THEN Written(h.patch)[s] ELSE orig[h.at + s - 1]
    BY <1>1 DEF PatchesIntact
  <2>1. CASE h \in hits
    <3>1. /\ h.at + s - 1 \in Int /\ 0 <= h.at + s - 1 /\ h.at + s - 1 < seg
      BY <2>1, <1>5, <1>2
    <3>2. h.at + s - 1 \in Addr
      BY <3>1, <1>2 DEF Addr
    <3>3. mem'[h.at + s - 1] = mem[h.at + s - 1]
      BY <3>1, <3>2, <1>2, <1>4
    <3> QED BY <2>1, <3>3 DEF PatchesIntact
  <2>2. CASE h = new
    <3>1. h.at = seg /\ h.patch = p /\ s \in 1..SigLen(p)
      BY <2>2, <1>6
    <3>2. seg <= seg + s - 1 /\ (seg + s - 1 < seg + Len(w) <=> s <= Len(w))
      BY <3>1, <1>2
    <3>3. (seg + s - 1) - seg + 1 = s
      BY <3>1, <1>2
    <3>4. mem'[seg + s - 1] = IF s <= Len(w) THEN w[s] ELSE mem[seg + s - 1]
      BY <3>1, <3>2, <3>3, <1>4, <1>7
    <3> QED BY <3>1, <3>4, <1>7 DEF w
  <2> QED BY <2>1, <2>2, <1>1
<1>11. \A a \in Int : a \in Span(new) <=> seg <= a /\ a < seg + SigLen(p)
  BY <1>2, <1>6 DEF Span
<1>12. OnlySignaturesChanged'
  <2> SUFFICES ASSUME NEW a \in Addr, mem'[a] # orig[a]
               PROVE  \E h \in hits' : a \in Span(h)
    BY <1>1 DEF OnlySignaturesChanged, Span
  <2>1. CASE seg <= a /\ a < seg + Len(w)
    <3>1. a \in Span(new)
      BY <2>1, <1>2, <1>11 DEF Addr
    <3> QED BY <3>1, <1>1
  <2>2. CASE ~(seg <= a /\ a < seg + Len(w))
    BY <2>2, <1>1, <1>4 DEF OnlySignaturesChanged
  <2> QED BY <2>1, <2>2
<1>13. NoneMissed'
  <2> SUFFICES ASSUME NEW a \in First..(seg' - 1), NEW q \in Patches, MatchesAt(orig, a, q),
                      Table[q].type = 2 => NotData(mem, a)'
               PROVE  \E h \in hits' : a \in Span(h)
    BY <1>1, <1>3 DEF NoneMissed, MatchesAt, Span, NotData
  <2>1. CASE a < seg
    <3>1. a - 1 \in Int /\ a - 1 < seg /\ a \in First..(seg - 1)
      BY <2>1, <1>2
    <3>2. 4 * a >= ptr + 4 => a - 1 \in Addr
      BY <3>1, <1>2 DEF Addr
    <3>3. NotData(mem, a)' => NotData(mem, a)
      BY <3>1, <3>2, <1>1, <1>2, <1>4 DEF NotData
    <3>4. \E h \in hits : a \in Span(h)
      BY <3>1, <3>3 DEF NoneMissed
    <3> QED BY <3>4, <1>1
  <2>2. CASE a >= seg
    <3>1. a \in Span(new)
      BY <2>2, <1>1, <1>2, <1>11
    <3> QED BY <3>1, <1>1
  <2> QED BY <2>1, <2>2, <1>1, <1>2
<1> QED BY <1>8, <1>9, <1>10, <1>12, <1>13

LEMMA StepInv == IInv /\ [Next]_vars => IInv'
<1> SUFFICES ASSUME IInv, [Next]_vars PROVE IInv'
  OBVIOUS
<1>1. CASE NextWord
  BY <1>1, NextWordInv
<1>2. ASSUME NEW p \in Patches, Patch(p) PROVE IInv'
  BY <1>2, PatchInv
<1>3. CASE UNCHANGED vars
  BY <1>3 DEF vars, IInv, TypeOK, Frontier, PatchesIntact, OnlySignaturesChanged, NoneMissed,
              First, End, Span, NotData
<1> QED BY <1>1, <1>2, <1>3 DEF Next
-----------------------------------------------------------------------------
\* Types; the loop never looks at a word before the segment's first whole one.
THEOREM TypeCorrect == Spec => []TypeOK
<1>1. IInv => TypeOK
  BY DEF IInv
<1> QED BY <1>1, InitInv, StepInv, PTL DEF Spec

\* What is patched was a whole signature as loaded and stays as patched.
THEOREM PatchesStay == Spec => []PatchesIntact
<1>1. IInv => PatchesIntact
  BY DEF IInv
<1> QED BY <1>1, InitInv, StepInv, PTL DEF Spec

\* Code that belongs to no signature is never changed.
THEOREM CodeSpared == Spec => []OnlySignaturesChanged
<1>1. IInv => OnlySignaturesChanged
  BY DEF IInv
<1> QED BY <1>1, InitInv, StepInv, PTL DEF Spec

\* Every signature of the program is patched or lies in one that is.
THEOREM AllFound == Spec => []NoneMissed
<1>1. IInv => NoneMissed
  BY DEF IInv
<1> QED BY <1>1, InitInv, StepInv, PTL DEF Spec

\* With zeros behind a segment nothing there is changed: zero is in no
\* signature, so none that is found can reach across the end.
THEOREM BehindSpared == Spec => []InsideSegment
<1>1. IInv => InsideSegment
  <2> SUFFICES ASSUME IInv, \A a \in End..Top : orig[a] = Zero,
                      NEW a \in End..Top, mem[a] # Zero
               PROVE  FALSE
    BY DEF InsideSegment
  <2>1. First \in Nat /\ Top \in Nat
    BY WholeFirst, MemoryAssumption DEF IInv
  <2>2. End \in Nat
    BY MemoryAssumption DEF IInv, TypeOK, End, EndWord, FirstWord
  <2>3. a \in Addr
    BY <2>1, <2>2 DEF Addr
  <2>4. PICK h \in hits : a \in Span(h)
    BY <2>3 DEF IInv, OnlySignaturesChanged
  <2>5. h.at \in Nat /\ h.patch \in Patches /\ SigLen(h.patch) \in Nat
    BY WrittenShape DEF IInv, TypeOK
  <2> DEFINE s == a - h.at + 1
  <2>6. s \in 1..SigLen(h.patch) /\ h.at + s - 1 = a
    BY <2>2, <2>4, <2>5 DEF Span
  <2>7. orig[h.at + s - 1] \in Table[h.patch].sig[s]
    BY <2>6 DEF IInv, PatchesIntact
  <2>8. Zero \notin Table[h.patch].sig[s]
    BY <2>5, <2>6, TableAssumption
  <2> QED BY <2>6, <2>7, <2>8
<1> QED BY <1>1, InitInv, StepInv, PTL DEF Spec
-----------------------------------------------------------------------------
(* Where things end up in memory (module Layout).                           *)

\* Segments that have been loaded.
Loaded ==
  CASE status = "load" -> {i \in DOMAIN segs : i < next}
    [] status \in {"link", "run"} -> DOMAIN segs
    [] status \in {"maps", "failed"} -> {}

\* What was mapped before is still there while the loader reads the list.
HostsInv == status = "maps" => HostSafe /\ maps = <<>>

\* The pages of what is loaded are its own, and none lies below lowest[0].
SegmentsInv ==
  \A i \in Loaded :
    /\ \A p \in SegmentPages(segs[i]) :
         owner[p] = <<"seg", i>> \/ \E k \in Loaded : k > i /\ p \in SegmentPages(segs[k])
    /\ lowest[0] # None /\ lowest[0] <= Floor(segs[i].vaddr) * PageSize

\* The first area belongs to a page; the second one exists only for dynamic
\* programs and is for a map far above the first.
LowestInv ==
  /\ status \in {"maps", "load"} => lowest[1] = None /\ base = [a \in Areas |-> None]
  /\ status = "maps" => lowest[0] = None /\ next = 1
  /\ is_dl => segs = <<>>
  /\ status = "load" => ~is_dl /\ next > 0
  /\ lowest[0] # None => \E k \in 0..(Pages - 1) : lowest[0] = k * PageSize
  /\ lowest[1] # None =>
       /\ is_dl /\ lowest[0] # None
       /\ lowest[1] > lowest[0] + Far - Offset /\ lowest[1] <= Pages * PageSize

\* Areas are allocated in turn.
AllocInv ==
  \A a \in Areas : base[a] # None =>
    /\ status \in {"link", "run", "failed"} /\ (status = "link" => a < next)
    /\ lowest[a] # None /\ base[a] = LinkBase(a) /\ base[a] >= MinPage * PageSize
    /\ \A p \in LinkPagesAt(base[a]) : owner[p] = <<"link", a>>

LayoutInv ==
  LayoutTypeOK /\ HostsInv /\ ListedSafe /\ SegmentsInv /\ LowestInv /\ AllocInv
-----------------------------------------------------------------------------
\* Multiplication by a page size keeps the order.
LEMMA Scaled ==
  ASSUME NEW b \in Nat \ {0}, NEW x \in Int, NEW y \in Int
  PROVE  /\ x * b \in Int /\ y * b \in Int
         /\ x <= y <=> x * b <= y * b
         /\ x < y => x * b + b <= y * b
  OBVIOUS

\* Rounding to pages, downwards and upwards.
LEMMA Rounding ==
  ASSUME NEW x \in Int, NEW k \in Int
  PROVE  /\ Floor(x) \in Int /\ (k <= Floor(x) <=> k * PageSize <= x)
         /\ Ceil(x) \in Int /\ (Ceil(x) <= k <=> x <= k * PageSize)
         /\ Floor(k * PageSize) = k
<1> DEFINE b == PageSize
<1>0. b \in Nat \ {0}
  BY LayoutAssumption
<1> HIDE DEF b
<1>1. ASSUME NEW y \in Int
      PROVE  \E q \in Int : q = y \div b /\ q * b <= y /\ y < q * b + b
  BY <1>0
<1>2. ASSUME NEW y \in Int PROVE y \div b \in Int /\ (k <= y \div b <=> k * b <= y)
  <2>1. PICK q \in Int : q = y \div b /\ q * b <= y /\ y < q * b + b
    BY <1>1
  <2>2. k <= q <=> k * b <= y
    BY <1>0, <2>1, Scaled
  <2> QED BY <2>1, <2>2
<1>3. Floor(x) \in Int /\ (k <= Floor(x) <=> k * b <= x)
  BY <1>2 DEF Floor, b
<1>4. Ceil(x) \in Int /\ (Ceil(x) <= k <=> x <= k * b)
  <2>1. PICK q \in Int : q = (x + b - 1) \div b /\ q * b <= x + b - 1 /\ x + b - 1 < q * b + b
    BY <1>0, <1>1
  <2>2. Ceil(x) = q
    BY <2>1 DEF Ceil, b
  <2>3. ASSUME q <= k PROVE x <= k * b
    BY <1>0, <2>1, <2>3, Scaled
  <2>4. ASSUME k < q PROVE k * b < x
    <3>1. k * b + b <= q * b
      BY <1>0, <2>1, <2>4, Scaled
    <3> QED BY <1>0, <2>1, <3>1, Scaled
  <2> QED BY <2>1, <2>2, <2>3, <2>4, <1>0, Scaled
<1>5. Floor(k * PageSize) = k
  <2>1. k * b \in Int
    BY <1>0, Scaled
  <2>2. PICK q \in Int : q = (k * b) \div b /\ q * b <= k * b /\ k * b < q * b + b
    BY <2>1, <1>1
  <2>3. q = k
    <3>1. ~(q < k)
      BY <2>2, <1>0, Scaled
    <3>2. ~(k < q)
      BY <2>2, <1>0, Scaled
    <3> QED BY <3>1, <3>2, <2>2
  <2> QED BY <2>2, <2>3 DEF Floor, b
<1> QED BY <1>3, <1>4, <1>5 DEF b

\* What is in a sequence.
LEMMA Element ==
  ASSUME NEW S, NEW s \in Seq(S), NEW k \in DOMAIN s
  PROVE  s[k] \in S
  OBVIOUS

LEMMA SegmentFacts ==
  ASSUME LayoutTypeOK, NEW i \in DOMAIN segs
  PROVE  /\ segs[i].vaddr \in Nat /\ segs[i].memsz \in Nat \ {0}
         /\ Floor(segs[i].vaddr) \in 0..(Pages - 1)
         /\ \A p \in SegmentPages(segs[i]) :
              p \in 0..(Pages - 1) /\ Floor(segs[i].vaddr) <= p
<1>1. segs \in SegmentLists
  BY DEF LayoutTypeOK
<1>2. /\ \A k \in DOMAIN segs : segs[k].vaddr \in Nat /\ segs[k].memsz \in Nat \ {0}
      /\ segs[i].vaddr + segs[i].memsz <= Pages * PageSize
  <2>1. segs \in Seq([vaddr : Nat, memsz : Nat \ {0}])
    BY <1>1, LayoutAssumption
  <2>2. \A k \in DOMAIN segs : segs[k] \in [vaddr : Nat, memsz : Nat \ {0}]
    BY <2>1, Element
  <2>3. segs[i].vaddr + segs[i].memsz <= Pages * PageSize
    <3>1. \A list \in SegmentLists : \A j \in DOMAIN list :
            list[j].vaddr + list[j].memsz <= Pages * PageSize
      BY ONLY LayoutAssumption
    <3> QED BY <1>1, <3>1, Zenon
  <2> QED BY <2>2, <2>3
<1>3. \A k \in DOMAIN segs : /\ Floor(segs[k].vaddr) \in Int
                             /\ Ceil(segs[k].vaddr + segs[k].memsz) \in Int
  BY <1>2, Rounding
<1>4. /\ 0 <= Floor(segs[i].vaddr) /\ Ceil(segs[i].vaddr + segs[i].memsz) <= Pages
      /\ ~(Pages <= Floor(segs[i].vaddr))
  <2>1. 0 * PageSize = 0 /\ Pages \in Int /\ Pages * PageSize \in Int
    BY LayoutAssumption
  <2> QED BY <1>2, <2>1, Rounding
<1> QED BY <1>2, <1>3, <1>4, LayoutAssumption DEF SegmentPages

LEMMA ListFacts ==
  ASSUME LayoutTypeOK, NEW j \in DOMAIN proc
  PROVE  /\ proc[j].first \in Nat /\ proc[j].last \in 0..(Pages - 1)
         /\ proc[j].first <= proc[j].last
         /\ \A k \in DOMAIN proc : k # j => PagesOf(proc[j]) \cap PagesOf(proc[k]) = {}
         /\ 1 \in DOMAIN proc /\ proc[1].first <= proc[j].first
<1>1. proc \in MapLists /\ proc \in Seq([first : Nat, last : 0..(Pages - 1), named : BOOLEAN])
  BY LayoutAssumption DEF LayoutTypeOK
<1>2. /\ \A k \in DOMAIN proc : /\ proc[k].first \in Nat /\ proc[k].last \in 0..(Pages - 1)
                                /\ proc[k].first <= proc[k].last
      /\ \A k, l \in DOMAIN proc : k < l => proc[k].last < proc[l].first
  <2>1. \A k \in DOMAIN proc : proc[k] \in [first : Nat, last : 0..(Pages - 1), named : BOOLEAN]
    BY <1>1, Element
  <2>2. \A k \in DOMAIN proc : /\ proc[k].first <= proc[k].last
                               /\ \A l \in DOMAIN proc : k < l => proc[k].last < proc[l].first
    <3>1. \A list \in MapLists : \A k \in DOMAIN list :
            /\ list[k].first <= list[k].last
            /\ \A l \in DOMAIN list : k < l => list[k].last < list[l].first
      BY ONLY LayoutAssumption
    <3> QED BY <1>1, <3>1, Zenon
  <2> QED BY <2>1, <2>2
<1>3. j \in Nat /\ j >= 1 /\ 1 \in DOMAIN proc /\ \A k \in DOMAIN proc : k \in Int
  BY <1>1
<1>4. ASSUME NEW k \in DOMAIN proc, k # j
      PROVE  PagesOf(proc[j]) \cap PagesOf(proc[k]) = {}
  <2>1. CASE k < j
    BY <2>1, <1>2 DEF PagesOf
  <2>2. CASE j < k
    BY <2>2, <1>2 DEF PagesOf
  <2> QED BY <1>3, <1>4, <2>1, <2>2
<1>5. proc[1].first <= proc[j].first
  <2>1. CASE j = 1
    BY <2>1, <1>2
  <2>2. CASE 1 < j
    <3>1. proc[1].last < proc[j].first
      BY <2>2, <1>2, <1>3
    <3> QED BY <3>1, <1>2, <1>3
  <2> QED BY <2>1, <2>2, <1>3
<1> QED BY <1>2, <1>3, <1>4, <1>5

\* What has been read is the beginning of the list.
LEMMA ReadFacts ==
  ASSUME NEW n \in Nat, proc \in Seq([first : Nat, last : 0..(Pages - 1), named : BOOLEAN]),
         n <= Len(proc), NEW m, m = SubSeq(proc, 1, n)
  PROVE  Len(m) = n /\ \A j \in DOMAIN m : j \in DOMAIN proc /\ m[j] = proc[j]
  OBVIOUS

\* A segment that is not refused shares no page with what is listed, although
\* the check is made on its bytes.
LEMMA UnusedApart ==
  ASSUME LayoutTypeOK, NEW i \in DOMAIN segs, ~RangeUsed(segs[i]), NEW j \in DOMAIN maps,
         maps[j].first \in Nat, maps[j].last \in Nat
  PROVE  SegmentPages(segs[i]) \cap PagesOf(maps[j]) = {}
<1> DEFINE v == segs[i].vaddr  e == segs[i].vaddr + segs[i].memsz
           f == maps[j].first  l == maps[j].last
<1>1. v \in Nat /\ e \in Nat
  BY SegmentFacts
<1>2. e <= f * PageSize \/ (l + 1) * PageSize <= v
  <2>1. f * PageSize \in Int /\ (l + 1) * PageSize \in Int
    BY LayoutAssumption, Scaled
  <2> QED BY <1>1, <2>1 DEF RangeUsed
<1>3. Ceil(e) \in Int /\ Floor(v) \in Int /\ f \in Int /\ l \in Int
  BY <1>1, Rounding
<1>4. Ceil(e) <= f \/ l + 1 <= Floor(v)
  BY <1>1, <1>2, <1>3, Rounding
<1>5. SegmentPages(segs[i]) = Floor(v)..(Ceil(e) - 1) /\ PagesOf(maps[j]) = f..l
  BY DEF SegmentPages, PagesOf
<1> HIDE DEF v, e, f, l
<1> QED BY <1>3, <1>4, <1>5

\* The link pages of an area lie within LINKPAGE_ALLOC bytes, below the page
\* they are for.
LEMMA LinkFacts ==
  ASSUME NEW a \in Areas, lowest[a] \in Int, LinkBase(a) >= MinPage * PageSize
  PROVE  /\ LinkBase(a) \in Nat /\ LinkBase(a) + LINKPAGE_ALLOC <= lowest[a]
         /\ lowest[a] < LinkBase(a) + LINKPAGE_ALLOC + PageSize
         /\ \A p \in LinkPagesAt(LinkBase(a)) :
              p \in Nat /\ LinkBase(a) <= p * PageSize
              /\ p * PageSize + PageSize <= LinkBase(a) + LINKPAGE_ALLOC
<1> DEFINE b == PageSize  k == Floor(lowest[a] - LINKPAGE_ALLOC)
           n == LINKPAGE_ALLOC \div PageSize
<1>1. b \in Nat \ {0} /\ MinPage \in Nat /\ LINKPAGE_ALLOC \in Nat
  BY LayoutAssumption
<1>2. n \in Nat /\ n * b = LINKPAGE_ALLOC
  <2>1. ASSUME NEW x \in Nat, x % b = 0 PROVE x \div b \in Nat /\ (x \div b) * b = x
    BY <1>1, <2>1
  <2> QED BY <2>1, LayoutAssumption
<1>3. k \in Int /\ k * b <= lowest[a] - LINKPAGE_ALLOC
      /\ lowest[a] - LINKPAGE_ALLOC < (k + 1) * b
  <2>0. lowest[a] - LINKPAGE_ALLOC \in Int
    BY <1>1
  <2>1. lowest[a] - LINKPAGE_ALLOC \in Int /\ k \in Int
    BY <2>0, Rounding
  <2>2. k * b <= lowest[a] - LINKPAGE_ALLOC
    BY <2>1, Rounding
  <2>3. ~((k + 1) * b <= lowest[a] - LINKPAGE_ALLOC)
    BY <2>1, Rounding
  <2>4. (k + 1) * b \in Int /\ k * b \in Int
    BY <1>1, <2>1, Scaled
  <2> QED BY <2>1, <2>2, <2>3, <2>4, <1>1
<1>4. LinkBase(a) = k * b /\ Floor(LinkBase(a)) = k
  BY <1>3, Rounding DEF LinkBase
<1>5. LinkPagesAt(LinkBase(a)) = k..(k + n - 1)
  BY <1>4 DEF LinkPagesAt
<1> HIDE DEF b, k, n
<1>6. k * b \in Int /\ MinPage * b >= 0 /\ k * b >= MinPage * b /\ (k + 1) * b = k * b + b
  BY <1>1, <1>3, <1>4 DEF b
<1>7. k \in Nat
  BY <1>1, <1>3, <1>6, Scaled
<1>8. ASSUME NEW p \in k..(k + n - 1)
      PROVE  p \in Nat /\ k * b <= p * b /\ p * b + b <= k * b + LINKPAGE_ALLOC
  <2>1. p \in Nat /\ k <= p /\ p < k + n
    BY <1>2, <1>7, <1>8
  <2>2. (k + n) * b = k * b + n * b
    BY <1>1, <1>2, <1>7
  <2>3. k * b <= p * b /\ p * b + b <= (k + n) * b
    BY <1>1, <1>2, <1>7, <2>1, Scaled
  <2> QED BY <1>2, <2>1, <2>2, <2>3
<1>9. LinkBase(a) \in Nat /\ (k + 1) * b = LinkBase(a) + b
  BY <1>1, <1>4, <1>6, <1>7
<1>10. \A p \in LinkPagesAt(LinkBase(a)) :
         p \in Nat /\ LinkBase(a) <= p * b /\ p * b + b <= LinkBase(a) + LINKPAGE_ALLOC
  BY <1>4, <1>5, <1>8
<1>11. LinkBase(a) + LINKPAGE_ALLOC <= lowest[a] /\ lowest[a] < LinkBase(a) + LINKPAGE_ALLOC + b
  BY <1>1, <1>3, <1>4, <1>9
<1> QED BY <1>9, <1>10, <1>11 DEF b

-----------------------------------------------------------------------------
\* A failure changes only the status.
LEMMA FailKeeps ==
  ASSUME LayoutInv, Fail
  PROVE  LayoutInv'
<1>1. /\ status' = "failed" /\ is_dl' = is_dl /\ proc' = proc /\ segs' = segs /\ maps' = maps
      /\ next' = next /\ lowest' = lowest /\ base' = base /\ owner' = owner
  BY DEF Fail, input
<1>2. LayoutTypeOK'
  BY <1>1 DEF LayoutInv, LayoutTypeOK
<1>3. HostsInv' /\ ListedSafe' /\ SegmentsInv'
  BY <1>1 DEF HostsInv, ListedSafe, SegmentsInv, Loaded
<1>4. LowestInv'
  BY <1>1 DEF LayoutInv, LowestInv
<1>5. AllocInv'
  <2>1. \A a \in Areas : LinkBase(a)' = LinkBase(a)
    BY <1>1 DEF LinkBase
  <2> QED BY <1>1, <2>1 DEF LayoutInv, AllocInv
<1> QED BY <1>2, <1>3, <1>4, <1>5 DEF LayoutInv

LEMMA LayoutStart == LayoutInit => LayoutInv
<1> SUFFICES ASSUME LayoutInit PROVE LayoutInv
  OBVIOUS
<1>1. /\ is_dl \in BOOLEAN /\ proc \in MapLists /\ segs \in SegmentLists \cup {<<>>}
      /\ maps = <<>> /\ next = 1 /\ status = "maps" /\ DOMAIN owner = 0..(Pages - 1)
      /\ lowest = [a \in Areas |-> None] /\ base = [a \in Areas |-> None]
  BY DEF LayoutInit
<1>2. proc \in Seq([first : Nat, last : 0..(Pages - 1), named : BOOLEAN])
  BY <1>1, LayoutAssumption
<1>3. LayoutTypeOK
  <2>1. maps = SubSeq(proc, 1, 0) /\ 0 \in 0..Len(proc) /\ Len(maps) = 0
    BY <1>1, <1>2
  <2>2. lowest \in [Areas -> Int] /\ base \in [Areas -> Int]
    BY <1>1 DEF None
  <2>3. maps \in {SubSeq(proc, 1, n) : n \in 0..Len(proc)} /\ Len(maps) < MaxMaps
    BY <2>1, LayoutAssumption
  <2> QED BY <1>1, <2>2, <2>3 DEF LayoutTypeOK
<1>4. HostSafe
  <2> SUFFICES ASSUME NEW j \in DOMAIN proc, NEW p \in PagesOf(proc[j])
               PROVE  owner[p] = <<"host", j>>
    BY DEF HostSafe
  <2>1. p \in 0..(Pages - 1)
    BY <1>3, ListFacts, LayoutAssumption DEF PagesOf
  <2>2. \A k \in DOMAIN proc : p \in PagesOf(proc[k]) => k = j
    BY <1>3, ListFacts
  <2>3. (CHOOSE k \in DOMAIN proc : p \in PagesOf(proc[k])) = j
    BY <2>2
  <2> QED BY <2>1, <2>3 DEF LayoutInit
<1>5. DOMAIN maps = {}
  BY <1>1
<1>6. HostsInv /\ ListedSafe
  BY <1>1, <1>4, <1>5 DEF HostsInv, ListedSafe
<1>7. SegmentsInv
  BY <1>1 DEF SegmentsInv, Loaded
<1>8. LowestInv
  <2>1. is_dl => segs = <<>>
    BY DEF LayoutInit
  <2> QED BY <1>1, <2>1 DEF LowestInv, Areas
<1>9. AllocInv
  BY <1>1 DEF AllocInv
<1> QED BY <1>3, <1>6, <1>7, <1>8, <1>9 DEF LayoutInv

LEMMA LinesReadType ==
  ASSUME LayoutTypeOK
  PROVE  LinesRead \in 0..Len(proc) /\ Len(proc) \in Nat
<1> DEFINE unnamed == {j \in DOMAIN proc : ~proc[j].named}
<1>1. proc \in Seq([first : Nat, last : 0..(Pages - 1), named : BOOLEAN])
  BY LayoutAssumption DEF LayoutTypeOK
<1>2. Len(proc) \in Nat /\ DOMAIN proc = 1..Len(proc)
  BY <1>1
<1>3. CASE unnamed = {}
  BY <1>2, <1>3 DEF LinesRead
<1>4. CASE unnamed # {}
  <2>1. Smallest(unnamed) \in unnamed
    <3>1. unnamed \in SUBSET Nat
      BY <1>2
    <3> QED BY <1>4, <3>1, LeastOf DEF Smallest
  <2> QED BY <1>2, <1>4, <2>1 DEF LinesRead
<1> QED BY <1>3, <1>4

LEMMA ReadMapsKeeps ==
  ASSUME LayoutInv, ReadMaps
  PROVE  LayoutInv'
<1> DEFINE n == IF LinesRead < MaxMaps THEN LinesRead ELSE MaxMaps
<1> SUFFICES ASSUME n # 0, n # MaxMaps, maps' = SubSeq(proc, 1, n), status' = "load",
                    UNCHANGED <<input, next, lowest, base, owner>>
             PROVE  LayoutInv'
  BY FailKeeps DEF ReadMaps
<1> USE DEF LayoutInv
<1>1. n \in 0..Len(proc) /\ n \in Nat /\ n < MaxMaps
  BY LinesReadType, LayoutAssumption
<1> HIDE DEF n
<1>2. /\ status = "maps" /\ ~is_dl /\ is_dl' = is_dl /\ proc' = proc /\ segs' = segs
      /\ next' = next /\ lowest' = lowest /\ base' = base /\ owner' = owner
      /\ next = 1 /\ lowest[0] = None /\ lowest[1] = None
      /\ base = [a \in Areas |-> None]
  BY DEF ReadMaps, input, LowestInv
<1>3. proc \in Seq([first : Nat, last : 0..(Pages - 1), named : BOOLEAN])
  BY LayoutAssumption DEF LayoutTypeOK
<1>4. Len(maps') = n /\ \A j \in DOMAIN maps' : j \in DOMAIN proc /\ maps'[j] = proc[j]
  BY <1>1, <1>3, ReadFacts
<1>5. LayoutTypeOK'
  BY <1>1, <1>2, <1>4 DEF LayoutTypeOK
<1>6. ListedSafe'
  BY <1>2, <1>4 DEF ListedSafe, HostsInv, HostSafe
<1>7. Loaded' = {}
  <2>1. \A i \in DOMAIN segs : ~(i < 1)
    BY LayoutAssumption DEF LayoutTypeOK
  <2> QED BY <1>2, <2>1 DEF Loaded
<1>8. HostsInv' /\ SegmentsInv' /\ LowestInv'
  BY <1>2, <1>7 DEF HostsInv, SegmentsInv, LowestInv
<1>9. AllocInv'
  BY <1>2 DEF AllocInv, Areas
<1> QED BY <1>5, <1>6, <1>8, <1>9

LEMMA LoadSegmentKeeps ==
  ASSUME LayoutInv, LoadSegment
  PROVE  LayoutInv'
<1> DEFINE f == Floor(segs[next].vaddr)
<1> USE DEF LayoutInv
<1>1. /\ status = "load" /\ next \in DOMAIN segs /\ ~RangeUsed(segs[next])
      /\ owner' = MapFixed(SegmentPages(segs[next]), <<"seg", next>>)
      /\ lowest' = [lowest EXCEPT ![0] = Lower(@, f * PageSize)]
      /\ next' = next + 1 /\ is_dl' = is_dl /\ proc' = proc /\ segs' = segs
      /\ maps' = maps /\ base' = base /\ status' = status
  BY DEF LoadSegment, input
<1>2. /\ f \in 0..(Pages - 1) /\ f * PageSize \in Int /\ f * PageSize # None
  <2>1. f \in 0..(Pages - 1)
    BY <1>1, SegmentFacts
  <2>2. f \in Int /\ f * PageSize \in Int /\ 0 * PageSize <= f * PageSize /\ 0 * PageSize = 0
    BY <2>1, Scaled, LayoutAssumption
  <2> QED BY <2>1, <2>2 DEF None
<1> HIDE DEF f
<1>3. /\ lowest \in [Areas -> Int] /\ next \in Nat /\ next > 0
  BY <1>1 DEF LayoutTypeOK, LowestInv
<1>4. /\ lowest' \in [Areas -> Int] /\ lowest'[1] = lowest[1]
      /\ lowest'[0] = IF lowest[0] = None \/ f * PageSize < lowest[0] THEN f * PageSize
                      ELSE lowest[0]
  BY <1>1, <1>2, <1>3 DEF Lower, Areas
<1>5. LayoutTypeOK'
  BY <1>1, <1>3, <1>4 DEF LayoutTypeOK, MapFixed
<1>6. ListedSafe'
  <2> SUFFICES ASSUME NEW j \in DOMAIN maps, NEW p \in PagesOf(maps[j])
               PROVE  owner'[p] = <<"host", j>>
    BY <1>1 DEF ListedSafe
  <2>1. maps[j].first \in Nat /\ maps[j].last \in 0..(Pages - 1)
    <3>1. PICK n \in 0..Len(proc) : maps = SubSeq(proc, 1, n)
      BY DEF LayoutTypeOK
    <3>2. proc \in Seq([first : Nat, last : 0..(Pages - 1), named : BOOLEAN])
      BY LayoutAssumption DEF LayoutTypeOK
    <3>3. j \in DOMAIN proc /\ maps[j] = proc[j]
      BY <3>1, <3>2, ReadFacts
    <3> QED BY <3>3, ListFacts
  <2>2. p \in 0..(Pages - 1)
    BY <2>1, LayoutAssumption DEF PagesOf
  <2>3. p \notin SegmentPages(segs[next])
    BY <1>1, <2>1, UnusedApart
  <2>4. owner[p] = <<"host", j>>
    BY <1>1 DEF ListedSafe
  <2> QED BY <1>1, <2>2, <2>3, <2>4 DEF MapFixed, LayoutTypeOK
<1>7. SegmentsInv'
  <2> SUFFICES ASSUME NEW i \in DOMAIN segs, i < next + 1
               PROVE  /\ \A p \in SegmentPages(segs[i]) :
                           \/ owner'[p] = <<"seg", i>>
                           \/ \E k \in Loaded' : k > i /\ p \in SegmentPages(segs[k])
                      /\ lowest'[0] # None /\ lowest'[0] <= Floor(segs[i].vaddr) * PageSize
    BY <1>1 DEF SegmentsInv, Loaded
  <2>1. \A p \in SegmentPages(segs[i]) : p \in DOMAIN owner
    BY SegmentFacts DEF LayoutTypeOK
  <2>2. CASE i = next
    <3>1. \A p \in SegmentPages(segs[i]) : owner'[p] = <<"seg", i>>
      BY <1>1, <2>1, <2>2 DEF MapFixed
    <3> QED BY <1>2, <1>3, <1>4, <2>2, <3>1 DEF f, Areas
  <2>3. CASE i # next
    <3>1. i \in Int
      BY LayoutAssumption DEF LayoutTypeOK
    <3>2. i \in Loaded
      BY <1>1, <1>3, <2>3, <3>1 DEF Loaded
    <3>3. next \in Loaded' /\ next > i /\ Loaded \subseteq Loaded'
      <4>1. \A k \in DOMAIN segs : k \in Int
        <5>1. segs \in Seq([vaddr : Nat, memsz : Nat \ {0}])
          BY <1>1, LayoutAssumption DEF LayoutTypeOK
        <5> QED BY <5>1
      <4>2. i < next /\ next < next + 1 /\ \A k \in DOMAIN segs : k < next => k < next + 1
        BY <1>1, <1>3, <2>3, <3>1, <3>2, <4>1 DEF Loaded
      <4> QED BY <1>1, <4>2 DEF Loaded
    <3>4. ASSUME NEW p \in SegmentPages(segs[i])
          PROVE  \/ owner'[p] = <<"seg", i>>
                 \/ \E k \in Loaded' : k > i /\ p \in SegmentPages(segs[k])
      <4>1. CASE p \in SegmentPages(segs[next])
        BY <3>3, <4>1
      <4>2. CASE p \notin SegmentPages(segs[next])
        <5>1. owner'[p] = owner[p]
          BY <1>1, <2>1, <4>2 DEF MapFixed
        <5>2. \/ owner[p] = <<"seg", i>>
              \/ \E k \in Loaded : k > i /\ p \in SegmentPages(segs[k])
          BY <3>2 DEF SegmentsInv
        <5> QED BY <3>3, <5>1, <5>2
      <4> QED BY <4>1, <4>2
    <3>5. lowest[0] # None /\ lowest[0] <= Floor(segs[i].vaddr) * PageSize
      BY <3>2 DEF SegmentsInv
    <3>6. Floor(segs[i].vaddr) * PageSize \in Int
      BY SegmentFacts, LayoutAssumption, Scaled
    <3> QED BY <1>2, <1>3, <1>4, <3>4, <3>5, <3>6 DEF Areas
  <2> QED BY <2>2, <2>3
<1>8. LowestInv'
  BY <1>1, <1>2, <1>3, <1>4 DEF LowestInv
<1>9. HostsInv' /\ AllocInv'
  BY <1>1 DEF HostsInv, AllocInv, LowestInv
<1> QED BY <1>5, <1>6, <1>7, <1>8, <1>9

LEMMA AllLoadedKeeps ==
  ASSUME LayoutInv, AllLoaded
  PROVE  LayoutInv'
<1> USE DEF LayoutInv
<1>1. /\ status = "load" /\ next \notin DOMAIN segs /\ status' = "link" /\ next' = 0
      /\ is_dl' = is_dl /\ proc' = proc /\ segs' = segs /\ maps' = maps
      /\ lowest' = lowest /\ base' = base /\ owner' = owner
  BY DEF AllLoaded, input
<1>2. \A i \in DOMAIN segs : i < next
  <2>1. segs \in Seq([vaddr : Nat, memsz : Nat \ {0}])
    <3>1. segs \in SegmentLists \/ segs = <<>>
      BY DEF LayoutTypeOK
    <3>2. SegmentLists \subseteq Seq([vaddr : Nat, memsz : Nat \ {0}])
      BY LayoutAssumption
    <3>3. \A S : <<>> \in Seq(S)
      OBVIOUS
    <3> QED BY <3>1, <3>2, <3>3, Zenon
  <2>2. next \in Nat /\ next > 0
    BY <1>1 DEF LayoutTypeOK, LowestInv
  <2> QED BY <1>1, <2>1, <2>2
<1>3. Loaded' = Loaded
  BY <1>1, <1>2 DEF Loaded
<1>4. LayoutTypeOK' /\ HostsInv' /\ ListedSafe'
  BY <1>1 DEF LayoutTypeOK, HostsInv, ListedSafe
<1>5. SegmentsInv' /\ LowestInv'
  BY <1>1, <1>3 DEF SegmentsInv, LowestInv
<1>6. AllocInv'
  BY <1>1 DEF AllocInv, LowestInv
<1> QED BY <1>4, <1>5, <1>6

LEMMA ScanMapsKeeps ==
  ASSUME LayoutInv, ScanMaps
  PROVE  LayoutInv'
<1> DEFINE start(j) == proc[j].first * PageSize
           far == {j \in Examined : start(j) - start(1) > Far}
<1> SUFFICES ASSUME proc # <<>>,
                    lowest' = [a \in Areas |->
                      IF a = 0 THEN start(1)
                      ELSE IF far = {} THEN None ELSE start(Smallest(far)) - Offset],
                    status' = "link", next' = 0, UNCHANGED <<input, maps, base, owner>>
             PROVE  LayoutInv'
  BY FailKeeps DEF ScanMaps
<1> USE DEF LayoutInv
<1>1. /\ status = "maps" /\ is_dl /\ is_dl' = is_dl /\ proc' = proc /\ segs' = segs
      /\ maps' = maps /\ base' = base /\ owner' = owner
      /\ base = [a \in Areas |-> None] /\ segs = <<>> /\ lowest \in [Areas -> Int]
  BY DEF ScanMaps, input, LowestInv, LayoutTypeOK
<1>2. proc \in Seq([first : Nat, last : 0..(Pages - 1), named : BOOLEAN])
  BY LayoutAssumption DEF LayoutTypeOK
<1>3. 1 \in DOMAIN proc /\ far \in SUBSET Nat /\ far \subseteq DOMAIN proc
  BY <1>2 DEF Examined
<1>4. ASSUME NEW j \in DOMAIN proc
      PROVE  start(j) \in Nat /\ start(j) <= Pages * PageSize /\ Pages * PageSize \in Int
             /\ proc[j].first \in 0..(Pages - 1)
  <2>1. proc[j].first \in 0..(Pages - 1)
    BY <1>4, ListFacts, LayoutAssumption
  <2>2. proc[j].first \in Int /\ Pages \in Int /\ 0 <= proc[j].first /\ proc[j].first <= Pages
    BY <2>1, LayoutAssumption
  <2>3. 0 * PageSize <= start(j) /\ start(j) <= Pages * PageSize /\ 0 * PageSize = 0
        /\ start(j) \in Int /\ Pages * PageSize \in Int
    BY <2>2, LayoutAssumption, Scaled
  <2> QED BY <2>1, <2>3
<1>5. far # {} => Smallest(far) \in far
  BY <1>3, LeastOf DEF Smallest
<1>6. /\ lowest'[0] = start(1) /\ start(1) \in Nat
      /\ \E k \in 0..(Pages - 1) : lowest'[0] = k * PageSize
  BY <1>3, <1>4 DEF Areas
<1>7. /\ lowest'[1] \in Int
      /\ lowest'[1] # None => /\ lowest'[1] > lowest'[0] + Far - Offset
                              /\ lowest'[1] <= Pages * PageSize
  <2>1. CASE far = {}
    BY <2>1 DEF Areas, None
  <2>2. CASE far # {}
    <3> DEFINE s == start(Smallest(far))
    <3>1. /\ s \in Nat /\ s <= Pages * PageSize /\ Pages * PageSize \in Int
          /\ s - start(1) > Far
      BY <2>2, <1>3, <1>4, <1>5
    <3>2. lowest'[1] = s - Offset
      BY <2>2 DEF Areas
    <3> DEFINE e == Pages * PageSize
    <3>3. s \in Nat /\ s <= e /\ e \in Int /\ s - start(1) > Far
      BY <3>1
    <3> HIDE DEF s, e
    <3>4. Far \in Nat /\ Offset \in Nat /\ lowest'[0] = start(1) /\ start(1) \in Nat
      BY <1>6, LayoutAssumption
    <3>5. s - Offset \in Int /\ s - Offset <= e /\ s - Offset > start(1) + Far - Offset
      BY <3>3, <3>4
    <3>6. /\ lowest'[1] \in Int /\ lowest'[1] <= e
          /\ lowest'[1] > lowest'[0] + Far - Offset
      BY <3>2, <3>4, <3>5
    <3> QED BY <3>6 DEF e
  <2> QED BY <2>1, <2>2
<1>8. lowest' \in [Areas -> Int]
  <2>1. lowest'[0] \in Int
    BY <1>6
  <2>2. \A a \in Areas : a = 0 \/ a = 1
    BY DEF Areas
  <2> QED BY <1>7, <2>1, <2>2
<1> HIDE DEF start, far
<1>9. LayoutTypeOK' /\ HostsInv' /\ ListedSafe'
  BY <1>1, <1>8 DEF LayoutTypeOK, HostsInv, ListedSafe
<1>10. SegmentsInv'
  BY <1>1 DEF SegmentsInv, Loaded
<1>11. LowestInv'
  <2>1. lowest'[0] # None
    BY <1>6 DEF None
  <2>2. status' = "link" /\ is_dl' /\ segs' = <<>>
    BY <1>1
  <2> QED BY <1>6, <1>7, <2>1, <2>2, Zenon DEF LowestInv
<1>12. AllocInv'
  BY <1>1 DEF AllocInv
<1> QED BY <1>9, <1>10, <1>11, <1>12

\* The second area begins above the page of the first one.
LEMMA SecondAbove ==
  ASSUME LayoutInv, lowest[1] # None, LinkBase(1) >= MinPage * PageSize
  PROVE  lowest[0] # None /\ LinkBase(1) > lowest[0]
<1>1. /\ lowest[0] \in Int /\ lowest[1] \in Int /\ lowest[0] # None
      /\ lowest[1] > lowest[0] + Far - Offset
  BY DEF LayoutInv, LayoutTypeOK, LowestInv, Areas
<1>2. LinkBase(1) \in Nat /\ lowest[1] < LinkBase(1) + LINKPAGE_ALLOC + PageSize
  BY <1>1, LinkFacts DEF Areas
<1> QED BY <1>1, <1>2, LayoutAssumption

LEMMA AllocLinkpagesKeeps ==
  ASSUME LayoutInv, AllocLinkpages
  PROVE  LayoutInv'
<1> DEFINE b == LinkBase(next)
<1> USE DEF LayoutInv
<1>1. /\ status = "link" /\ next \in Areas /\ lowest[next] # None /\ b >= MinPage * PageSize
      /\ base' = [base EXCEPT ![next] = b]
      /\ owner' = MapFixed(LinkPagesAt(b), <<"link", next>>)
      /\ next' = next + 1 /\ is_dl' = is_dl /\ proc' = proc /\ segs' = segs
      /\ maps' = maps /\ lowest' = lowest /\ status' = status
  BY DEF AllocLinkpages, input
<1>2. /\ lowest \in [Areas -> Int] /\ lowest[next] \in Int /\ next \in {0, 1}
      /\ base \in [Areas -> Int] /\ DOMAIN owner = 0..(Pages - 1)
  BY <1>1 DEF LayoutTypeOK, Areas
<1>3. /\ b \in Nat /\ b + LINKPAGE_ALLOC <= lowest[next]
      /\ \A q \in LinkPagesAt(b) :
           q \in Nat /\ b <= q * PageSize /\ q * PageSize + PageSize <= b + LINKPAGE_ALLOC
  BY <1>1, <1>2, LinkFacts
<1>4. lowest[next] <= Pages * PageSize /\ Pages * PageSize \in Int
  <2>1. Pages * PageSize \in Int
    BY LayoutAssumption, Scaled
  <2>2. CASE next = 1
    BY <1>1, <2>1, <2>2 DEF LowestInv
  <2>3. CASE next = 0
    <3>1. PICK k \in 0..(Pages - 1) : lowest[0] = k * PageSize
      BY <1>1, <2>3 DEF LowestInv
    <3>2. k * PageSize <= Pages * PageSize
      BY <3>1, LayoutAssumption, Scaled
    <3> QED BY <2>1, <2>3, <3>1, <3>2
  <2> QED BY <1>2, <2>2, <2>3
<1>5. ASSUME NEW q \in LinkPagesAt(b) PROVE q \in DOMAIN owner
  <2>1. q \in Nat /\ q * PageSize < Pages * PageSize
    <3>1. q \in Nat /\ q * PageSize + PageSize <= b + LINKPAGE_ALLOC /\ q * PageSize \in Int
      BY <1>3, <1>5, LayoutAssumption, Scaled
    <3>2. PageSize \in Nat \ {0} /\ LINKPAGE_ALLOC \in Nat
      BY LayoutAssumption
    <3>3. b \in Nat /\ b + LINKPAGE_ALLOC <= lowest[next] /\ lowest[next] \in Int
      BY <1>2, <1>3
    <3> QED BY ONLY <1>4, <3>1, <3>2, <3>3
  <2>2. ~(Pages <= q)
    BY <2>1, LayoutAssumption, Scaled
  <2> QED BY <1>2, <2>1, <2>2, LayoutAssumption
<1>6. ASSUME NEW i \in Loaded, NEW p \in SegmentPages(segs[i])
      PROVE  p \notin LinkPagesAt(b)
  <2>1. i \in DOMAIN segs /\ lowest[0] # None /\ lowest[0] <= Floor(segs[i].vaddr) * PageSize
    BY <1>1 DEF Loaded, SegmentsInv
  <2>2. p \in Int /\ Floor(segs[i].vaddr) \in Int /\ Floor(segs[i].vaddr) <= p
    BY <1>6, <2>1, SegmentFacts
  <2>3. next = 0
    <3>1. is_dl => DOMAIN segs = {}
      BY DEF LowestInv
    <3> QED BY <1>1, <1>2, <2>1, <3>1 DEF LowestInv
  <2>4. Floor(segs[i].vaddr) * PageSize <= p * PageSize
        /\ p * PageSize \in Int /\ Floor(segs[i].vaddr) * PageSize \in Int
    BY <2>2, LayoutAssumption, Scaled
  <2>5. lowest[0] <= p * PageSize
    BY <1>2, <2>1, <2>3, <2>4
  <2> SUFFICES ASSUME p \in LinkPagesAt(b) PROVE FALSE
    OBVIOUS
  <2>6. p * PageSize + PageSize <= b + LINKPAGE_ALLOC
    BY <1>3
  <2> QED BY <1>2, <1>3, <2>3, <2>4, <2>5, <2>6, LayoutAssumption
<1>7. ASSUME NEW a \in Areas, base[a] # None, NEW p \in LinkPagesAt(base[a])
      PROVE  p \notin LinkPagesAt(b)
  <2>1. a = 0 /\ next = 1 /\ lowest[0] # None /\ base[0] = LinkBase(0)
        /\ base[0] >= MinPage * PageSize
    BY <1>1, <1>2, <1>7 DEF AllocInv, Areas
  <2>2. /\ p \in Nat /\ base[0] \in Nat /\ base[0] + LINKPAGE_ALLOC <= lowest[0]
        /\ p * PageSize + PageSize <= base[0] + LINKPAGE_ALLOC
    <3>1. lowest[0] \in Int /\ 0 \in Areas
      BY <1>2 DEF Areas
    <3> QED BY <1>7, <2>1, <3>1, LinkFacts
  <2>3. b > lowest[0]
    BY <1>1, <2>1, SecondAbove
  <2> SUFFICES ASSUME p \in LinkPagesAt(b) PROVE FALSE
    OBVIOUS
  <2>4. b <= p * PageSize /\ p * PageSize \in Int /\ lowest[0] \in Int
    BY <1>2, <1>3, <2>2, LayoutAssumption, Scaled DEF Areas
  <2> QED BY <1>3, <2>2, <2>3, <2>4, LayoutAssumption
<1> HIDE DEF b
<1>8. LayoutTypeOK' /\ HostsInv' /\ ListedSafe'
  <2>1. base' \in [Areas -> Int] /\ next' \in Nat
    BY <1>1, <1>2, <1>3
  <2>2. DOMAIN owner' = 0..(Pages - 1)
    BY <1>1, <1>2 DEF MapFixed
  <2>3. LayoutTypeOK'
    BY <1>1, <2>1, <2>2 DEF LayoutTypeOK
  <2> QED BY <1>1, <2>3 DEF HostsInv, ListedSafe
<1>9. SegmentsInv'
  <2> SUFFICES ASSUME NEW i \in Loaded
               PROVE  /\ \A p \in SegmentPages(segs[i]) :
                           \/ owner'[p] = <<"seg", i>>
                           \/ \E k \in Loaded : k > i /\ p \in SegmentPages(segs[k])
                      /\ lowest[0] # None /\ lowest[0] <= Floor(segs[i].vaddr) * PageSize
    BY <1>1 DEF SegmentsInv, Loaded
  <2>1. \A p \in SegmentPages(segs[i]) : p \in DOMAIN owner
    <3>1. i \in DOMAIN segs
      BY <1>1 DEF Loaded
    <3> QED BY <1>2, <3>1, SegmentFacts
  <2>2. ASSUME NEW p \in SegmentPages(segs[i]) PROVE owner'[p] = owner[p]
    BY <1>1, <1>6, <2>1 DEF MapFixed
  <2> QED BY <2>2 DEF SegmentsInv
<1>10. LowestInv'
  BY <1>1 DEF LowestInv
<1>11. AllocInv'
  <2>1. \A a \in Areas : LinkBase(a)' = LinkBase(a)
    BY <1>1 DEF LinkBase
  <2> SUFFICES ASSUME NEW a \in Areas, base'[a] # None
               PROVE  /\ a < next + 1 /\ lowest[a] # None /\ base'[a] = LinkBase(a)
                      /\ base'[a] >= MinPage * PageSize
                      /\ \A p \in LinkPagesAt(base'[a]) : owner'[p] = <<"link", a>>
    BY <1>1, <2>1 DEF AllocInv
  <2>2. CASE a = next
    <3>1. base'[a] = b
      BY <1>1, <1>2, <2>2 DEF Areas
    <3>2. \A p \in LinkPagesAt(b) : owner'[p] = <<"link", a>>
      BY <1>1, <1>5, <2>2 DEF MapFixed
    <3> QED BY <1>1, <1>2, <2>2, <3>1, <3>2 DEF b
  <2>3. CASE a # next
    <3>1. base'[a] = base[a] /\ base[a] # None
      BY <1>1, <1>2, <2>3
    <3>2. /\ a < next /\ lowest[a] # None /\ base[a] = LinkBase(a)
          /\ base[a] >= MinPage * PageSize
          /\ \A p \in LinkPagesAt(base[a]) : owner[p] = <<"link", a>>
      BY <1>1, <3>1 DEF AllocInv
    <3>3. \A p \in LinkPagesAt(base[a]) : p \in DOMAIN owner
      <4>1. a \in {0, 1} /\ next = 1 /\ a = 0
        BY <1>2, <2>3, <3>2 DEF Areas
      <4>2. lowest[0] \in Int /\ 0 \in Areas /\ LinkBase(0) >= MinPage * PageSize
        BY <1>2, <3>2, <4>1 DEF Areas
      <4>3. LinkBase(0) \in Nat /\ LinkBase(0) + LINKPAGE_ALLOC <= lowest[0]
        BY <4>2, LinkFacts
      <4>4. PICK k \in 0..(Pages - 1) : lowest[0] = k * PageSize
        BY <3>2, <4>1 DEF LowestInv
      <4> SUFFICES ASSUME NEW p \in LinkPagesAt(LinkBase(0)) PROVE p \in 0..(Pages - 1)
        BY <1>2, <3>2, <4>1
      <4>5. p \in Nat /\ p * PageSize + PageSize <= LinkBase(0) + LINKPAGE_ALLOC
        BY <4>2, LinkFacts
      <4>6. p * PageSize < k * PageSize
        <5>1. p * PageSize \in Int /\ k * PageSize \in Int
          BY <4>5, LayoutAssumption, Scaled
        <5> QED BY <4>2, <4>3, <4>4, <4>5, <5>1, LayoutAssumption
      <4>7. ~(k <= p)
        BY <4>5, <4>6, LayoutAssumption, Scaled
      <4> QED BY <4>5, <4>7, LayoutAssumption
    <3>4. \A p \in LinkPagesAt(base[a]) : owner'[p] = <<"link", a>>
      BY <1>1, <1>7, <3>1, <3>2, <3>3 DEF MapFixed
    <3> QED BY <1>2, <3>1, <3>2, <3>4 DEF Areas
  <2> QED BY <2>2, <2>3
<1> QED BY <1>8, <1>9, <1>10, <1>11

LEMMA LayoutStep == LayoutInv /\ [LayoutNext]_layoutVars => LayoutInv'
<1> SUFFICES ASSUME LayoutInv, [LayoutNext]_layoutVars PROVE LayoutInv'
  OBVIOUS
<1>1. CASE ReadMaps
  BY <1>1, ReadMapsKeeps
<1>2. CASE LoadSegment
  BY <1>2, LoadSegmentKeeps
<1>3. CASE SegmentHits \/ LoadFails \/ AllocFails
  BY <1>3, FailKeeps DEF SegmentHits, LoadFails, AllocFails
<1>4. CASE AllLoaded
  BY <1>4, AllLoadedKeeps
<1>5. CASE ScanMaps
  BY <1>5, ScanMapsKeeps
<1>6. CASE AllocLinkpages
  BY <1>6, AllocLinkpagesKeeps
<1>7. CASE NoSegment \/ EnterProgram
  <2>1. /\ status = "link" /\ status' \in {"link", "run"} /\ (status' = "link" => next' = next + 1)
        /\ next' \in {next, next + 1} /\ is_dl' = is_dl /\ proc' = proc /\ segs' = segs
        /\ maps' = maps /\ lowest' = lowest /\ base' = base /\ owner' = owner
    BY <1>7 DEF NoSegment, EnterProgram, input
  <2>2. next \in Nat /\ next' \in Nat
    BY <2>1 DEF LayoutInv, LayoutTypeOK
  <2>3. LayoutTypeOK' /\ HostsInv' /\ ListedSafe'
    BY <2>1, <2>2 DEF LayoutInv, LayoutTypeOK, HostsInv, ListedSafe
  <2>4. SegmentsInv' /\ LowestInv'
    BY <2>1 DEF LayoutInv, SegmentsInv, Loaded, LowestInv
  <2>5. AllocInv'
    <3>1. \A a \in Areas : LinkBase(a)' = LinkBase(a)
      BY <2>1 DEF LinkBase
    <3>2. \A a \in Areas : a < next => a < next + 1
      BY <2>2 DEF Areas
    <3> QED BY <2>1, <3>1, <3>2 DEF LayoutInv, AllocInv
  <2> QED BY <2>3, <2>4, <2>5 DEF LayoutInv
<1>8. CASE UNCHANGED layoutVars
  <2>1. /\ status' = status /\ next' = next /\ is_dl' = is_dl /\ proc' = proc /\ segs' = segs
        /\ maps' = maps /\ lowest' = lowest /\ base' = base /\ owner' = owner
    BY <1>8 DEF layoutVars
  <2>2. \A a \in Areas : LinkBase(a)' = LinkBase(a)
    BY <2>1 DEF LinkBase
  <2>3. LayoutTypeOK' /\ HostsInv' /\ ListedSafe'
    BY <2>1 DEF LayoutInv, LayoutTypeOK, HostsInv, HostSafe, ListedSafe
  <2>4. SegmentsInv' /\ LowestInv'
    BY <2>1 DEF LayoutInv, SegmentsInv, Loaded, LowestInv
  <2> QED BY <2>1, <2>2, <2>3, <2>4 DEF LayoutInv, AllocInv
<1> QED BY <1>1, <1>2, <1>3, <1>4, <1>5, <1>6, <1>7, <1>8 DEF LayoutNext

\* For the theorems: the invariant holds of every behaviour.
LEMMA LayoutInvariant == LayoutSpec => []LayoutInv
<1> QED BY LayoutStart, LayoutStep, PTL DEF LayoutSpec

\* A list that is read is at most as long as the array (loader.c:98-107), and
\* the numbers of segments and areas stay numbers.
THEOREM LayoutTypeCorrect == LayoutSpec => []LayoutTypeOK
<1>1. LayoutInv => LayoutTypeOK
  BY DEF LayoutInv
<1> QED BY <1>1, LayoutInvariant, PTL

\* No segment is loaded over anything the loader has read from the map list,
\* for every page size: the check on bytes suffices for whole pages.
THEOREM ListedStays == LayoutSpec => []ListedSafe
<1>1. LayoutInv => ListedSafe
  BY DEF LayoutInv
<1> QED BY <1>1, LayoutInvariant, PTL

\* Segments in any order stay in memory beside the link pages, which are put
\* below the lowest one, and beside each other, but for pages they share with a
\* segment loaded later (loader.c:167-191, emu.c:1046-1063).
THEOREM SegmentsStay == LayoutSpec => []ProgramIntact
<1>1. LayoutInv => ProgramIntact
  BY DEF LayoutInv, ProgramIntact, SharedLater, SegmentsInv, Loaded
<1> QED BY <1>1, LayoutInvariant, PTL

\* The link pages of both areas are where the emulator takes them to be: below
\* what they are for, and not over one another.
THEOREM LinkPagesApart == LayoutSpec => []AreasApart
<1>1. LayoutInv => AreasApart
  <2> SUFFICES ASSUME LayoutInv, NEW a \in Areas, base[a] # None
               PROVE  /\ base[a] + LINKPAGE_ALLOC <= lowest[a]
                      /\ a = 1 => base[1] > lowest[0]
                      /\ \A p \in LinkPagesAt(base[a]) : owner[p] = <<"link", a>>
    BY DEF AreasApart
  <2>1. /\ lowest[a] # None /\ base[a] = LinkBase(a) /\ base[a] >= MinPage * PageSize
        /\ \A p \in LinkPagesAt(base[a]) : owner[p] = <<"link", a>>
    BY DEF LayoutInv, AllocInv
  <2>2. lowest[a] \in Int
    BY DEF LayoutInv, LayoutTypeOK
  <2> QED BY <2>1, <2>2, LinkFacts, SecondAbove
<1> QED BY <1>1, LayoutInvariant, PTL
-----------------------------------------------------------------------------
(* How a session goes (module Session).                                     *)

Operations == {"other", "blacklisted", "cd", "run", "mount", "unpack", "exit", "menu"}
ScriptLine ==      \* that "" is a string is no more than what the provers know
  [exec : BOOLEAN, op : Operations, arg : STRING \cup {""}, how : Elf \cup {"plain"},
   put : {"open", "hidden", "inner"}]
Inputs == {line \in InputLine : line.op = "run" => line.arg \in Names \cup {"gp2xmenu"}}
Processes ==
  [kind : {"menu", "prep", "sh", "app"}, cwd : Dirs, home : Dirs, menu : BOOLEAN,
   how : Elf \cup {"plain"}, text : Seq(ScriptLine), pos : Nat, astray : BOOLEAN]
Cards == [Dirs -> [Names -> Contents]]

\* Leads of a process whose text is all it will run.
Heads(p) ==
  \/ p.kind = "menu" \/ p.menu
  \/ p.kind = "sh" /\ \E k \in (p.pos + 1)..Len(p.text) : p.text[k].op = "menu"

\* A line that was converted for directory d of card F: its program, unless an
\* image has brought another one, has its loader, and no shell is replaced.
Known(line, d, F) ==
  /\ line.op = "menu" => line.put = "open"
  /\ line.op = "run" /\ line.put # "hidden" =>
       /\ ~line.exec /\ line.arg \in Names
       /\ F[d][line.arg] = Disk[d][line.arg] /\ F[d][line.arg].kind \in Elf
            => line.how = F[d][line.arg].kind

\* Where ginge_prep thought the line led from d.
Exists(d, F) == d \notin Missing \/ \E n \in Names : F[d][n] # NoFile
Goes(line, d, e, F) ==
  IF line.op = "cd" /\ line.arg \in Dirs /\ line.put # "hidden"
  THEN (e = line.arg /\ Exists(e, F)) \/ (e = d /\ line.arg \in Missing)
  ELSE e = d

Walk(D, lines, F) ==
  /\ D \in [1..(Len(lines) + 1) -> Dirs]
  /\ \A k \in 1..Len(lines) : Known(lines[k], D[k], F) /\ Goes(lines[k], D[k], D[k + 1], F)

\* The script so far leads from where ginge_prep was started to where it is,
\* and nowhere to the menu.
Prepared(p, lines, F) ==
  /\ \E D : Walk(D, lines, F) /\ D[1] = p.home /\ D[Len(lines) + 1] = p.cwd
  /\ \A k \in 1..Len(lines) : lines[k].op # "menu"

\* A shell is where its script was converted for, or where nothing was, unless
\* it is astray.
Place(p, d) == p.astray \/ p.cwd = d \/ p.cwd \in Missing
Follows(p, F) ==
  /\ p.pos <= Len(p.text)
  /\ \E D : Walk(D, p.text, F) /\ Place(p, D[p.pos + 1])

Fine(p, F) ==
  /\ p \in Processes
  /\ p.menu => p.kind = "prep"
  /\ p.kind = "prep" => p.text \in Seq(Inputs)
  /\ IF p.kind = "sh" THEN Follows(p, F) ELSE p.pos = 0

Waiting(p) == p.kind \notin {"menu", "prep"}
Sound(s, F) ==
  /\ s \in Seq(Processes) /\ s # <<>>
  /\ \A k \in 1..Len(s) :
       /\ Fine(s[k], F)
       /\ k < Len(s) => Waiting(s[k])
       /\ Heads(s[k]) => k = 1

Lone(P) == \A i, j \in DOMAIN P : Heads(P[i][1]) /\ Heads(P[j][1]) => i = j
Headed(P) == \E i \in DOMAIN P : Heads(P[i][1])
Prep(s) == Last(s).kind = "prep"
OnePrep(P) == \A i, j \in DOMAIN P : Prep(P[i]) /\ Prep(P[j]) => i = j

\* l: a script may have ended the shell that led to the menu.
Good(P, lines, F, l) ==
  /\ P \in Seq(Seq(Processes))
  /\ \A i \in DOMAIN P : Sound(P[i], F)
  /\ Lone(P) /\ (l \/ Headed(P)) /\ OnePrep(P)
  /\ \A i \in DOMAIN P : Prep(P[i]) => Prepared(Last(P[i]), lines, F)

Card(F) ==
  /\ F \in Cards
  /\ \A d \in Dirs, n \in Names : F[d][n] \in {Disk[d][n], Unpacked[d][n]}

SessionInv ==
  /\ Card(files) /\ script \in Seq(ScriptLine)
  /\ preps \in 0..MaxPreps /\ bare \subseteq {"unseen"} /\ left \in BOOLEAN
  /\ Good(procs, script, files, left)

\* Parts of stacks.
LEMMA Ends ==
  ASSUME NEW S, NEW s \in Seq(S), s # <<>>
  PROVE  /\ Len(s) \in Nat /\ Len(s) >= 1 /\ Last(s) = s[Len(s)] /\ Last(s) \in S
         /\ Front(s) \in Seq(S) /\ Len(Front(s)) = Len(s) - 1
         /\ \A k \in 1..(Len(s) - 1) : Front(s)[k] = s[k]
<1>1. /\ Len(s) \in Nat /\ Len(s) >= 1 /\ \A k \in 1..Len(s) : s[k] \in S
  OBVIOUS
<1>2. Front(s) = [k \in 1..(Len(s) - 1) |-> s[k]]
  BY <1>1 DEF Front
<1>3. Front(s) \in Seq(S) /\ Len(Front(s)) = Len(s) - 1
  BY <1>1, <1>2
<1>4. Last(s) = s[Len(s)]
  BY DEF Last
<1> QED BY <1>1, <1>2, <1>3, <1>4

LEMMA Longer ==
  ASSUME NEW S, NEW s \in Seq(S), NEW e \in S
  PROVE  /\ Append(s, e) \in Seq(S) /\ Append(s, e) # <<>> /\ Len(Append(s, e)) = Len(s) + 1
         /\ Len(s) \in Nat /\ Append(s, e)[Len(s) + 1] = e /\ Last(Append(s, e)) = e
         /\ \A k \in 1..Len(s) : Append(s, e)[k] = s[k]
  BY DEF Last

LEMMA Without ==
  ASSUME NEW S, NEW s \in Seq(S), NEW i \in DOMAIN s
  PROVE  /\ RemoveAt(s, i) \in Seq(S) /\ Len(RemoveAt(s, i)) = Len(s) - 1
         /\ Len(s) \in Nat /\ i \in 1..Len(s)
         /\ \A k \in 1..(Len(s) - 1) : RemoveAt(s, i)[k] = IF k < i THEN s[k] ELSE s[k + 1]
<1>1. /\ Len(s) \in Nat /\ i \in 1..Len(s) /\ \A k \in 1..Len(s) : s[k] \in S
  OBVIOUS
<1>2. SubSeq(s, 1, i - 1) = [k \in 1..(i - 1) |-> s[k]]
  BY <1>1
<1>3. SubSeq(s, i + 1, Len(s)) = [k \in 1..(Len(s) - i) |-> s[i + k]]
  BY <1>1
<1>4. SubSeq(s, 1, i - 1) \in Seq(S) /\ Len(SubSeq(s, 1, i - 1)) = i - 1
  BY <1>1, <1>2
<1>5. SubSeq(s, i + 1, Len(s)) \in Seq(S) /\ Len(SubSeq(s, i + 1, Len(s))) = Len(s) - i
  BY <1>1, <1>3
<1> DEFINE a == SubSeq(s, 1, i - 1)  b == SubSeq(s, i + 1, Len(s))  r == RemoveAt(s, i)
<1>6. a \in Seq(S) /\ b \in Seq(S) /\ Len(a) = i - 1 /\ Len(b) = Len(s) - i
  BY <1>4, <1>5
<1>7. r = a \o b
  BY DEF RemoveAt
<1>8. \A k \in 1..(i - 1) : a[k] = s[k]
  BY <1>2
<1>9. \A k \in 1..(Len(s) - i) : b[k] = s[i + k]
  BY <1>3
<1> HIDE DEF a, b, r
<1>10. r \in Seq(S) /\ Len(r) = Len(s) - 1
  BY <1>1, <1>6, <1>7
<1>11. ASSUME NEW k \in 1..(Len(s) - 1) PROVE r[k] = IF k < i THEN s[k] ELSE s[k + 1]
  <2>1. CASE k < i
    <3>1. k \in 1..(i - 1)
      BY <1>1, <2>1
    <3>2. (a \o b)[k] = a[k]
      BY <1>1, <1>6, <3>1
    <3> QED BY <1>7, <1>8, <2>1, <3>1, <3>2
  <2>2. CASE ~(k < i)
    <3> DEFINE la == Len(a)  lb == Len(b)  m == k - (i - 1)
    <3>1. m \in 1..(Len(s) - i) /\ i + m = k + 1 /\ m = k - (i - 1)
      BY <1>1, <2>2
    <3>2. la = i - 1 /\ lb = Len(s) - i
      BY <1>6
    <3> HIDE DEF la, lb, m
    <3>3. k \in 1..(la + lb) /\ ~(k <= la) /\ k - la = m
      BY <1>1, <2>2, <3>1, <3>2
    <3>4. (a \o b)[k] = b[k - la]
      BY <1>6, <3>3 DEF la, lb
    <3>5. b[m] = s[i + m]
      BY <1>9, <3>1
    <3>6. r[k] = s[k + 1]
      BY <1>7, <3>1, <3>3, <3>4, <3>5
    <3> QED BY <2>2, <3>6
  <2> QED BY <2>1, <2>2
<1> QED BY <1>1, <1>10, <1>11 DEF r

\* The process on top becomes another one, starts one, or ends.
LEMMA Renewed ==
  ASSUME NEW F, NEW s, Sound(s, F), NEW p, Fine(p, F), Heads(p) => Heads(Last(s))
  PROVE  LET t == Append(Front(s), p)
         IN  /\ Sound(t, F) /\ t # <<>> /\ Last(t) = p /\ (Heads(t[1]) => Heads(s[1]))
             /\ Heads(s[1]) /\ ~Heads(t[1]) => Heads(Last(s)) /\ ~Heads(p)
<1> DEFINE t == Append(Front(s), p)
<1>1. s \in Seq(Processes) /\ s # <<>> /\ p \in Processes
  BY DEF Sound, Fine
<1>2. /\ Front(s) \in Seq(Processes) /\ Len(Front(s)) = Len(s) - 1 /\ Len(s) \in Nat
      /\ Last(s) = s[Len(s)] /\ Len(s) >= 1 /\ \A k \in 1..(Len(s) - 1) : Front(s)[k] = s[k]
  BY <1>1, Ends
<1>3. /\ t \in Seq(Processes) /\ t # <<>> /\ Len(t) = Len(s) /\ t[Len(s)] = p /\ Last(t) = p
      /\ \A k \in 1..(Len(s) - 1) : t[k] = s[k]
  <2>1. /\ t \in Seq(Processes) /\ t # <<>> /\ Len(t) = Len(Front(s)) + 1
        /\ t[Len(Front(s)) + 1] = p /\ Last(t) = p
        /\ \A k \in 1..Len(Front(s)) : t[k] = Front(s)[k]
    BY <1>1, <1>2, Longer
  <2> HIDE DEF t
  <2> QED BY <1>2, <2>1
<1> HIDE DEF t
<1>4. \A k \in 1..Len(s) : Fine(s[k], F) /\ (k < Len(s) => Waiting(s[k])) /\ (Heads(s[k]) => k = 1)
  BY DEF Sound
<1>5. \A k \in 1..Len(t) : Fine(t[k], F) /\ (k < Len(t) => Waiting(t[k])) /\ (Heads(t[k]) => k = 1)
  <2>1. ASSUME NEW k \in 1..(Len(s) - 1)
        PROVE  t[k] = s[k] /\ Fine(t[k], F) /\ Waiting(t[k]) /\ (Heads(t[k]) => k = 1)
    BY <1>2, <1>3, <1>4
  <2>2. Fine(t[Len(s)], F) /\ (Heads(t[Len(s)]) => Len(s) = 1)
    BY <1>2, <1>3, <1>4
  <2> QED BY <1>2, <1>3, <2>1, <2>2
<1>6. (Heads(t[1]) => Heads(s[1])) /\ (Heads(s[1]) /\ ~Heads(t[1]) => Heads(Last(s)) /\ ~Heads(p))
  <2>1. CASE Len(s) = 1
    BY <1>2, <1>3, <2>1
  <2>2. CASE Len(s) > 1
    <3>1. 1 \in 1..(Len(s) - 1)
      BY <1>2, <2>2
    <3> QED BY <1>3, <3>1
  <2> QED BY <1>2, <2>1, <2>2
<1> QED BY <1>3, <1>5, <1>6 DEF t, Sound

LEMMA Called ==
  ASSUME NEW F, NEW s, Sound(s, F), Waiting(Last(s)), NEW p, Fine(p, F), ~Heads(p)
  PROVE  LET t == Append(s, p)
         IN  Sound(t, F) /\ t # <<>> /\ Last(t) = p /\ (Heads(t[1]) <=> Heads(s[1]))
<1> DEFINE t == Append(s, p)
<1>1. s \in Seq(Processes) /\ s # <<>> /\ p \in Processes
  BY DEF Sound, Fine
<1>2. Len(s) \in Nat /\ Last(s) = s[Len(s)] /\ Len(s) >= 1
  BY <1>1, Ends
<1>3. /\ t \in Seq(Processes) /\ t # <<>> /\ Len(t) = Len(s) + 1 /\ t[Len(s) + 1] = p
      /\ Last(t) = p /\ \A k \in 1..Len(s) : t[k] = s[k]
  BY <1>1, Longer
<1> HIDE DEF t
<1>4. \A k \in 1..Len(s) : Fine(s[k], F) /\ (k < Len(s) => Waiting(s[k])) /\ (Heads(s[k]) => k = 1)
  BY DEF Sound
<1>5. \A k \in 1..Len(t) : Fine(t[k], F) /\ (k < Len(t) => Waiting(t[k])) /\ (Heads(t[k]) => k = 1)
  <2>1. ASSUME NEW k \in 1..Len(s)
        PROVE  Fine(t[k], F) /\ Waiting(t[k]) /\ (Heads(t[k]) => k = 1)
    BY <1>2, <1>3, <1>4
  <2> QED BY <1>2, <1>3, <2>1
<1>6. Heads(t[1]) <=> Heads(s[1])
  BY <1>2, <1>3
<1> QED BY <1>3, <1>5, <1>6 DEF t, Sound

LEMMA Returned ==
  ASSUME NEW F, NEW s, Sound(s, F)
  PROVE  \/ Front(s) = <<>> /\ (Heads(s[1]) => Heads(Last(s)))
         \/ /\ Sound(Front(s), F) /\ Front(s) # <<>> /\ Waiting(Last(Front(s)))
            /\ Heads(Front(s)[1]) <=> Heads(s[1])
<1> DEFINE t == Front(s)
<1>1. s \in Seq(Processes) /\ s # <<>>
  BY DEF Sound
<1>2. /\ t \in Seq(Processes) /\ Len(t) = Len(s) - 1 /\ Len(s) \in Nat
      /\ Last(s) = s[Len(s)] /\ Len(s) >= 1 /\ \A k \in 1..(Len(s) - 1) : t[k] = s[k]
  BY <1>1, Ends
<1> HIDE DEF t
<1>3. \A k \in 1..Len(s) : Fine(s[k], F) /\ (k < Len(s) => Waiting(s[k])) /\ (Heads(s[k]) => k = 1)
  BY DEF Sound
<1>4. CASE Len(s) = 1
  <2>1. t = <<>> /\ (Heads(s[1]) => Heads(Last(s)))
    BY <1>2, <1>4
  <2> QED BY <2>1 DEF t
<1>5. CASE Len(s) > 1
  <2>1. t # <<>>
    BY <1>2, <1>5
  <2>2. Last(t) = t[Len(t)]
    BY <1>2, <2>1, Ends
  <2>3. Waiting(Last(t)) /\ (Heads(t[1]) <=> Heads(s[1]))
    BY <1>2, <1>3, <1>5, <2>2
  <2>4. \A k \in 1..Len(t) : Fine(t[k], F) /\ (k < Len(t) => Waiting(t[k])) /\ (Heads(t[k]) => k = 1)
    BY <1>2, <1>3
  <2>5. Sound(t, F)
    BY <1>2, <2>1, <2>4 DEF Sound
  <2> QED BY <2>1, <2>3, <2>5 DEF t
<1> QED BY <1>2, <1>4, <1>5

\* One stack changes, or comes to its end.
LEMMA Replaced ==
  ASSUME NEW P, NEW F, NEW now, NEW then, NEW l, NEW m, Good(P, now, F, l), l => m,
         NEW i \in DOMAIN P, NEW t, Sound(t, F),
         Heads(t[1]) => Heads(P[i][1]), Heads(P[i][1]) => m \/ Heads(t[1]),
         Prep(t) => Prepared(Last(t), then, F),
         Prep(t) => Prep(P[i]) \/ \A j \in DOMAIN P : ~Prep(P[j]),
         then = now \/ \A j \in DOMAIN P : Prep(P[j]) => j = i
  PROVE  Good([P EXCEPT ![i] = t], then, F, m)
<1> DEFINE Q == [P EXCEPT ![i] = t]
<1>1. P \in Seq(Seq(Processes)) /\ t \in Seq(Processes)
  BY DEF Good, Sound
<1>2. /\ Q \in Seq(Seq(Processes)) /\ DOMAIN Q = DOMAIN P /\ Q[i] = t
      /\ \A j \in DOMAIN P : j # i => Q[j] = P[j]
  BY <1>1
<1> HIDE DEF Q
<1>3. \A j \in DOMAIN Q : Sound(Q[j], F)
  BY <1>2 DEF Good
<1>4. Lone(Q) /\ (m \/ Headed(Q))
  <2>1. Lone(P) /\ (l \/ Headed(P))
    BY DEF Good
  <2>2. \A j \in DOMAIN P : Heads(Q[j][1]) => Heads(P[j][1])
    BY <1>2
  <2>3. \A j \in DOMAIN P : Heads(P[j][1]) => m \/ Heads(Q[j][1])
    BY <1>2
  <2>4. Lone(Q)
    BY <1>2, <2>1, <2>2 DEF Lone
  <2>5. m \/ Headed(Q)
    BY <1>2, <2>1, <2>3 DEF Headed
  <2> QED BY <2>4, <2>5
<1>5. \A j \in DOMAIN P : j # i => (Prep(Q[j]) <=> Prep(P[j])) /\ Last(Q[j]) = Last(P[j])
  BY <1>2 DEF Prep
<1>6. Prep(Q[i]) <=> Prep(t)
  BY <1>2
<1>7. OnePrep(Q)
  <2>1. OnePrep(P)
    BY DEF Good
  <2> QED BY <1>2, <1>5, <1>6, <2>1 DEF OnePrep
<1>8. \A j \in DOMAIN Q : Prep(Q[j]) => Prepared(Last(Q[j]), then, F)
  <2>1. \A j \in DOMAIN P : Prep(P[j]) => Prepared(Last(P[j]), now, F)
    BY DEF Good
  <2>2. ASSUME NEW j \in DOMAIN P, j # i, Prep(Q[j]) PROVE Prepared(Last(Q[j]), then, F)
    BY <1>5, <2>1, <2>2
  <2> QED BY <1>2, <1>6, <2>2
<1> QED BY <1>2, <1>3, <1>4, <1>7, <1>8 DEF Good, Q

LEMMA Removed ==
  ASSUME NEW P, NEW F, NEW now, NEW then, NEW l, NEW m, Good(P, now, F, l), l => m,
         NEW i \in DOMAIN P, Heads(P[i][1]) => m, then = now \/ \A j \in DOMAIN P : Prep(P[j]) => j = i
  PROVE  Good(RemoveAt(P, i), then, F, m)
<1> DEFINE Q == RemoveAt(P, i)  From(j) == IF j < i THEN j ELSE j + 1
<1>1. P \in Seq(Seq(Processes)) /\ DOMAIN P = 1..Len(P)
  BY DEF Good
<1>2. /\ Q \in Seq(Seq(Processes)) /\ Len(Q) = Len(P) - 1 /\ Len(P) \in Nat /\ i \in 1..Len(P)
      /\ \A j \in 1..(Len(P) - 1) : Q[j] = IF j < i THEN P[j] ELSE P[j + 1]
  <2> DEFINE S == Seq(Processes)
  <2>1. P \in Seq(S)
    BY <1>1
  <2> HIDE DEF S
  <2> QED BY <2>1, Without DEF S
<1>3. DOMAIN Q = 1..(Len(P) - 1)
  BY <1>2
<1> HIDE DEF Q
<1>4. \A j \in DOMAIN Q : From(j) \in DOMAIN P /\ From(j) # i /\ Q[j] = P[From(j)]
  <2> SUFFICES ASSUME NEW j \in 1..(Len(P) - 1)
               PROVE  From(j) \in 1..Len(P) /\ From(j) # i /\ Q[j] = P[From(j)]
    BY <1>1, <1>3
  <2>1. From(j) \in 1..Len(P) /\ From(j) # i
    BY <1>2
  <2> QED BY <1>2, <2>1
<1>5. \A j, k \in DOMAIN Q : From(j) = From(k) => j = k
  BY <1>2, <1>3
<1>6. \A j \in DOMAIN P : j # i => \E k \in DOMAIN Q : From(k) = j
  <2> SUFFICES ASSUME NEW j \in DOMAIN P, j # i PROVE \E k \in DOMAIN Q : From(k) = j
    OBVIOUS
  <2>1. CASE j < i
    <3>1. j \in DOMAIN Q /\ From(j) = j
      BY <1>1, <1>2, <1>3, <2>1
    <3> QED BY <3>1
  <2>2. CASE j > i
    <3>1. j - 1 \in DOMAIN Q /\ From(j - 1) = j
      BY <1>1, <1>2, <1>3, <2>2
    <3> QED BY <3>1
  <2> QED BY <1>1, <1>2, <2>1, <2>2
<1> HIDE DEF From
<1>7. \A j \in DOMAIN Q : Sound(Q[j], F)
  BY <1>4 DEF Good
<1>8. Lone(Q) /\ (m \/ Headed(Q))
  <2>1. Lone(P) /\ (l \/ Headed(P))
    BY DEF Good
  <2>2. Lone(Q)
    BY <1>4, <1>5, <2>1 DEF Lone
  <2>3. ASSUME NEW j \in DOMAIN P, Heads(P[j][1]), ~m PROVE Headed(Q)
    <3>1. PICK k \in DOMAIN Q : From(k) = j
      BY <1>6, <2>3
    <3> QED BY <1>4, <2>3, <3>1 DEF Headed
  <2> QED BY <2>1, <2>2, <2>3 DEF Headed
<1>9. OnePrep(Q)
  <2>1. OnePrep(P)
    BY DEF Good
  <2> QED BY <1>4, <1>5, <2>1 DEF OnePrep
<1>10. \A j \in DOMAIN Q : Prep(Q[j]) => Prepared(Last(Q[j]), then, F)
  <2>1. \A j \in DOMAIN P : Prep(P[j]) => Prepared(Last(P[j]), now, F)
    BY DEF Good
  <2> QED BY <1>4, <2>1
<1> QED BY <1>2, <1>7, <1>8, <1>9, <1>10 DEF Good, Q

\* More is on the card.
Grows(F, G) ==
  \A d \in Dirs, n \in Names :
    G[d][n] = F[d][n] \/ (G[d][n] = Unpacked[d][n] /\ G[d][n] # NoFile)

LEMMA WalkKept ==
  ASSUME NEW F, NEW G, Card(F), Grows(F, G), NEW D, NEW lines, Walk(D, lines, F)
  PROVE  Walk(D, lines, G)
<1> SUFFICES ASSUME NEW k \in 1..Len(lines)
             PROVE  Known(lines[k], D[k], G) /\ Goes(lines[k], D[k], D[k + 1], G)
  BY DEF Walk
<1>1. /\ D \in [1..(Len(lines) + 1) -> Dirs]
      /\ Known(lines[k], D[k], F) /\ Goes(lines[k], D[k], D[k + 1], F)
  BY DEF Walk
<1>2. Known(lines[k], D[k], G)
  <2> SUFFICES ASSUME lines[k].op = "run", lines[k].put # "hidden", G[D[k]][lines[k].arg] = Disk[D[k]][lines[k].arg]
               PROVE  lines[k].arg \in Names => F[D[k]][lines[k].arg] = G[D[k]][lines[k].arg]
    BY <1>1 DEF Known
  <2> QED BY <1>1 DEF Grows, Card
<1>3. \A d \in Dirs : Exists(d, F) => Exists(d, G)
  BY DEF Exists, Grows
<1>4. D[k + 1] \in Dirs
  BY <1>1
<1> QED BY <1>1, <1>2, <1>3, <1>4 DEF Goes

LEMMA FineKept ==
  ASSUME NEW F, NEW G, Card(F), Grows(F, G), NEW p, Fine(p, F)
  PROVE  Fine(p, G)
<1> SUFFICES ASSUME p.kind = "sh" PROVE Follows(p, G)
  BY DEF Fine
<1>1. PICK D : Walk(D, p.text, F) /\ Place(p, D[p.pos + 1])
  BY DEF Fine, Follows
<1>2. Walk(D, p.text, G)
  BY <1>1, WalkKept
<1> QED BY <1>1, <1>2 DEF Fine, Follows

LEMMA GoodKept ==
  ASSUME NEW F, NEW G, Card(F), Grows(F, G), NEW P, NEW lines, NEW l, Good(P, lines, F, l)
  PROVE  Good(P, lines, G, l)
<1>1. ASSUME NEW i \in DOMAIN P PROVE Sound(P[i], G)
  <2>1. Sound(P[i], F)
    BY DEF Good
  <2> QED BY <2>1, FineKept DEF Sound
<1>2. ASSUME NEW i \in DOMAIN P, Prep(P[i]) PROVE Prepared(Last(P[i]), lines, G)
  <2>1. Prepared(Last(P[i]), lines, F)
    BY <1>2 DEF Good
  <2> QED BY <2>1, WalkKept DEF Prepared
<1> QED BY <1>1, <1>2 DEF Good

\* A set made a sequence: each member has one place.
LEMMA Placed ==
  ASSUME NEW S, IsFiniteSet(S)
  PROVE  /\ SetToSeq(S) \in Seq(S)
         /\ \A a, b \in DOMAIN SetToSeq(S) : SetToSeq(S)[a] = SetToSeq(S)[b] => a = b
         /\ \A e \in S : \E a \in DOMAIN SetToSeq(S) : SetToSeq(S)[a] = e
<1> DEFINE n == Cardinality(S)  f == SetToSeq(S)
<1>1. n \in Nat /\ ExistsBijection(1..n, S)
  BY FS_CardinalityType
<1>2. PICK g : g \in [1..n -> S] /\ IsInjective(g)
  BY <1>1 DEF ExistsBijection, Bijection, Injection
<1>3. f \in [1..n -> S] /\ IsInjective(f)
  BY <1>2 DEF SetToSeq
<1> HIDE DEF f
<1>4. IsFiniteSet(1..n) /\ Cardinality(1..n) = n
  <2>1. 1 \in Int /\ n \in Int
    BY <1>1
  <2> QED BY <1>1, <2>1, FS_Interval
<1>5. f \in Injection(1..n, S)
  BY <1>3 DEF Injection
<1>6. f \in Surjection(1..n, S)
  BY <1>4, <1>5, FS_Injection
<1>7. f \in Seq(S) /\ DOMAIN f = 1..n
  BY <1>1, <1>3
<1>8. \A e \in S : \E a \in DOMAIN f : f[a] = e
  BY <1>6, <1>7 DEF Surjection
<1> QED BY <1>3, <1>7, <1>8 DEF IsInjective, f

LEMMA Triples ==
  ASSUME NEW A, NEW B, NEW C, IsFiniteSet(A), IsFiniteSet(B), IsFiniteSet(C)
  PROVE  IsFiniteSet(A \X B \X C)
<1> DEFINE f == [t \in A \X B \X C |-> <<<<t[1], t[2]>>, t[3]>>]
<1>1. IsFiniteSet((A \X B) \X C)
  BY FS_Product
<1>2. f \in [A \X B \X C -> (A \X B) \X C]
  OBVIOUS
<1>3. \A t, u \in A \X B \X C : f[t] = f[u] => t = u
  OBVIOUS
<1>4. f \in Injection(A \X B \X C, (A \X B) \X C)
  BY <1>2, <1>3 DEF Injection, IsInjective
<1> QED BY <1>1, <1>4, FS_Injection

LEMMA PiecesFinite ==
  ASSUME procs \in Seq(Seq(Processes))
  PROVE  IsFiniteSet(Pieces)
<1> DEFINE Of(i) == {i} \X (DOMAIN procs[i]) \X (DOMAIN procs[i])
           T == {Of(i) : i \in Stacks}
           f == [i \in Stacks |-> Of(i)]
<1>1. \A i \in Stacks : IsFiniteSet(DOMAIN procs[i])
  <2> SUFFICES ASSUME NEW i \in Stacks PROVE IsFiniteSet(DOMAIN procs[i])
    OBVIOUS
  <2>1. DOMAIN procs[i] = 1..Len(procs[i]) /\ Len(procs[i]) \in Int /\ 1 \in Int
    BY DEF Stacks
  <2> QED BY <2>1, FS_Interval
<1>2. \A i \in Stacks : IsFiniteSet(Of(i))
  BY <1>1, FS_Singleton, Triples
<1>3. IsFiniteSet(Stacks)
  <2>1. Stacks = 1..Len(procs) /\ Len(procs) \in Int /\ 1 \in Int
    BY DEF Stacks
  <2> QED BY <2>1, FS_Interval
<1> HIDE DEF Of
<1>4. f \in Surjection(Stacks, T)
  BY DEF Surjection
<1>5. IsFiniteSet(T)
  BY <1>3, <1>4, FS_Surjection
<1>6. IsFiniteSet(UNION T)
  BY <1>2, <1>5, FS_UNION
<1>7. Pieces \subseteq UNION T
  BY DEF Pieces, Of
<1> QED BY <1>6, <1>7, FS_Subset

LEMMA Between ==
  ASSUME NEW S, NEW s \in Seq(S), NEW a \in 1..Len(s), NEW b \in 1..Len(s), a <= b
  PROVE  /\ SubSeq(s, a, b) \in Seq(S) /\ Len(SubSeq(s, a, b)) = (b - a) + 1
         /\ SubSeq(s, a, b) # <<>> /\ Last(SubSeq(s, a, b)) = s[b]
         /\ SubSeq(s, a, b)[1] = s[a]
         /\ \A k \in 1..((b - a) + 1) : SubSeq(s, a, b)[k] = s[(a + k) - 1]
<1> DEFINE n == (b - a) + 1  t == SubSeq(s, a, b)
<1>1. n \in Nat /\ n >= 1 /\ Len(s) \in Nat /\ \A k \in 1..Len(s) : s[k] \in S
  OBVIOUS
<1>2. t = [k \in 1..n |-> s[(a + k) - 1]]
  BY <1>1
<1>3. \A k \in 1..n : (a + k) - 1 \in 1..Len(s)
  BY <1>1
<1> HIDE DEF t
<1>4. t \in Seq(S) /\ Len(t) = n
  BY <1>1, <1>2, <1>3
<1>5. (a + n) - 1 = b /\ (a + 1) - 1 = a /\ n \in 1..n /\ 1 \in 1..n
  OBVIOUS
<1>6. t[n] = s[b] /\ t[1] = s[a]
  BY <1>2, <1>5
<1>7. t # <<>> /\ Last(t) = s[b]
  BY <1>1, <1>4, <1>6 DEF Last
<1> QED BY <1>2, <1>4, <1>6, <1>7 DEF t

\* Of the pieces of a stack no two begin or end together, and one begins where
\* the stack does if that process is not killed.
LEMMA PieceIs ==
  ASSUME procs \in Seq(Seq(Processes)), NEW t \in Pieces
  PROVE  /\ t = <<t[1], t[2], t[3]>> /\ t[1] \in Stacks /\ Len(procs[t[1]]) \in Nat
         /\ t[2] \in 1..Len(procs[t[1]]) /\ t[3] \in 1..Len(procs[t[1]])
         /\ Piece(t[1], t[2], t[3])
<1>1. PICK i \in Stacks : t \in {i} \X (DOMAIN procs[i]) \X (DOMAIN procs[i])
  BY DEF Pieces
<1>2. procs[i] \in Seq(Processes)
  BY DEF Stacks
<1>3. DOMAIN procs[i] = 1..Len(procs[i]) /\ Len(procs[i]) \in Nat
  BY <1>2
<1>4. Piece(t[1], t[2], t[3])
  BY DEF Pieces
<1> QED BY <1>1, <1>3, <1>4

LEMMA SameBegin ==
  ASSUME procs \in Seq(Seq(Processes)), NEW t \in Pieces, NEW u \in Pieces,
         t[1] = u[1], t[2] = u[2]
  PROVE  t = u
<1>1. /\ t = <<t[1], t[2], t[3]>> /\ Len(procs[t[1]]) \in Nat
      /\ t[2] \in 1..Len(procs[t[1]]) /\ t[3] \in 1..Len(procs[t[1]])
      /\ Piece(t[1], t[2], t[3])
  BY PieceIs
<1>2. /\ u = <<t[1], t[2], u[3]>> /\ u[3] \in 1..Len(procs[t[1]]) /\ Piece(t[1], t[2], u[3])
  BY PieceIs
<1>3. ~(t[3] < u[3])
  <2> SUFFICES ASSUME t[3] < u[3] PROVE FALSE
    OBVIOUS
  <2>1. t[3] + 1 \in t[2]..u[3] /\ t[3] < Len(procs[t[1]])
    BY <1>1, <1>2 DEF Piece
  <2> QED BY <1>1, <1>2, <2>1 DEF Piece
<1>4. ~(u[3] < t[3])
  <2> SUFFICES ASSUME u[3] < t[3] PROVE FALSE
    OBVIOUS
  <2>1. u[3] + 1 \in t[2]..t[3] /\ u[3] < Len(procs[t[1]])
    BY <1>1, <1>2 DEF Piece
  <2> QED BY <1>1, <1>2, <2>1 DEF Piece
<1>5. t[3] = u[3]
  BY <1>1, <1>2, <1>3, <1>4
<1> QED BY <1>1, <1>2, <1>5

LEMMA SameEnd ==
  ASSUME procs \in Seq(Seq(Processes)), NEW t \in Pieces, NEW u \in Pieces,
         t[1] = u[1], t[3] = u[3]
  PROVE  t = u
<1>1. /\ t = <<t[1], t[2], t[3]>> /\ Len(procs[t[1]]) \in Nat
      /\ t[2] \in 1..Len(procs[t[1]]) /\ t[3] \in 1..Len(procs[t[1]])
      /\ Piece(t[1], t[2], t[3])
  BY PieceIs
<1>2. /\ u = <<t[1], u[2], t[3]>> /\ u[2] \in 1..Len(procs[t[1]]) /\ Piece(t[1], u[2], t[3])
  BY PieceIs
<1>3. ~(t[2] < u[2])
  <2> SUFFICES ASSUME t[2] < u[2] PROVE FALSE
    OBVIOUS
  <2>1. u[2] - 1 \in t[2]..t[3] /\ u[2] > 1
    BY <1>1, <1>2 DEF Piece
  <2> QED BY <1>1, <1>2, <2>1 DEF Piece
<1>4. ~(u[2] < t[2])
  <2> SUFFICES ASSUME u[2] < t[2] PROVE FALSE
    OBVIOUS
  <2>1. t[2] - 1 \in u[2]..t[3] /\ t[2] > 1
    BY <1>1, <1>2 DEF Piece
  <2> QED BY <1>1, <1>2, <2>1 DEF Piece
<1>5. t[2] = u[2]
  BY <1>1, <1>2, <1>3, <1>4
<1> QED BY <1>1, <1>2, <1>5

LEMMA FirstPiece ==
  ASSUME procs \in Seq(Seq(Processes)), NEW i \in Stacks, procs[i] # <<>>,
         ~IsStatic(procs[i][1])
  PROVE  \E t \in Pieces : t[1] = i /\ t[2] = 1
<1> DEFINE n == Len(procs[i])
           S == {b \in 1..n : b = n \/ IsStatic(procs[i][b + 1])}
<1>1. procs[i] \in Seq(Processes) /\ n \in Nat /\ n >= 1 /\ DOMAIN procs[i] = 1..n
  BY DEF Stacks
<1>2. S \in SUBSET Nat /\ n \in S
  BY <1>1
<1>3. PICK b \in S : \A c \in S : b <= c
  <2> HIDE DEF S
  <2> QED BY <1>2, LeastOf
<1>4. b \in 1..n /\ (b < n => IsStatic(procs[i][b + 1]))
  BY <1>1, <1>3
<1>5. \A k \in 1..b : ~IsStatic(procs[i][k])
  <2> SUFFICES ASSUME NEW k \in 1..b, IsStatic(procs[i][k]) PROVE FALSE
    OBVIOUS
  <2>1. k - 1 \in 1..n /\ (k - 1) + 1 = k
    BY <1>1, <1>4
  <2>2. k - 1 \in S
    BY <2>1
  <2>3. b <= k - 1
    BY <1>3, <2>2
  <2> HIDE DEF S
  <2> QED BY <1>4, <2>3
<1> HIDE DEF S
<1>6. Piece(i, 1, b)
  BY <1>1, <1>4, <1>5 DEF Piece
<1>7. 1 \in 1..n
  BY <1>1
<1>8. <<i, 1, b>> \in {i} \X (DOMAIN procs[i]) \X (DOMAIN procs[i])
  BY <1>1, <1>4, <1>7
<1>9. <<i, 1, b>> \in Pieces
  BY <1>6, <1>8 DEF Pieces
<1> QED BY <1>9

\* A forced exit leaves what leads to the menu, and what is being converted.
LEMMA GoodPieces ==
  ASSUME NEW lines, NEW F, NEW m, Good(procs, lines, F, m)
  PROVE  Good(Pieced(SetToSeq(Pieces)), lines, F, m)
<1> DEFINE f == SetToSeq(Pieces)  Q == Pieced(f)
<1>1. procs \in Seq(Seq(Processes)) /\ IsFiniteSet(Pieces)
  BY PiecesFinite DEF Good
<1>2. /\ f \in Seq(Pieces) /\ \A a, b \in DOMAIN f : f[a] = f[b] => a = b
      /\ \A e \in Pieces : \E a \in DOMAIN f : f[a] = e
  BY <1>1, Placed
<1>3. \A j \in DOMAIN f : f[j] \in Pieces
  BY <1>2
<1>4. Q = [j \in DOMAIN f |-> SubSeq(procs[f[j][1]], f[j][2], f[j][3])]
  BY DEF Pieced
<1> HIDE DEF Q, f
<1>5. ASSUME NEW j \in DOMAIN f, NEW i, NEW a, NEW b, i = f[j][1], a = f[j][2], b = f[j][3]
      PROVE  /\ i \in Stacks /\ procs[i] \in Seq(Processes) /\ Sound(procs[i], F)
             /\ Len(procs[i]) \in Nat /\ a \in 1..Len(procs[i]) /\ b \in 1..Len(procs[i]) /\ a <= b
             /\ Q[j] \in Seq(Processes) /\ Len(Q[j]) = (b - a) + 1 /\ Q[j] # <<>>
             /\ Last(Q[j]) = procs[i][b] /\ Q[j][1] = procs[i][a]
             /\ \A k \in 1..((b - a) + 1) : Q[j][k] = procs[i][(a + k) - 1]
  <2>1. /\ i \in Stacks /\ Len(procs[i]) \in Nat /\ a \in 1..Len(procs[i])
        /\ b \in 1..Len(procs[i]) /\ a <= b
    BY <1>1, <1>3, <1>5, PieceIs DEF Piece
  <2>2. procs[i] \in Seq(Processes) /\ Sound(procs[i], F)
    BY <2>1 DEF Good, Sound, Stacks
  <2>3. Q[j] = SubSeq(procs[i], a, b)
    BY <1>4, <1>5
  <2> DEFINE s == procs[i]  t == Q[j]
  <2>4. s \in Seq(Processes) /\ a \in 1..Len(s) /\ b \in 1..Len(s) /\ a <= b /\ t = SubSeq(s, a, b)
    BY <2>1, <2>2, <2>3
  <2> HIDE DEF s, t
  <2>5. t \in Seq(Processes) /\ Len(t) = (b - a) + 1
    BY <2>4, Between
  <2>6. t # <<>> /\ Last(t) = s[b] /\ t[1] = s[a]
    BY <2>4, Between
  <2>7. \A k \in 1..((b - a) + 1) : t[k] = s[(a + k) - 1]
    BY <2>4, Between
  <2> QED BY <2>1, <2>2, <2>5, <2>6, <2>7 DEF s, t
<1>6. Q \in Seq(Seq(Processes)) /\ DOMAIN Q = DOMAIN f
  <2>1. \A j \in DOMAIN f : Q[j] \in Seq(Processes)
    BY <1>5
  <2>2. DOMAIN Q = DOMAIN f /\ DOMAIN f = 1..Len(f) /\ Len(f) \in Nat
    BY <1>2, <1>4
  <2>3. Q \in [1..Len(f) -> Seq(Processes)]
    BY <1>4, <2>1, <2>2
  <2> QED BY <2>2, <2>3
<1>7. ASSUME NEW j \in DOMAIN f PROVE Sound(Q[j], F)
  <2> DEFINE i == f[j][1]  a == f[j][2]  b == f[j][3]  s == procs[i]
  <2>1. /\ Sound(s, F) /\ Len(s) \in Nat /\ a \in 1..Len(s) /\ b \in 1..Len(s) /\ a <= b
        /\ Q[j] \in Seq(Processes) /\ Len(Q[j]) = (b - a) + 1 /\ Q[j] # <<>>
        /\ \A k \in 1..((b - a) + 1) : Q[j][k] = s[(a + k) - 1]
    BY <1>5
  <2> HIDE DEF i, a, b, s
  <2>2. \A k \in 1..Len(s) : Fine(s[k], F) /\ (k < Len(s) => Waiting(s[k])) /\ (Heads(s[k]) => k = 1)
    BY <2>1 DEF Sound
  <2>3. ASSUME NEW k \in 1..Len(Q[j])
        PROVE  Fine(Q[j][k], F) /\ (k < Len(Q[j]) => Waiting(Q[j][k])) /\ (Heads(Q[j][k]) => k = 1)
    <3> DEFINE l == (a + k) - 1
    <3>1. l \in 1..Len(s) /\ Q[j][k] = s[l] /\ (k < Len(Q[j]) => l < Len(s)) /\ (l = 1 => k = 1)
      BY <2>1
    <3> HIDE DEF l
    <3> QED BY <2>2, <3>1
  <2> QED BY <2>1, <2>3 DEF Sound
<1>8. Lone(Q)
  <2>1. ASSUME NEW k \in DOMAIN f, Heads(Q[k][1])
        PROVE  f[k][1] \in Stacks /\ f[k][2] = 1 /\ Heads(procs[f[k][1]][1])
    <3> DEFINE i == f[k][1]  a == f[k][2]  s == procs[i]
    <3>1. i \in Stacks /\ Sound(s, F) /\ a \in 1..Len(s) /\ Q[k][1] = s[a]
      BY <1>5
    <3>2. a = 1
      BY <2>1, <3>1 DEF Sound
    <3> QED BY <2>1, <3>1, <3>2
  <2>2. ASSUME NEW j \in DOMAIN f, NEW k \in DOMAIN f, Heads(Q[j][1]), Heads(Q[k][1])
        PROVE  j = k
    <3>1. f[j][1] = f[k][1]
      BY <2>1, <2>2 DEF Good, Lone, Stacks
    <3>2. f[j] = f[k]
      BY <1>1, <1>3, <2>1, <2>2, <3>1, SameBegin
    <3> QED BY <1>2, <3>2
  <2> QED BY <1>6, <2>2 DEF Lone
<1>12. ASSUME ~m PROVE Headed(Q)
  <2>1. PICK l \in Stacks : Heads(procs[l][1])
    BY <1>12 DEF Good, Headed, Stacks
  <2>2. Sound(procs[l], F) /\ procs[l] # <<>> /\ Len(procs[l]) \in Nat /\ Len(procs[l]) >= 1
    BY <2>1 DEF Good, Sound, Stacks
  <2>3. Fine(procs[l][1], F)
    BY <2>2 DEF Sound
  <2>4. ~IsStatic(procs[l][1])
    BY <2>1, <2>3 DEF Fine, Heads, IsStatic
  <2>5. PICK t \in Pieces : t[1] = l /\ t[2] = 1
    BY <1>1, <2>1, <2>2, <2>4, FirstPiece
  <2>6. PICK j \in DOMAIN f : f[j] = t
    BY <1>2, <2>5
  <2>7. Heads(Q[j][1])
    <3> DEFINE i == f[j][1]  a == f[j][2]
    <3>1. Q[j][1] = procs[i][a]
      BY <1>5, <2>6
    <3>2. i = l /\ a = 1
      BY <2>5, <2>6
    <3> QED BY <2>1, <3>1, <3>2
  <2> QED BY <1>6, <2>7 DEF Headed
<1>9. ASSUME NEW j \in DOMAIN f, Prep(Q[j])
      PROVE  LET i == f[j][1]
             IN  i \in Stacks /\ Prep(procs[i]) /\ Last(Q[j]) = Last(procs[i]) /\ f[j][3] = Len(procs[i])
  <2> DEFINE i == f[j][1]  b == f[j][3]  s == procs[i]
  <2>1. /\ i \in Stacks /\ Sound(s, F) /\ Len(s) \in Nat /\ b \in 1..Len(s)
        /\ Last(Q[j]) = s[b]
    BY <1>5
  <2> HIDE DEF i, b, s
  <2>2. b = Len(s)
    BY <1>9, <2>1 DEF Sound, Prep, Waiting
  <2>3. Last(s) = s[b]
    BY <2>2 DEF Last
  <2>4. Prep(s) /\ Last(Q[j]) = Last(s)
    BY <1>9, <2>1, <2>3 DEF Prep
  <2> QED BY <2>1, <2>2, <2>4 DEF i, b, s
<1>10. OnePrep(Q)
  <2> SUFFICES ASSUME NEW j \in DOMAIN f, NEW k \in DOMAIN f, Prep(Q[j]), Prep(Q[k])
               PROVE  j = k
    BY <1>6 DEF OnePrep
  <2>1. f[j][1] = f[k][1]
    BY <1>9 DEF Good, OnePrep, Stacks
  <2>2. f[j][3] = f[k][3]
    BY <1>9, <2>1
  <2>3. f[j] = f[k]
    BY <1>1, <1>3, <2>1, <2>2, SameEnd
  <2> QED BY <1>2, <2>3
<1>11. \A j \in DOMAIN f : Prep(Q[j]) => Prepared(Last(Q[j]), lines, F)
  BY <1>9 DEF Good, Stacks
<1> QED BY <1>6, <1>7, <1>8, <1>10, <1>11, <1>12 DEF Good, Q, f

\* Walks: none at all, and one line more.
LEMMA WalkNone ==
  ASSUME NEW d \in Dirs, NEW F
  PROVE  \E D : Walk(D, <<>>, F) /\ D[1] = d
<1> DEFINE D == [k \in 1..1 |-> d]
<1>1. D \in [1..(Len(<<>>) + 1) -> Dirs] /\ D[1] = d
  OBVIOUS
<1>2. Walk(D, <<>>, F)
  BY <1>1 DEF Walk
<1> HIDE DEF D
<1> QED BY <1>1, <1>2

LEMMA WalkMore ==
  ASSUME NEW lines \in Seq(ScriptLine), NEW line \in ScriptLine, NEW F, NEW D, Walk(D, lines, F),
         NEW e \in Dirs, NEW d, d = D[Len(lines) + 1], Known(line, d, F), Goes(line, d, e, F)
  PROVE  \E E : /\ Walk(E, Append(lines, line), F) /\ E[Len(lines) + 2] = e
                /\ \A k \in 1..(Len(lines) + 1) : E[k] = D[k]
<1> DEFINE n == Len(lines)  t == Append(lines, line)
           E == [k \in 1..(n + 2) |-> IF k <= n + 1 THEN D[k] ELSE e]
<1>1. /\ n \in Nat /\ Len(t) = n + 1 /\ t[n + 1] = line /\ \A k \in 1..n : t[k] = lines[k]
  BY Longer
<1>2. /\ D \in [1..(n + 1) -> Dirs]
      /\ \A k \in 1..n : Known(lines[k], D[k], F) /\ Goes(lines[k], D[k], D[k + 1], F)
  BY DEF Walk
<1> HIDE DEF t
<1>3. E \in [1..(Len(t) + 1) -> Dirs] /\ E[n + 2] = e /\ \A k \in 1..(n + 1) : E[k] = D[k]
  BY <1>1, <1>2
<1> HIDE DEF E, n
<1>4. ASSUME NEW k \in 1..Len(t)
      PROVE  Known(t[k], E[k], F) /\ Goes(t[k], E[k], E[k + 1], F)
  <2>1. CASE k \in 1..n
    <3>1. k \in 1..(n + 1) /\ k + 1 \in 1..(n + 1)
      BY <1>1, <2>1
    <3>2. E[k] = D[k] /\ E[k + 1] = D[k + 1] /\ t[k] = lines[k]
      BY <1>1, <1>3, <2>1, <3>1
    <3> QED BY <1>2, <2>1, <3>2
  <2>2. CASE k = n + 1
    <3>1. E[k] = d /\ E[k + 1] = e /\ t[k] = line
      <4>1. n + 1 \in 1..(n + 1) /\ (n + 1) + 1 = n + 2
        BY <1>1
      <4> QED BY <1>1, <1>3, <2>2, <4>1 DEF n
    <3> QED BY <3>1
  <2> QED BY <1>1, <2>1, <2>2
<1>5. Walk(E, t, F)
  BY <1>3, <1>4 DEF Walk
<1> QED BY <1>3, <1>5 DEF n, t

\* ginge_prep writes nothing, or a line that leads where it goes itself.
LEMMA CardLines ==
  ASSUME Card(files), NEW d \in Dirs, NEW n \in Names
  PROVE  /\ files[d][n] \in Contents /\ Input(d, n) \in Seq(Inputs)
         /\ IdElf(files[d][n]) \in Elf \cup {"plain"}
<1>1. files[d][n] \in {Disk[d][n], Unpacked[d][n]} /\ files[d][n] \in Contents
  BY DEF Card, Cards
<1>2. \A k \in DOMAIN files[d][n].lines :
        files[d][n].lines[k].op = "run" => files[d][n].lines[k].arg \in Names \cup {"gp2xmenu"}
  BY <1>1, SessionAssumption
<1>3. files[d][n].lines \in Seq(InputLine)
  BY <1>1 DEF Contents
<1>4. \A k \in 1..Len(files[d][n].lines) : files[d][n].lines[k] \in Inputs
  <2> DEFINE t == files[d][n].lines
  <2>1. \A k \in 1..Len(t) : t[k] \in InputLine /\ k \in DOMAIN t
    BY <1>3
  <2> HIDE DEF t
  <2>2. \A k \in DOMAIN t : t[k].op = "run" => t[k].arg \in Names \cup {"gp2xmenu"}
    BY <1>2 DEF t
  <2>3. \A k \in 1..Len(t) : t[k] \in Inputs
    BY <2>1, <2>2 DEF Inputs
  <2> QED BY <2>3 DEF t
<1>5. files[d][n].lines \in Seq(Inputs)
  BY <1>3, <1>4
<1> QED BY <1>1, <1>5 DEF Input, At, IdElf

LEMMA EnterType ==
  ASSUME NEW line, NEW d \in Dirs
  PROVE  Enter(line, d) \in Dirs /\ Chdir(line, d) \in Dirs
  BY DEF Enter, Chdir

Leading(line, d) ==
  \/ Converted(line, d) = <<>> /\ Chdir(line, d) = d
  \/ \E l \in ScriptLine :
       /\ Converted(line, d) = <<l>> /\ l.op # "menu"
       /\ Known(l, d, files) /\ Goes(l, d, Chdir(line, d), files)

LEMMA ConvertedIs ==
  ASSUME Card(files), NEW line \in Inputs, NEW d \in Dirs
  PROVE  Leading(line, d)
<1>1. /\ line \in InputLine /\ line.arg \in STRING /\ line.how = "plain" /\ line.exec \in BOOLEAN
      /\ line.op \in {"other", "blacklisted", "cd", "run", "mount", "exit"}
      /\ line.put \in {"open", "hidden", "inner"}
      /\ line.op = "run" => line.arg \in Names \cup {"gp2xmenu"}
  BY DEF Inputs, InputLine
<1>2. CASE line.put = "hidden"
  <2>1. Chdir(line, d) = d /\ Converted(line, d) = <<line>>
    BY <1>2 DEF Chdir, Converted
  <2>2. line \in ScriptLine /\ line.op # "menu"
    BY <1>1 DEF InputLine, ScriptLine, Operations
  <2>3. Known(line, d, files) /\ Goes(line, d, d, files)
    BY <1>2, <2>2 DEF Known, Goes
  <2> QED BY <2>1, <2>2, <2>3 DEF Leading
<1>3. CASE line.put # "hidden" /\ line.op = "mount"
  <2> DEFINE l == [line EXCEPT !.op = "unpack", !.exec = FALSE]
  <2>1. Chdir(line, d) = d
    BY <1>3 DEF Enter, Chdir
  <2>2. l \in ScriptLine /\ l.op = "unpack"
    BY <1>1 DEF InputLine, ScriptLine, Operations
  <2>3. Converted(line, d) = <<>> \/ Converted(line, d) = <<l>>
    BY <1>3 DEF Converted
  <2> HIDE DEF l
  <2>4. Known(l, d, files) /\ Goes(l, d, d, files)
    BY <2>2 DEF Known, Goes
  <2> QED BY <2>1, <2>2, <2>3, <2>4 DEF Leading
<1>4. CASE line.put # "hidden" /\ Dropped(line)
  <2>1. Chdir(line, d) = d
    BY <1>4, SessionAssumption DEF Enter, Chdir, Dropped
  <2>2. Converted(line, d) = <<>>
    BY <1>4 DEF Converted, Dropped
  <2> QED BY <2>1, <2>2 DEF Leading
<1>5. CASE line.put # "hidden" /\ line.op = "run" /\ ~Dropped(line)
  <2> DEFINE l == [[line EXCEPT !.how = IdElf(At(d, line.arg))] EXCEPT !.exec = FALSE]
  <2>1. Chdir(line, d) = d /\ line.arg \in Names
    BY <1>1, <1>5 DEF Enter, Chdir, Dropped
  <2>2. Converted(line, d) = <<l>>
    BY <1>5 DEF Converted, Passed, Dropped
  <2>3. IdElf(At(d, line.arg)) \in Elf \cup {"plain"}
    BY <2>1, CardLines DEF At
  <2>4. /\ l \in ScriptLine /\ l.op = "run" /\ l.arg = line.arg /\ l.exec = FALSE
        /\ l.how = IdElf(At(d, line.arg))
    BY <1>1, <1>5, <2>3 DEF ScriptLine, InputLine, Operations
  <2> HIDE DEF l
  <2>5. Known(l, d, files) /\ Goes(l, d, d, files)
    BY <2>1, <2>4 DEF Known, Goes, IdElf, At
  <2> QED BY <2>1, <2>2, <2>4, <2>5 DEF Leading
<1>6. CASE line.put # "hidden" /\ line.op \in {"other", "cd", "exit"} /\ ~Dropped(line)
  <2> DEFINE l == [line EXCEPT !.exec = FALSE]
  <2>1. Converted(line, d) = <<l>>
    BY <1>6 DEF Converted, Passed, Dropped
  <2>2. /\ l \in ScriptLine /\ l.op = line.op /\ l.arg = line.arg /\ l.op # "run"
        /\ l.op # "menu" /\ l.put = line.put
    BY <1>1, <1>6 DEF ScriptLine, InputLine, Operations
  <2> HIDE DEF l
  <2>3. Goes(l, d, Chdir(line, d), files)
    BY <1>6, <2>2 DEF Goes, Chdir, Enter, There, Exists
  <2>4. Known(l, d, files)
    BY <2>2 DEF Known
  <2> QED BY <2>1, <2>2, <2>3, <2>4 DEF Leading
<1>7. line.op = "blacklisted" => Dropped(line)
  BY DEF Dropped
<1> QED BY <1>1, <1>2, <1>3, <1>4, <1>5, <1>6, <1>7

-----------------------------------------------------------------------------
\* What the steps have in common: one stack changes at its top.
LEMMA RunningIs ==
  ASSUME SessionInv, NEW i \in Stacks
  PROVE  /\ Sound(procs[i], files) /\ Fine(Running(i), files) /\ Running(i) = Last(procs[i])
         /\ procs[i] \in Seq(Processes) /\ procs[i] # <<>> /\ Running(i) \in Processes
         /\ Runs(i, "prep") <=> Prep(procs[i])
         /\ Runs(i, "prep") => Prepared(Running(i), script, files)
         /\ Runs(i, "prep") => \A j \in Stacks : Prep(procs[j]) => j = i
         /\ Free <=> \A j \in Stacks : ~Prep(procs[j])
<1>1. Sound(procs[i], files)
  BY DEF SessionInv, Good, Stacks
<1>2. procs[i] \in Seq(Processes) /\ procs[i] # <<>>
  BY <1>1 DEF Sound
<1>3. Len(procs[i]) \in 1..Len(procs[i]) /\ Last(procs[i]) = procs[i][Len(procs[i])]
  <2> DEFINE s == procs[i]
  <2>1. Len(s) \in Nat /\ Len(s) >= 1 /\ Last(s) = s[Len(s)]
    BY <1>2, Ends
  <2> HIDE DEF s
  <2>2. Len(s) \in 1..Len(s)
    BY <2>1
  <2> QED BY <2>1, <2>2 DEF s
<1>4. Running(i) = Last(procs[i])
  BY DEF Running
<1>5. Fine(Running(i), files)
  BY <1>1, <1>3, <1>4 DEF Sound
<1>6. \A j \in Stacks : Runs(j, "prep") <=> Prep(procs[j])
  BY DEF Runs, Running, Prep
<1>7. Free <=> \A j \in Stacks : ~Prep(procs[j])
  BY <1>6 DEF Free
<1>8. Running(i) \in Processes
  BY <1>5 DEF Fine
<1>9. Runs(i, "prep") => Prepared(Running(i), script, files)
  BY <1>4, <1>6 DEF SessionInv, Good, Stacks
<1>10. Runs(i, "prep") => \A j \in Stacks : Prep(procs[j]) => j = i
  BY <1>6 DEF SessionInv, Good, OnePrep, Stacks
<1> QED BY <1>1, <1>2, <1>4, <1>5, <1>6, <1>7, <1>8, <1>9, <1>10

LEMMA TopChanges ==
  ASSUME SessionInv, NEW i \in Stacks, NEW t, t # <<>>, Becomes(i, t), Sound(t, files),
         Heads(t[1]) => Heads(procs[i][1]), Heads(procs[i][1]) => left' \/ Heads(t[1]),
         left => left',
         Prep(t) => Prepared(Last(t), script', files) /\ (Runs(i, "prep") \/ Free),
         script' = script \/ Runs(i, "prep") \/ Free
  PROVE  Good(procs', script', files, left')
<1>1. Good(procs, script, files, left) /\ i \in DOMAIN procs
  BY DEF SessionInv, Stacks
<1>2. procs' = [procs EXCEPT ![i] = t]
  BY DEF Becomes
<1>3. Prep(t) => Prep(procs[i]) \/ \A j \in DOMAIN procs : ~Prep(procs[j])
  BY RunningIs DEF Stacks
<1>4. script' = script \/ \A j \in DOMAIN procs : Prep(procs[j]) => j = i
  BY RunningIs DEF Stacks
<1>5. Good([procs EXCEPT ![i] = t], script', files, left')
  BY <1>1, <1>3, <1>4, Replaced
<1> QED BY <1>2, <1>5

LEMMA TopRenewed ==
  ASSUME SessionInv, NEW i \in Stacks, NEW p, Fine(p, files), Heads(p) => Heads(Running(i)),
         Heads(Running(i)) => left' \/ Heads(p)
  PROVE  LET t == Append(Front(procs[i]), p)
         IN  /\ Sound(t, files) /\ t # <<>> /\ Last(t) = p
             /\ Heads(t[1]) => Heads(procs[i][1])
             /\ Heads(procs[i][1]) => left' \/ Heads(t[1])
<1> DEFINE s == procs[i]
<1>1. Sound(s, files) /\ (Heads(p) => Heads(Last(s))) /\ (Heads(Last(s)) => left' \/ Heads(p))
  BY RunningIs
<1> HIDE DEF s
<1>2. /\ Sound(Append(Front(s), p), files) /\ Append(Front(s), p) # <<>>
      /\ Last(Append(Front(s), p)) = p /\ (Heads(Append(Front(s), p)[1]) => Heads(s[1]))
      /\ Heads(s[1]) /\ ~Heads(Append(Front(s), p)[1]) => Heads(Last(s)) /\ ~Heads(p)
  BY <1>1, Renewed
<1>3. Heads(s[1]) => left' \/ Heads(Append(Front(s), p)[1])
  BY <1>1, <1>2
<1> QED BY <1>2, <1>3 DEF s

LEMMA BecomeKeeps ==
  ASSUME SessionInv, NEW i \in Stacks, NEW p, Become(i, p), Fine(p, files),
         Heads(p) => Heads(Running(i)), Heads(Running(i)) => left' \/ Heads(p), left => left',
         p.kind = "prep" => Prepared(p, script', files) /\ (Runs(i, "prep") \/ Free),
         script' = script \/ Runs(i, "prep") \/ Free
  PROVE  Good(procs', script', files, left')
<1> DEFINE t == Append(Front(procs[i]), p)
<1>1. /\ Sound(t, files) /\ t # <<>> /\ Last(t) = p /\ (Heads(t[1]) => Heads(procs[i][1]))
      /\ Heads(procs[i][1]) => left' \/ Heads(t[1])
  BY TopRenewed
<1>2. Becomes(i, t)
  BY DEF Become
<1> HIDE DEF t
<1>3. Prep(t) <=> p.kind = "prep"
  BY <1>1 DEF Prep
<1> QED BY <1>1, <1>2, <1>3, TopChanges

LEMMA CallKeeps ==
  ASSUME SessionInv, NEW i \in Stacks, NEW p, Call(i, p), Fine(p, files),
         Waiting(Running(i)), ~Heads(p), left => left',
         p.kind = "prep" => Prepared(p, script', files) /\ (Runs(i, "prep") \/ Free),
         script' = script \/ Runs(i, "prep") \/ Free
  PROVE  Good(procs', script', files, left')
<1> DEFINE t == Append(procs[i], p)
<1>1. Sound(t, files) /\ t # <<>> /\ Last(t) = p /\ (Heads(t[1]) <=> Heads(procs[i][1]))
  BY RunningIs, Called
<1>2. Becomes(i, t)
  BY DEF Call
<1> HIDE DEF t
<1>3. Prep(t) <=> p.kind = "prep"
  BY <1>1 DEF Prep
<1> QED BY <1>1, <1>2, <1>3, TopChanges

LEMMA ReturnKeeps ==
  ASSUME SessionInv, NEW i \in Stacks, Return(i), Heads(Running(i)) => left', left => left',
         script' = script \/ Runs(i, "prep") \/ Free
  PROVE  Good(procs', script', files, left')
<1> DEFINE t == Front(procs[i])
<1>1. \/ t = <<>> /\ (Heads(procs[i][1]) => left')
      \/ /\ Sound(t, files) /\ t # <<>> /\ Waiting(Last(t))
         /\ Heads(t[1]) <=> Heads(procs[i][1])
  BY RunningIs, Returned
<1>2. Becomes(i, t)
  BY DEF Return
<1> HIDE DEF t
<1>3. CASE t = <<>> /\ (Heads(procs[i][1]) => left')
  <2>1. procs' = RemoveAt(procs, i)
    BY <1>2, <1>3 DEF Becomes
  <2>2. Good(procs, script, files, left) /\ i \in DOMAIN procs
    BY DEF SessionInv, Stacks
  <2>3. script' = script \/ \A j \in DOMAIN procs : Prep(procs[j]) => j = i
    BY RunningIs DEF Stacks
  <2>4. Good(RemoveAt(procs, i), script', files, left')
    BY <1>3, <2>2, <2>3, Removed
  <2> QED BY <2>1, <2>4
<1>4. CASE /\ Sound(t, files) /\ t # <<>> /\ Waiting(Last(t))
           /\ Heads(t[1]) <=> Heads(procs[i][1])
  <2>1. ~Prep(t)
    BY <1>4 DEF Prep, Waiting
  <2> QED BY <1>2, <1>4, <2>1, TopChanges
<1> QED BY <1>1, <1>3, <1>4

-----------------------------------------------------------------------------
\* ginge_prep.
LEMMA ProcessType ==
  ASSUME NEW kind \in {"menu", "prep", "sh", "app"}, NEW d \in Dirs
  PROVE  /\ Process(kind, d) \in Processes /\ Process(kind, d).kind = kind
         /\ Process(kind, d).cwd = d /\ Process(kind, d).home = d /\ ~Process(kind, d).menu
         /\ Process(kind, d).text = <<>> /\ Process(kind, d).pos = 0
         /\ ~Process(kind, d).astray
  BY DEF Process, Processes

LEMMA ConvertLineKeeps ==
  ASSUME SessionInv, NEW i \in Stacks, ConvertLine(i)
  PROVE  SessionInv'
<1> DEFINE p == Running(i)  line == Head(p.text)  e == Chdir(line, p.cwd)
           q == [p EXCEPT !.text = Tail(@), !.cwd = Chdir(line, @)]
<1>1. /\ p \in Processes /\ p.kind = "prep" /\ p.text # <<>> /\ p.text \in Seq(Inputs)
      /\ Prepared(p, script, files) /\ Card(files) /\ script \in Seq(ScriptLine)
      /\ Runs(i, "prep")
  BY RunningIs DEF ConvertLine, Runs, Fine, SessionInv
<1>2. /\ script' = script \o Converted(line, p.cwd) /\ Become(i, q)
      /\ UNCHANGED <<files, preps, bare, left>>
  BY DEF ConvertLine, history
<1>3. line \in Inputs /\ Tail(p.text) \in Seq(Inputs) /\ p.cwd \in Dirs
  <2> DEFINE t == p.text
  <2>1. t \in Seq(Inputs) /\ t # <<>>
    BY <1>1
  <2> HIDE DEF t
  <2>2. Head(t) \in Inputs /\ Tail(t) \in Seq(Inputs)
    BY <2>1
  <2> QED BY <1>1, <2>2 DEF t, Processes
<1>4. e \in Dirs /\ Leading(line, p.cwd)
  BY <1>1, <1>3, EnterType, ConvertedIs
<1>5. Tail(p.text) \in Seq(ScriptLine)
  <2>1. Tail(p.text) \in Seq(ScriptLine)
    <3> DEFINE t == p.text
    <3>1. t \in Seq(ScriptLine) /\ t # <<>>
      BY <1>1 DEF Processes
    <3> HIDE DEF t
    <3>2. Tail(t) \in Seq(ScriptLine)
      BY <3>1
    <3> QED BY <3>2 DEF t
  <2> QED BY <2>1
<1>6. /\ q \in Processes /\ q.kind = "prep" /\ q.text = Tail(p.text) /\ q.cwd = e
      /\ q.home = p.home /\ q.menu = p.menu /\ q.pos = p.pos /\ p.pos = 0
  <2> HIDE DEF e, line
  <2>1. q = [p EXCEPT !.text = Tail(@), !.cwd = e]
    BY <1>1 DEF e, Processes
  <2>2. p.pos = 0
    BY <1>1, RunningIs DEF Fine
  <2> QED BY <1>1, <1>4, <1>5, <2>1, <2>2 DEF Processes
<1> HIDE DEF q, e, line
<1>7. Fine(q, files)
  BY <1>3, <1>6 DEF Fine
<1>8. Heads(q) <=> Heads(p)
  BY <1>1, <1>6 DEF Heads
<1>9. script' \in Seq(ScriptLine) /\ Prepared(q, script', files)
  <2>1. CASE Converted(line, p.cwd) = <<>> /\ e = p.cwd
    <3>1. script' = script
      BY <1>1, <1>2, <2>1
    <3> QED BY <1>1, <1>6, <2>1, <3>1 DEF Prepared
  <2>2. CASE \E l \in ScriptLine :
               /\ Converted(line, p.cwd) = <<l>> /\ l.op # "menu"
               /\ Known(l, p.cwd, files) /\ Goes(l, p.cwd, e, files)
    <3>1. PICK l \in ScriptLine :
               /\ Converted(line, p.cwd) = <<l>> /\ l.op # "menu"
               /\ Known(l, p.cwd, files) /\ Goes(l, p.cwd, e, files)
      BY <2>2
    <3>2. script' = Append(script, l)
      BY <1>1, <1>2, <3>1
    <3>3. PICK D : Walk(D, script, files) /\ D[1] = p.home /\ D[Len(script) + 1] = p.cwd
      BY <1>1 DEF Prepared
    <3>4. PICK E : /\ Walk(E, Append(script, l), files) /\ E[Len(script) + 2] = e
                   /\ \A k \in 1..(Len(script) + 1) : E[k] = D[k]
      BY <1>1, <1>4, <3>1, <3>3, WalkMore
    <3>5. /\ Len(script) \in Nat /\ Len(script') = Len(script) + 1 /\ script' \in Seq(ScriptLine)
          /\ script'[Len(script) + 1] = l /\ \A k \in 1..Len(script) : script'[k] = script[k]
      BY <1>1, <3>1, <3>2, Longer
    <3>6. E[1] = q.home /\ E[Len(script') + 1] = q.cwd
      <4>1. 1 \in 1..(Len(script) + 1) /\ Len(script') + 1 = Len(script) + 2
        BY <3>5
      <4> QED BY <1>6, <3>3, <3>4, <4>1
    <3>7. \A k \in 1..Len(script') : script'[k].op # "menu"
      <4>1. \A k \in 1..Len(script) : script[k].op # "menu"
        BY <1>1 DEF Prepared
      <4> QED BY <3>1, <3>5, <4>1
    <3> QED BY <3>2, <3>4, <3>5, <3>6, <3>7 DEF Prepared
  <2> QED BY <1>4, <2>1, <2>2 DEF Leading, e
<1>10. Good(procs', script', files, left')
  BY <1>1, <1>2, <1>7, <1>8, <1>9, BecomeKeeps
<1> QED BY <1>2, <1>9, <1>10 DEF SessionInv

\* What a new ginge_prep has written to begin with.
LEMMA HeaderIs ==
  ASSUME Card(files), NEW d \in Dirs, NEW n \in Names, NEW p, p.home = d, p.cwd = d
  PROVE  Header(d, n) \in Seq(ScriptLine) /\ Prepared(p, Header(d, n), files)
<1> DEFINE none == <<>>
<1>1. PICK D : Walk(D, none, files) /\ D[1] = d
  BY WalkNone
<1>2. CASE At(d, n).kind \notin Elf
  <2>1. Header(d, n) = <<>>
    BY <1>2 DEF Header
  <2> QED BY <1>1, <2>1 DEF Prepared
<1>3. CASE At(d, n).kind \in Elf
  <2> DEFINE l == [Line(FALSE, "run", n) EXCEPT !.how = IdElf(At(d, n))]
  <2>1. Header(d, n) = <<l>>
    BY <1>3 DEF Header
  <2>2. n \in STRING
    BY SessionAssumption
  <2>3. /\ l \in ScriptLine /\ l.op = "run" /\ l.arg = n /\ l.exec = FALSE
        /\ l.how = IdElf(At(d, n))
    BY <2>2, CardLines DEF Line, ScriptLine, Operations, At
  <2> HIDE DEF l
  <2>4. Known(l, d, files) /\ Goes(l, d, d, files)
    BY <1>3, <2>3 DEF Known, Goes, IdElf, At
  <2>5. none \in Seq(ScriptLine) /\ Len(none) = 0 /\ Append(none, l) = <<l>>
    BY <2>3
  <2> HIDE DEF none
  <2>6. PICK E : /\ Walk(E, Append(none, l), files) /\ E[Len(none) + 2] = d
                 /\ \A k \in 1..(Len(none) + 1) : E[k] = D[k]
    <3>1. d = D[Len(none) + 1]
      BY <1>1, <2>5
    <3>2. l \in ScriptLine /\ none \in Seq(ScriptLine) /\ Walk(D, none, files)
      BY <1>1, <2>3, <2>5
    <3> QED BY <2>4, <3>1, <3>2, WalkMore
  <2>7. /\ Header(d, n) \in Seq(ScriptLine) /\ Len(Header(d, n)) = 1 /\ Header(d, n)[1] = l
    BY <2>1, <2>3
  <2>8. E[1] = d /\ E[2] = d /\ Walk(E, Header(d, n), files)
    BY <1>1, <2>1, <2>5, <2>6
  <2>9. \A k \in 1..Len(Header(d, n)) : Header(d, n)[k].op # "menu"
    BY <2>3, <2>7
  <2> QED BY <2>7, <2>8, <2>9 DEF Prepared
<1> QED BY <1>2, <1>3

LEMMA RunScriptKeeps ==
  ASSUME Whole, SessionInv, NEW i \in Stacks, RunScript(i)
  PROVE  SessionInv'
<1> DEFINE p == Running(i)  l == Line(TRUE, "menu", "")
           q == [Process("sh", p.home) EXCEPT !.text = script']
<1>1. /\ p \in Processes /\ p.kind = "prep" /\ p.home \in Dirs /\ p.cwd \in Dirs
      /\ Prepared(p, script, files) /\ script \in Seq(ScriptLine) /\ Runs(i, "prep")
  BY RunningIs DEF RunScript, Runs, SessionInv, Processes
<1>2. script' = (IF p.menu THEN Append(script, l) ELSE script) /\ Become(i, q)
      /\ UNCHANGED <<files, preps, bare, left>>
  BY DEF RunScript, StartDir, history
<1>3. PICK D : Walk(D, script, files) /\ D[1] = p.home /\ D[Len(script) + 1] = p.cwd
  BY <1>1 DEF Prepared
<1>4. l \in ScriptLine /\ l.op = "menu" /\ l.put = "open"
  BY DEF Line, ScriptLine, Operations
<1> HIDE DEF l
<1>5. /\ script' \in Seq(ScriptLine) /\ Len(script') \in Nat
      /\ p.menu <=> \E k \in 1..Len(script') : script'[k].op = "menu"
  <2>1. \A k \in 1..Len(script) : script[k].op # "menu"
    BY <1>1 DEF Prepared
  <2>2. CASE p.menu
    <3>1. /\ Append(script, l) \in Seq(ScriptLine) /\ Len(script) \in Nat
          /\ Len(Append(script, l)) = Len(script) + 1 /\ Append(script, l)[Len(script) + 1] = l
      BY <1>1, <1>4, Longer
    <3>2. /\ script' \in Seq(ScriptLine) /\ Len(script') = Len(script) + 1
          /\ script'[Len(script) + 1] = l
      BY <1>2, <2>2, <3>1
    <3>3. Len(script) + 1 \in 1..Len(script')
      BY <3>1, <3>2
    <3> QED BY <1>4, <2>2, <3>1, <3>2, <3>3
  <2>3. CASE ~p.menu
    BY <1>1, <1>2, <2>1, <2>3
  <2> QED BY <2>2, <2>3
<1>6. \E E : Walk(E, script', files) /\ E[1] = p.home
  <2>1. CASE p.menu
    <3>1. Known(l, p.cwd, files) /\ Goes(l, p.cwd, p.cwd, files)
      BY <1>4 DEF Known, Goes
    <3>2. PICK E : /\ Walk(E, Append(script, l), files) /\ E[Len(script) + 2] = p.cwd
                   /\ \A k \in 1..(Len(script) + 1) : E[k] = D[k]
      BY <1>1, <1>3, <1>4, <3>1, WalkMore
    <3>3. 1 \in 1..(Len(script) + 1)
      BY <1>1
    <3> QED BY <1>2, <1>3, <2>1, <3>2, <3>3
  <2>2. CASE ~p.menu
    BY <1>2, <1>3, <2>2
  <2> QED BY <2>1, <2>2
<1>7. /\ q \in Processes /\ q.kind = "sh" /\ q.text = script' /\ q.pos = 0 /\ q.cwd = p.home
      /\ ~q.menu
  <2> DEFINE r == Process("sh", p.home)  s == script'
  <2>1. /\ r \in Processes /\ r.kind = "sh" /\ r.cwd = p.home /\ ~r.menu /\ r.pos = 0
        /\ s \in Seq(ScriptLine) /\ q = [r EXCEPT !.text = s]
    BY <1>1, <1>5, ProcessType
  <2> HIDE DEF q, r, s
  <2>2. /\ q \in Processes /\ q.kind = "sh" /\ q.text = s /\ q.pos = 0 /\ q.cwd = p.home
        /\ ~q.menu
    BY <2>1 DEF Processes
  <2> QED BY <2>2 DEF s
<1> HIDE DEF q
<1>8. Fine(q, files)
  <2>1. PICK E : Walk(E, script', files) /\ E[1] = p.home
    BY <1>6
  <2>2. Place(q, E[q.pos + 1]) /\ q.pos <= Len(q.text)
    BY <1>5, <1>7, <2>1 DEF Place
  <2>3. Follows(q, files)
    BY <1>7, <2>1, <2>2 DEF Follows
  <2> QED BY <1>7, <2>3 DEF Fine
<1>9. Heads(q) <=> Heads(p)
  <2>1. Heads(p) <=> p.menu
    BY <1>1 DEF Heads
  <2>2. Heads(q) <=> \E k \in 1..Len(script') : script'[k].op = "menu"
    BY <1>7 DEF Heads
  <2> QED BY <1>5, <2>1, <2>2
<1>10. Good(procs', script', files, left')
  BY <1>1, <1>2, <1>7, <1>8, <1>9, BecomeKeeps
<1> QED BY <1>2, <1>5, <1>10 DEF SessionInv
-----------------------------------------------------------------------------
\* The shell.
LEMMA WholeHeads ==
  ASSUME Whole, NEW p
  PROVE  Leads(p) <=> Heads(p)
  BY DEF Leads, Heads, TextOf

\* The line a shell is at.
ShellLineAt(i) ==
  Runs(i, "sh") /\ Running(i).pos < Len(ShellText(i))

LEMMA ShellAt ==
  ASSUME Whole, SessionInv, NEW i \in Stacks, ShellLineAt(i)
  PROVE  LET p == Running(i)  line == ShellLine(i)
         IN  /\ p \in Processes /\ p.kind = "sh" /\ ~p.menu /\ ShellText(i) = p.text
             /\ line = p.text[p.pos + 1] /\ line \in ScriptLine
             /\ p.pos + 1 \in 1..Len(p.text)
             /\ \E D : /\ Walk(D, p.text, files) /\ Place(p, D[p.pos + 1])
                       /\ Known(line, D[p.pos + 1], files) /\ D[p.pos + 1] \in Dirs
                       /\ Goes(line, D[p.pos + 1], D[p.pos + 2], files)
<1> DEFINE p == Running(i)  line == ShellLine(i)
<1>1. p \in Processes /\ Fine(p, files)
  BY RunningIs
<1>2. p.kind = "sh" /\ ShellText(i) = p.text /\ line = p.text[p.pos + 1]
      /\ p.pos < Len(p.text)
  BY DEF ShellLineAt, Runs, ShellText, ShellLine, TextOf
<1>3. ~p.menu /\ Follows(p, files)
  BY <1>1, <1>2 DEF Fine
<1>4. p.text \in Seq(ScriptLine) /\ p.pos \in Nat
  BY <1>1 DEF Processes
<1>5. Len(p.text) \in Nat /\ p.pos + 1 \in 1..Len(p.text)
  BY <1>2, <1>4
<1> HIDE DEF p, line
<1>6. line \in ScriptLine
  BY <1>2, <1>4, <1>5
<1>7. PICK D : Walk(D, p.text, files) /\ Place(p, D[p.pos + 1])
  BY <1>3 DEF Follows
<1>8. /\ Known(line, D[p.pos + 1], files) /\ Goes(line, D[p.pos + 1], D[p.pos + 2], files)
      /\ D[p.pos + 1] \in Dirs
  <2>1. /\ D \in [1..(Len(p.text) + 1) -> Dirs]
        /\ \A k \in 1..Len(p.text) :
             Known(p.text[k], D[k], files) /\ Goes(p.text[k], D[k], D[k + 1], files)
    BY <1>7 DEF Walk
  <2>2. (p.pos + 1) + 1 = p.pos + 2 /\ p.pos + 1 \in 1..(Len(p.text) + 1)
    BY <1>4, <1>5
  <2>3. /\ Known(p.text[p.pos + 1], D[p.pos + 1], files)
        /\ Goes(p.text[p.pos + 1], D[p.pos + 1], D[(p.pos + 1) + 1], files)
    BY <1>5, <2>1
  <2> QED BY <1>2, <2>1, <2>2, <2>3
<1> QED BY <1>1, <1>2, <1>3, <1>5, <1>6, <1>7, <1>8 DEF p, line

LEMMA LineAt ==
  ASSUME NEW i \in Stacks, NEW op, AtLine(i, op)
  PROVE  ShellLineAt(i) /\ ShellLine(i).op = op
  BY DEF AtLine, ShellLineAt

\* A shell that goes on to the next line goes on following its script, unless
\* it has not done what ginge_prep did, and is astray.
LEMMA Advances ==
  ASSUME Whole, SessionInv, NEW i \in Stacks, ShellLineAt(i), ShellLine(i).op # "menu",
         NEW e \in Dirs, NEW away \in BOOLEAN, Running(i).astray => away,
         NEW q, q = [Advanced(i) EXCEPT !.cwd = e, !.astray = away],
         \/ away
         \/ e = Enter(ShellLine(i), Running(i).cwd) /\ ShellLine(i).put # "hidden"
         \/ e = Running(i).cwd /\ (ShellLine(i).op # "cd" \/ ShellLine(i).put = "hidden")
  PROVE  /\ Fine(q, files) /\ q.kind = "sh" /\ (Heads(q) <=> Heads(Running(i)))
<1> DEFINE p == Running(i)  line == ShellLine(i)
<1>1. /\ p \in Processes /\ p.kind = "sh" /\ ~p.menu /\ line = p.text[p.pos + 1]
      /\ p.pos + 1 \in 1..Len(p.text)
  BY ShellAt
<1>2. PICK D : /\ Walk(D, p.text, files) /\ Place(p, D[p.pos + 1])
               /\ Known(line, D[p.pos + 1], files) /\ D[p.pos + 1] \in Dirs
               /\ Goes(line, D[p.pos + 1], D[p.pos + 2], files)
  BY ShellAt
<1>3. /\ q \in Processes /\ q.kind = "sh" /\ q.cwd = e /\ q.pos = p.pos + 1 /\ q.text = p.text
      /\ ~q.menu /\ q.astray = away
  <2>1. p.pos \in Nat /\ p.pos + 1 \in Nat
    BY <1>1 DEF Processes
  <2>2. q = [p EXCEPT !.pos = p.pos + 1, !.cwd = e, !.astray = away]
    BY <1>1 DEF Advanced, Processes
  <2> HIDE DEF p
  <2> QED BY <1>1, <2>1, <2>2 DEF Processes
<1>4. away \/ e = D[p.pos + 2] \/ e \in Missing
  <2> SUFFICES ASSUME ~away PROVE e = D[p.pos + 2] \/ e \in Missing
    OBVIOUS
  <2>1. p.cwd = D[p.pos + 1] \/ p.cwd \in Missing
    BY <1>2 DEF Place
  <2>2. CASE line.op = "cd" /\ line.arg \in Dirs /\ line.put # "hidden"
    <3>1. e = Enter(line, p.cwd)
      BY <2>2
    <3> QED BY <1>2, <2>1, <2>2, <3>1 DEF Goes, Enter, There, Exists
  <2>3. CASE ~(line.op = "cd" /\ line.arg \in Dirs /\ line.put # "hidden")
    <3>1. e = p.cwd
      BY <2>3 DEF Enter
    <3> QED BY <1>2, <2>1, <2>3, <3>1 DEF Goes
  <2> QED BY <2>2, <2>3
<1>5. p.pos \in Nat /\ Len(p.text) \in Nat
  BY <1>1 DEF Processes
<1>6. Follows(q, files)
  <2>1. q.pos <= Len(q.text) /\ q.pos + 1 = p.pos + 2
    BY <1>1, <1>3, <1>5
  <2>2. Place(q, D[q.pos + 1])
    BY <1>3, <1>4, <2>1 DEF Place
  <2> QED BY <1>2, <1>3, <2>1, <2>2 DEF Follows
<1>7. Heads(q) <=> Heads(p)
  <2>1. \A k \in (p.pos + 1)..Len(p.text) :
          p.text[k].op = "menu" => k \in ((p.pos + 1) + 1)..Len(p.text)
    BY <1>1, <1>5
  <2> HIDE DEF p
  <2> QED BY <1>1, <1>3, <1>5, <2>1 DEF Heads
<1> QED BY <1>3, <1>6, <1>7 DEF Fine

LEMMA ShSkipKeeps ==
  ASSUME Whole, SessionInv, NEW i \in Stacks, ShSkip(i)
  PROVE  SessionInv'
<1> DEFINE p == Running(i)  line == ShellLine(i)
           away == p.astray \/ (line.op = "cd" /\ line.put = "inner")
           q == [Advanced(i) EXCEPT !.cwd = p.cwd, !.astray = away]
<1>1. ShellLineAt(i) /\ line.put # "open" /\ UNCHANGED <<script, files, preps, bare, left>>
  BY DEF ShSkip, ShellLineAt, history
<1>2. p \in Processes /\ p.cwd \in Dirs /\ p.astray \in BOOLEAN
  BY RunningIs DEF Processes
<1>3. line.op # "menu" /\ line.put \in {"open", "hidden", "inner"}
  BY <1>1, ShellAt DEF Known, ScriptLine
<1>4. Become(i, q)
  <2>1. [Advanced(i) EXCEPT !.astray = @ \/ (line.op = "cd" /\ line.put = "inner")] = q
    BY <1>2 DEF Advanced, Processes
  <2> QED BY <2>1 DEF ShSkip
<1>5. Fine(q, files) /\ q.kind = "sh" /\ (Heads(q) <=> Heads(p))
  <2>1. away \in BOOLEAN /\ (p.astray => away)
    BY <1>2
  <2>2. away \/ (p.cwd = p.cwd /\ (line.op # "cd" \/ line.put = "hidden"))
    BY <1>1, <1>3
  <2> HIDE DEF away
  <2> QED BY <1>1, <1>2, <1>3, <2>1, <2>2, Advances
<1> HIDE DEF q
<1>6. Good(procs', script', files, left')
  BY <1>1, <1>4, <1>5, BecomeKeeps
<1> QED BY <1>1, <1>6 DEF SessionInv

LEMMA ShChangeDirKeeps ==
  ASSUME Whole, SessionInv, NEW i \in Stacks, ShChangeDir(i)
  PROVE  SessionInv'
<1> DEFINE p == Running(i)  line == ShellLine(i)  e == Enter(line, p.cwd)
           away == p.astray \/ line.put = "hidden"
           q == [Advanced(i) EXCEPT !.cwd = e, !.astray = away]
<1>1. AtLine(i, "cd") /\ UNCHANGED <<script, files, preps, bare, left>>
  BY DEF ShChangeDir, history
<1>2. e \in Dirs /\ p \in Processes /\ p.astray \in BOOLEAN /\ p.cwd \in Dirs
  BY RunningIs, EnterType DEF Processes
<1>3. ShellLineAt(i) /\ line.op = "cd"
  BY <1>1, LineAt
<1>4. Become(i, q)
  <2>1. Advanced(i).cwd = p.cwd /\ Advanced(i).astray = p.astray
    BY <1>2 DEF Advanced, Processes
  <2> QED BY <2>1 DEF ShChangeDir
<1>5. Fine(q, files) /\ q.kind = "sh" /\ (Heads(q) <=> Heads(p))
  <2>1. away \in BOOLEAN /\ (p.astray => away) /\ line.op # "menu"
    BY <1>2, <1>3
  <2>2. away \/ (e = Enter(line, p.cwd) /\ line.put # "hidden")
    OBVIOUS
  <2> HIDE DEF away, e
  <2> QED BY <1>2, <1>3, <2>1, <2>2, Advances DEF e
<1> HIDE DEF q
<1>6. Good(procs', script', files, left')
  BY <1>1, <1>4, <1>5, BecomeKeeps
<1> QED BY <1>1, <1>6 DEF SessionInv

\* A shell that does nothing but go on.
LEMMA GoesOn ==
  ASSUME Whole, SessionInv, NEW i \in Stacks, NEW op, AtLine(i, op), op # "menu", op # "cd"
  PROVE  /\ Fine(Advanced(i), files) /\ Advanced(i).kind = "sh"
         /\ Heads(Advanced(i)) <=> Heads(Running(i))
<1> DEFINE e == Running(i).cwd  away == Running(i).astray
           q == [Advanced(i) EXCEPT !.cwd = e, !.astray = away]
<1>1. Running(i) \in Processes /\ e \in Dirs /\ away \in BOOLEAN
  BY RunningIs DEF Processes
<1>2. q = Advanced(i)
  BY <1>1 DEF Advanced, Processes
<1>3. ShellLineAt(i) /\ ShellLine(i).op = op
  BY LineAt
<1>4. Fine(q, files) /\ q.kind = "sh" /\ (Heads(q) <=> Heads(Running(i)))
  BY <1>1, <1>3, Advances
<1> QED BY <1>2, <1>4

LEMMA GoesOnKeeps ==
  ASSUME Whole, SessionInv, NEW i \in Stacks, NEW op, AtLine(i, op), op # "menu", op # "cd",
         Become(i, Advanced(i)), script' = script, left' = left
  PROVE  Good(procs', script', files, left')
  BY GoesOn, BecomeKeeps

LEMMA ShUnpackKeeps ==
  ASSUME Whole, SessionInv, NEW i \in Stacks, ShUnpack(i)
  PROVE  SessionInv'
<1>1. AtLine(i, "unpack") /\ Become(i, Advanced(i)) /\ UNCHANGED <<script, preps, bare, left>>
  BY DEF ShUnpack, history
<1>2. Good(procs', script', files, left')
  BY <1>1, GoesOnKeeps
<1>3. Card(files)
  BY DEF SessionInv
<1>4. Card(files') /\ Grows(files, files')
  <2>1. CASE files' = files
    BY <1>3, <2>1 DEF Grows
  <2>2. CASE files' = [d \in Dirs |-> [n \in Names |->
                         IF Unpacked[d][n] # NoFile THEN Unpacked[d][n] ELSE files[d][n]]]
    <3>1. \A d \in Dirs, n \in Names :
            /\ files'[d][n] = IF Unpacked[d][n] # NoFile THEN Unpacked[d][n] ELSE files[d][n]
            /\ files[d][n] \in Contents /\ Unpacked[d][n] \in Contents
      BY <1>3, <2>2, SessionAssumption DEF Card, Cards
    <3>2. files' \in Cards
      BY <2>2, <3>1 DEF Cards
    <3>3. \A d \in Dirs, n \in Names : files'[d][n] \in {Disk[d][n], Unpacked[d][n]}
      BY <1>3, <3>1 DEF Card
    <3>4. Grows(files, files')
      BY <3>1 DEF Grows
    <3> QED BY <3>2, <3>3, <3>4 DEF Card
  <2> QED BY <2>1, <2>2 DEF ShUnpack
<1>5. Good(procs', script', files', left')
  BY <1>2, <1>3, <1>4, GoodKept
<1> QED BY <1>1, <1>4, <1>5 DEF SessionInv

LEMMA ShRunKeeps ==
  ASSUME Whole, SessionInv, NEW i \in Stacks, ShRun(i)
  PROVE  SessionInv'
<1> DEFINE p == Running(i)  line == ShellLine(i)  file == At(p.cwd, line.arg)
           app == [Process("app", p.cwd) EXCEPT !.how = line.how]
           q == Advanced(i)  s == Append(Front(procs[i]), q)
<1>1. /\ AtLine(i, "run") /\ UNCHANGED <<script, files, preps>> /\ line.arg \in Names
      /\ file.kind \in Elf /\ Ran(i) = file
  <2>1. NoFile.kind \notin Elf
    BY DEF NoFile, File, Elf
  <2> QED BY <2>1 DEF ShRun, Ran
<1>2. /\ IF line.exec THEN Become(i, app) /\ Quits(i)
         ELSE Becomes(i, Front(procs[i]) \o <<q, app>>) /\ UNCHANGED left
      /\ bare' = bare \cup (IF file = Disk[p.cwd][line.arg] /\ line.how # file.kind
                            THEN {IF Unseen(i) THEN "unseen" ELSE "seen"} ELSE {})
  BY <1>1 DEF ShRun
<1>3. /\ p \in Processes /\ p.cwd \in Dirs /\ line \in ScriptLine /\ line.op = "run"
      /\ ShellLineAt(i)
  BY <1>1, LineAt, ShellAt DEF Processes
<1>4. PICK D : /\ Walk(D, p.text, files) /\ Place(p, D[p.pos + 1])
               /\ Known(line, D[p.pos + 1], files)
  BY <1>3, ShellAt
<1>5. line.put # "hidden" => ~line.exec
  BY <1>3, <1>4 DEF Known
<1>6. ~Unseen(i) => ~(file = Disk[p.cwd][line.arg] /\ line.how # file.kind)
  <2> SUFFICES ASSUME ~Unseen(i), file = Disk[p.cwd][line.arg] PROVE line.how = file.kind
    OBVIOUS
  <2>1. p.cwd \notin Missing
    <3> SUFFICES ASSUME p.cwd \in Missing PROVE FALSE
      OBVIOUS
    <3>1. file = NoFile
      BY <1>1, SessionAssumption
    <3>2. NoFile.kind = "none"
      BY DEF NoFile, File
    <3> QED BY <1>1, <3>1, <3>2 DEF Elf
  <2>2. p.cwd = D[p.pos + 1] /\ line.put # "hidden"
    BY <1>4, <2>1 DEF Place, Unseen
  <2> QED BY <1>1, <1>3, <1>4, <2>2 DEF Known, At
<1>7. bare' \subseteq {"unseen"}
  BY <1>2, <1>6 DEF SessionInv
<1>8. app \in Processes /\ app.kind = "app" /\ ~app.menu /\ app.pos = 0
  <2> DEFINE r == Process("app", p.cwd)
  <2>1. r \in Processes /\ r.kind = "app" /\ ~r.menu /\ r.pos = 0
    BY <1>3, ProcessType
  <2> HIDE DEF r, p, line
  <2>2. line.how \in Elf \cup {"plain"}
    BY <1>3 DEF ScriptLine
  <2>3. app = [r EXCEPT !.how = line.how]
    BY DEF r
  <2> HIDE DEF app
  <2> QED BY <2>1, <2>2, <2>3 DEF Processes
<1>9. Fine(app, files) /\ ~Heads(app)
  <2> HIDE DEF app
  <2> QED BY <1>8 DEF Fine, Heads
<1>10. Fine(q, files) /\ q.kind = "sh" /\ (Heads(q) <=> Heads(p))
  BY <1>1, GoesOn
<1> HIDE DEF app, q
<1>11. CASE line.exec
  <2>1. Become(i, app) /\ left' \in BOOLEAN /\ (left => left') /\ (Heads(p) => left')
    BY <1>2, <1>5, <1>11, WholeHeads DEF Quits
  <2>2. Good(procs', script', files, left')
    BY <1>1, <1>8, <1>9, <2>1, BecomeKeeps
  <2> QED BY <1>1, <1>7, <2>1, <2>2 DEF SessionInv
<1>12. CASE ~line.exec
  <2>1. left' = left /\ Becomes(i, Front(procs[i]) \o <<q, app>>)
    BY <1>2, <1>12
  <2>2. /\ Sound(s, files) /\ s # <<>> /\ Last(s) = q /\ (Heads(s[1]) => Heads(procs[i][1]))
        /\ Heads(procs[i][1]) => left' \/ Heads(s[1])
    BY <1>10, TopRenewed
  <2>3. Waiting(q)
    BY <1>10 DEF Waiting
  <2>4. /\ Sound(Append(s, app), files) /\ Append(s, app) # <<>> /\ Last(Append(s, app)) = app
        /\ Heads(Append(s, app)[1]) => Heads(procs[i][1])
        /\ Heads(procs[i][1]) => left' \/ Heads(Append(s, app)[1])
    <3> HIDE DEF s
    <3>1. /\ Sound(Append(s, app), files) /\ Append(s, app) # <<>> /\ Last(Append(s, app)) = app
          /\ Heads(Append(s, app)[1]) <=> Heads(s[1])
      BY <1>9, <2>2, <2>3, Called
    <3> QED BY <2>2, <3>1
  <2>5. Front(procs[i]) \o <<q, app>> = Append(s, app)
    <3>1. Front(procs[i]) \in Seq(Processes) /\ q \in Processes
      BY <1>10, RunningIs, Ends DEF Fine
    <3> QED BY <1>8, <3>1
  <2>6. Becomes(i, Append(s, app)) /\ ~Prep(Append(s, app))
    BY <1>8, <2>1, <2>4, <2>5 DEF Prep
  <2>7. Good(procs', script', files, left')
    <3> HIDE DEF s
    <3> QED BY <1>1, <2>1, <2>4, <2>6, TopChanges
  <2> QED BY <1>1, <1>7, <2>1, <2>7 DEF SessionInv
<1> QED BY <1>11, <1>12

\* A line that ends the shell; if that led to the menu, it was passed on as it
\* was.
LEMMA ShExitKeeps ==
  ASSUME Whole, SessionInv, NEW i \in Stacks, ShExit(i)
  PROVE  SessionInv'
<1> DEFINE p == Running(i)  line == ShellLine(i)
<1>1. Return(i) /\ Quits(i) /\ UNCHANGED <<script, files, preps, bare>>
  BY DEF ShExit
<1>2. /\ ShellLineAt(i)
      /\ line.op = "exit" \/ (line.op = "run" /\ line.exec)
  BY LineAt DEF ShExit
<1>3. PICK d : Known(line, d, files)
  BY <1>2, ShellAt
<1>4. line.op = "exit" \/ line.put = "hidden"
  BY <1>2, <1>3 DEF Known
<1>5. left' \in BOOLEAN /\ (left => left') /\ (Heads(p) => left')
  BY <1>1, <1>4, WholeHeads DEF Quits
<1>6. Good(procs', script', files, left')
  BY <1>1, <1>5, ReturnKeeps
<1> QED BY <1>1, <1>5, <1>6 DEF SessionInv

LEMMA ShOtherKeeps ==
  ASSUME Whole, SessionInv, NEW i \in Stacks, ShOther(i)
  PROVE  SessionInv'
<1>1. PICK op \in {"other", "blacklisted", "mount"} : AtLine(i, op)
  BY DEF ShOther
<1>2. Become(i, Advanced(i)) /\ UNCHANGED <<script, files, preps, bare, left>>
  BY DEF ShOther, history
<1>3. Good(procs', script', files, left')
  BY <1>1, <1>2, GoesOnKeeps
<1> QED BY <1>2, <1>3 DEF SessionInv

LEMMA ShRunNothingKeeps ==
  ASSUME Whole, SessionInv, NEW i \in Stacks, ShRunNothing(i)
  PROVE  SessionInv'
<1>1. /\ AtLine(i, "run") /\ Become(i, Advanced(i))
      /\ UNCHANGED <<script, files, preps, bare, left>>
  BY DEF ShRunNothing, history
<1>2. Good(procs', script', files, left')
  BY <1>1, GoesOnKeeps
<1> QED BY <1>1, <1>2 DEF SessionInv

LEMMA ShMenuKeeps ==
  ASSUME Whole, SessionInv, NEW i \in Stacks, ShMenu(i)
  PROVE  SessionInv'
<1> DEFINE p == Running(i)  q == Process("menu", Start)
<1>1. AtLine(i, "menu") /\ Become(i, q) /\ UNCHANGED <<script, files, preps, bare, left>>
  BY DEF ShMenu, history
<1>2. q \in Processes /\ q.kind = "menu" /\ ~q.menu /\ q.pos = 0
  BY SessionAssumption, ProcessType
<1> HIDE DEF q
<1>3. Fine(q, files) /\ Heads(q)
  BY <1>2 DEF Fine, Heads
<1>4. Heads(p)
  <2>1. /\ p \in Processes /\ p.kind = "sh" /\ p.text[p.pos + 1].op = "menu"
        /\ p.pos + 1 \in 1..Len(p.text)
    BY <1>1, LineAt, ShellAt
  <2>2. p.pos + 1 \in (p.pos + 1)..Len(p.text)
    BY <2>1 DEF Processes
  <2> QED BY <2>1, <2>2 DEF Heads
<1>5. Good(procs', script', files, left')
  BY <1>1, <1>2, <1>3, <1>4, BecomeKeeps
<1> QED BY <1>1, <1>5 DEF SessionInv

LEMMA ShEndsKeeps ==
  ASSUME Whole, SessionInv, NEW i \in Stacks, ShEnds(i)
  PROVE  SessionInv'
<1> DEFINE p == Running(i)
<1>1. p.kind = "sh" /\ p.pos >= Len(p.text) /\ Return(i) /\ UNCHANGED <<script, files, preps, bare, left>>
  BY DEF ShEnds, Runs, ShellText, history, TextOf
<1>2. p \in Processes /\ ~p.menu /\ p.pos \in Nat /\ Len(p.text) \in Nat
  BY <1>1, RunningIs DEF Fine, Processes
<1>3. ~Heads(p)
  BY <1>1, <1>2 DEF Heads
<1>4. Good(procs', script', files, left')
  BY <1>1, <1>3, ReturnKeeps
<1> QED BY <1>1, <1>4 DEF SessionInv
-----------------------------------------------------------------------------
\* The menu and the programs.
LEMMA InputsAreLines == Inputs \subseteq ScriptLine
<1> SUFFICES ASSUME NEW line \in InputLine PROVE line \in ScriptLine
  BY DEF Inputs
<1> QED BY DEF InputLine, ScriptLine, Operations

LEMMA NewPrep ==
  ASSUME SessionInv, NEW d \in Dirs, NEW n \in Names,
         NEW q, NEW menu \in BOOLEAN,
         q = [Process("prep", d) EXCEPT !.menu = menu, !.text = Input(d, n)]
  PROVE  /\ Fine(q, files) /\ q.kind = "prep" /\ (Heads(q) <=> menu)
         /\ Header(d, n) \in Seq(ScriptLine) /\ Prepared(q, Header(d, n), files)
<1> DEFINE r == Process("prep", d)  t == Input(d, n)
<1>1. r \in Processes /\ r.kind = "prep" /\ r.cwd = d /\ r.home = d /\ r.pos = 0
  BY ProcessType
<1>2. t \in Seq(Inputs) /\ Card(files)
  BY CardLines DEF SessionInv
<1>3. q = [r EXCEPT !.menu = menu, !.text = t]
  OBVIOUS
<1> HIDE DEF r, t
<1>4. t \in Seq(ScriptLine)
  BY <1>2, InputsAreLines
<1>5. /\ q \in Processes /\ q.kind = "prep" /\ q.cwd = d /\ q.home = d /\ q.text = t
      /\ q.menu = menu /\ q.pos = 0
  BY <1>1, <1>3, <1>4 DEF Processes
<1>6. Fine(q, files) /\ (Heads(q) <=> menu)
  BY <1>2, <1>5 DEF Fine, Heads
<1>7. Header(d, n) \in Seq(ScriptLine) /\ Prepared(q, Header(d, n), files)
  BY <1>2, <1>5, HeaderIs
<1> QED BY <1>5, <1>6, <1>7

LEMMA MenuStartsKeeps ==
  ASSUME SessionInv, NEW i \in Stacks, NEW n \in Names, MenuStarts(i, n)
  PROVE  SessionInv'
<1> DEFINE q == [Process("prep", Start) EXCEPT !.menu = TRUE, !.text = Input(Start, n)]
<1>1. /\ Running(i).kind = "menu" /\ Free /\ script' = Header(Start, n) /\ Become(i, q)
      /\ UNCHANGED <<files, preps, bare, left>>
  BY DEF MenuStarts, Runs, history
<1>2. /\ Fine(q, files) /\ q.kind = "prep" /\ Heads(q) /\ script' \in Seq(ScriptLine)
      /\ Prepared(q, script', files)
  BY <1>1, NewPrep, SessionAssumption
<1> HIDE DEF q
<1>3. Heads(Running(i))
  BY <1>1 DEF Heads
<1>4. Good(procs', script', files, left')
  BY <1>1, <1>2, <1>3, BecomeKeeps
<1> QED BY <1>1, <1>2, <1>4 DEF SessionInv

LEMMA AppTop ==
  ASSUME SessionInv, NEW i \in Stacks, Runs(i, "app")
  PROVE  /\ Running(i) \in Processes /\ Running(i).kind = "app" /\ Running(i).cwd \in Dirs
         /\ ~Heads(Running(i)) /\ ~Running(i).menu /\ Running(i).pos = 0
         /\ Waiting(Running(i))
<1>1. /\ Running(i) \in Processes /\ Running(i).kind = "app" /\ ~Running(i).menu
      /\ Running(i).pos = 0
  BY RunningIs DEF Runs, Fine
<1> QED BY <1>1 DEF Processes, Heads, Waiting

LEMMA AppStarts ==
  ASSUME SessionInv, NEW i \in Stacks, Runs(i, "app"), NEW n \in Names,
         NEW q, q = StartedBy(Running(i), Input(Running(i).cwd, n)),
         script' = Header(Running(i).cwd, n)
  PROVE  /\ Fine(q, files) /\ q.kind = "prep" /\ ~Heads(q) /\ script' \in Seq(ScriptLine)
         /\ Prepared(q, script', files)
<1> DEFINE d == Running(i).cwd
<1>1. d \in Dirs
  BY AppTop
<1>2. q = [Process("prep", d) EXCEPT !.menu = FALSE, !.text = Input(d, n)]
  <2> DEFINE r == Process("prep", d)
  <2>1. r \in Processes /\ r.menu = FALSE
    BY <1>1, ProcessType
  <2>2. q = [r EXCEPT !.text = Input(d, n)]
    BY DEF StartedBy
  <2> HIDE DEF r
  <2>3. q = [r EXCEPT !.menu = FALSE, !.text = Input(d, n)]
    BY <2>1, <2>2 DEF Processes
  <2> QED BY <2>3 DEF r
<1> HIDE DEF d
<1>3. /\ Fine(q, files) /\ q.kind = "prep" /\ (Heads(q) <=> FALSE)
      /\ Header(d, n) \in Seq(ScriptLine) /\ Prepared(q, Header(d, n), files)
  BY <1>1, <1>2, NewPrep
<1> QED BY <1>3 DEF d

LEMMA AppExecveKeeps ==
  ASSUME SessionInv, NEW i \in Stacks, NEW n \in Names, AppExecve(i, n)
  PROVE  SessionInv'
<1> DEFINE q == StartedBy(Running(i), Input(Running(i).cwd, n))
<1>1. /\ Runs(i, "app") /\ Free /\ preps < MaxPreps /\ preps' = preps + 1
      /\ script' = Header(Running(i).cwd, n) /\ UNCHANGED <<files, bare, left>>
      /\ Become(i, q) \/ Return(i)
  BY DEF AppExecve, Asks, Emulated, history
<1>2. /\ Fine(q, files) /\ q.kind = "prep" /\ ~Heads(q) /\ script' \in Seq(ScriptLine)
      /\ Prepared(q, script', files)
  BY <1>1, AppStarts
<1> HIDE DEF q
<1>3. ~Heads(Running(i))
  BY <1>1, AppTop
<1>4. Good(procs', script', files, left')
  BY <1>1, <1>2, <1>3, BecomeKeeps, ReturnKeeps
<1>5. preps' \in 0..MaxPreps
  BY <1>1, SessionAssumption DEF SessionInv
<1> QED BY <1>1, <1>2, <1>4, <1>5 DEF SessionInv

LEMMA AppSystemKeeps ==
  ASSUME SessionInv, NEW i \in Stacks, NEW n \in Names, AppSystem(i, n)
  PROVE  SessionInv'
<1> DEFINE q == StartedBy(Running(i), Input(Running(i).cwd, n))
<1>1. /\ Runs(i, "app") /\ Free /\ preps < MaxPreps /\ preps' = preps + 1
      /\ script' = Header(Running(i).cwd, n) /\ UNCHANGED <<files, bare, left>>
      /\ Call(i, q) \/ UNCHANGED procs
  BY DEF AppSystem, Asks, Emulated, history
<1>2. /\ Fine(q, files) /\ q.kind = "prep" /\ ~Heads(q) /\ script' \in Seq(ScriptLine)
      /\ Prepared(q, script', files)
  BY <1>1, AppStarts
<1> HIDE DEF q
<1>3. Waiting(Running(i))
  BY <1>1, AppTop
<1>4. ASSUME UNCHANGED procs PROVE Good(procs', script', files, left')
  <2>1. \A j \in Stacks : ~Prep(procs[j])
    BY <1>1, RunningIs
  <2>2. left' = left /\ files' = files
    BY <1>1
  <2> QED BY <1>4, <2>1, <2>2 DEF SessionInv, Good, Stacks
<1>5. preps' \in 0..MaxPreps
  BY <1>1, SessionAssumption DEF SessionInv
<1>6. Good(procs', script', files, left')
  BY <1>1, <1>2, <1>3, <1>4, CallKeeps
<1> QED BY <1>1, <1>2, <1>5, <1>6 DEF SessionInv

LEMMA AppChdirKeeps ==
  ASSUME SessionInv, NEW i \in Stacks, NEW d \in Dirs, AppChdir(i, d)
  PROVE  SessionInv'
<1> DEFINE p == Running(i)  q == [p EXCEPT !.cwd = d]
<1>1. Runs(i, "app") /\ Become(i, q) /\ UNCHANGED <<script, files, preps, bare, left>>
  BY DEF AppChdir, Emulated, history
<1>2. p \in Processes /\ p.kind = "app" /\ ~p.menu /\ p.pos = 0 /\ ~Heads(p)
  BY <1>1, AppTop
<1>3. q \in Processes /\ q.kind = "app" /\ ~q.menu /\ q.pos = 0
  BY <1>2 DEF Processes
<1> HIDE DEF q
<1>4. Fine(q, files) /\ ~Heads(q)
  BY <1>3 DEF Fine, Heads
<1>5. Good(procs', script', files, left')
  BY <1>1, <1>2, <1>3, <1>4, BecomeKeeps
<1> QED BY <1>1, <1>5 DEF SessionInv

LEMMA AppExitsKeeps ==
  ASSUME SessionInv, NEW i \in Stacks, AppExits(i)
  PROVE  SessionInv'
<1>1. Runs(i, "app") /\ Return(i) /\ UNCHANGED <<script, files, preps, bare, left>>
  BY DEF AppExits, history
<1>2. ~Heads(Running(i))
  BY <1>1, AppTop
<1>3. Good(procs', script', files, left')
  BY <1>1, <1>2, ReturnKeeps
<1> QED BY <1>1, <1>3 DEF SessionInv

LEMMA ForcedExitKeeps ==
  ASSUME SessionInv, NEW i \in Stacks, ForcedExit(i)
  PROVE  SessionInv'
<1>1. Runs(i, "app") /\ UNCHANGED <<script, files, preps, bare, left>>
  BY DEF ForcedExit, Emulated, history
<1>2. procs' = Pieced(SetToSeq(Pieces)) \/ Return(i)
  BY DEF ForcedExit
<1>3. ~Heads(Running(i))
  BY <1>1, AppTop
<1>4. Good(Pieced(SetToSeq(Pieces)), script, files, left)
  BY GoodPieces DEF SessionInv
<1>5. Good(procs', script', files, left')
  BY <1>1, <1>2, <1>3, <1>4, ReturnKeeps
<1> QED BY <1>1, <1>5 DEF SessionInv
-----------------------------------------------------------------------------
LEMMA SessionInitInv ==
  ASSUME SessionInit
  PROVE  SessionInv
<1> DEFINE p == Process("menu", Start)  s == <<p>>
<1>1. /\ procs = <<s>> /\ script = <<>> /\ files = Disk /\ preps = 0 /\ bare = {} /\ left = FALSE
  BY DEF SessionInit
<1>2. p \in Processes /\ p.kind = "menu" /\ ~p.menu /\ p.pos = 0
  BY SessionAssumption, ProcessType
<1> HIDE DEF p
<1>3. Fine(p, files) /\ Heads(p)
  BY <1>2 DEF Fine, Heads
<1>4. s \in Seq(Processes) /\ s # <<>> /\ Len(s) = 1 /\ s[1] = p /\ Last(s) = p
  BY <1>2 DEF Last
<1>5. Sound(s, files) /\ ~Prep(s)
  <2> HIDE DEF s
  <2> QED BY <1>2, <1>3, <1>4 DEF Sound, Prep
<1> HIDE DEF s
<1>6. procs \in Seq(Seq(Processes)) /\ DOMAIN procs = {1} /\ procs[1] = s
  BY <1>1, <1>4
<1>7. Lone(procs) /\ Headed(procs)
  BY <1>3, <1>4, <1>6 DEF Lone, Headed
<1>8. Good(procs, script, files, left)
  BY <1>5, <1>6, <1>7 DEF Good, OnePrep
<1>9. Card(files) /\ script \in Seq(ScriptLine) /\ preps \in 0..MaxPreps
  BY <1>1, SessionAssumption DEF Card, Cards
<1> QED BY <1>1, <1>8, <1>9 DEF SessionInv

LEMMA SessionStepInv ==
  ASSUME Whole, SessionInv, [SessionNext]_sessionVars
  PROVE  SessionInv'
<1>1. CASE UNCHANGED sessionVars
  BY <1>1 DEF SessionInv, sessionVars
<1>2. ASSUME NEW i \in Stacks, NEW n \in Names, MenuStarts(i, n) PROVE SessionInv'
  BY <1>2, MenuStartsKeeps
<1>3. ASSUME NEW i \in Stacks, PrepStep(i) PROVE SessionInv'
  BY <1>3, ConvertLineKeeps, RunScriptKeeps DEF PrepStep
<1>4. ASSUME NEW i \in Stacks, ShStep(i) PROVE SessionInv'
  <2>1. CASE ShChangeDir(i)
    BY <2>1, ShChangeDirKeeps
  <2>2. CASE ShUnpack(i)
    BY <2>2, ShUnpackKeeps
  <2>3. CASE ShOther(i)
    BY <2>3, ShOtherKeeps
  <2>4. CASE ShRunNothing(i)
    BY <2>4, ShRunNothingKeeps
  <2>5. CASE ShRun(i)
    BY <2>5, ShRunKeeps
  <2>6. CASE ShMenu(i)
    BY <2>6, ShMenuKeeps
  <2>7. CASE ShEnds(i)
    BY <2>7, ShEndsKeeps
  <2>8. CASE ShSkip(i)
    BY <2>8, ShSkipKeeps
  <2>9. CASE ShExit(i)
    BY <2>9, ShExitKeeps
  <2> QED BY <1>4, <2>1, <2>2, <2>3, <2>4, <2>5, <2>6, <2>7, <2>8, <2>9 DEF ShStep
<1>5. ASSUME NEW i \in Stacks, AppStep(i) PROVE SessionInv'
  <2>1. ASSUME NEW n \in Names, AppExecve(i, n) PROVE SessionInv'
    BY <2>1, AppExecveKeeps
  <2>2. ASSUME NEW n \in Names, AppSystem(i, n) PROVE SessionInv'
    BY <2>2, AppSystemKeeps
  <2>3. ASSUME NEW d \in Dirs, AppChdir(i, d) PROVE SessionInv'
    BY <2>3, AppChdirKeeps
  <2>4. CASE AppExits(i)
    BY <2>4, AppExitsKeeps
  <2>5. CASE ForcedExit(i)
    BY <2>5, ForcedExitKeeps
  <2> QED BY <1>5, <2>1, <2>2, <2>3, <2>4, <2>5 DEF AppStep
<1> QED BY <1>1, <1>2, <1>3, <1>4, <1>5 DEF SessionNext


\* What every process and file of a session is like.
THEOREM SessionTypeCorrect ==
  ASSUME Whole
  PROVE  SessionSpec => []SessionTypeOK
<1>1. SessionInv => SessionTypeOK
  <2> SUFFICES ASSUME SessionInv PROVE SessionTypeOK
    OBVIOUS
  <2>1. ASSUME NEW i \in Stacks, NEW k \in DOMAIN procs[i], NEW p, p = procs[i][k]
        PROVE  /\ p.kind \in {"menu", "prep", "sh", "app"}
               /\ p.cwd \in Dirs /\ p.home \in Dirs /\ p.pos <= Len(p.text)
    <3>1. procs[i] \in Seq(Processes) /\ Sound(procs[i], files)
      BY RunningIs
    <3>2. p \in Processes /\ Fine(p, files)
      BY <2>1, <3>1 DEF Sound
    <3>3. Len(p.text) \in Nat
      BY <3>2 DEF Processes
    <3> QED BY <3>2, <3>3 DEF Processes, Fine, Follows
  <2>2. \A i \in Stacks : procs[i] # <<>>
    BY RunningIs
  <2> QED BY <2>1, <2>2 DEF SessionInv, SessionTypeOK, Card
<1> QED BY <1>1, SessionInitInv, SessionStepInv, PTL DEF SessionSpec

\* A program that was on the card all the time, run from a line ginge_prep has
\* looked at by a shell that has changed directory where ginge_prep did, is run
\* by its own loader: ginge_prep looks at the file in the directory in which
\* the shell will be when it gets there, whatever directories are missing,
\* brought by an image or left by programs in between (prep/main.c:320-444).
THEOREM LoaderFits ==
  ASSUME Whole
  PROVE  SessionSpec => []RightLoader
<1>1. SessionInv => RightLoader
  BY DEF SessionInv, RightLoader
<1> QED BY <1>1, SessionInitInv, SessionStepInv, PTL DEF SessionSpec

\* However programs start programs and are killed, there is at most one way
\* back to the menu, and whoever leads there waits for nobody
\* (prep/main.c:466-469, loader/host.c:131-151).
THEOREM MenuOnce ==
  ASSUME Whole
  PROVE  SessionSpec => []OneMenu
<1>1. SessionInv => OneMenu
  <2> SUFFICES ASSUME SessionInv, NEW i \in Stacks, NEW k \in DOMAIN procs[i],
                      Heads(procs[i][k])
               PROVE  /\ k = 1
                      /\ \A j \in Stacks \ {i} : ~\E l \in DOMAIN procs[j] : Heads(procs[j][l])
                      /\ procs[i][k].kind = "menu" => Len(procs[i]) = 1
    BY WholeHeads DEF OneMenu
  <2>1. \A j \in Stacks : /\ Sound(procs[j], files) /\ DOMAIN procs[j] = 1..Len(procs[j])
                          /\ Len(procs[j]) \in Nat
    BY RunningIs
  <2>2. k = 1 /\ k \in 1..Len(procs[i])
    BY <2>1 DEF Sound
  <2>3. ASSUME NEW j \in Stacks, j # i, NEW l \in DOMAIN procs[j], Heads(procs[j][l]) PROVE FALSE
    <3>1. l = 1
      BY <2>1, <2>3 DEF Sound
    <3>2. Lone(procs)
      BY DEF SessionInv, Good
    <3> QED BY <2>2, <2>3, <3>1, <3>2 DEF Lone, Stacks
  <2>4. procs[i][k].kind = "menu" => Len(procs[i]) = 1
    <3>1. k < Len(procs[i]) => Waiting(procs[i][k])
      BY <2>1, <2>2 DEF Sound
    <3>2. procs[i][k].kind = "menu" => ~(k < Len(procs[i]))
      BY <3>1 DEF Waiting
    <3> DEFINE n == Len(procs[i])
    <3>3. n \in Nat /\ k = 1 /\ k \in 1..n
      BY <2>1, <2>2
    <3> HIDE DEF n
    <3>4. ~(k < n) => n = 1
      BY <3>3
    <3> QED BY <3>2, <3>4 DEF n
  <2> QED BY <2>2, <2>3, <2>4
<1> QED BY <1>1, SessionInitInv, SessionStepInv, PTL DEF SessionSpec

\* Whatever programs do and whichever loaders a forced exit kills, some process
\* leads back to the menu, unless a line of its script has ended a shell that
\* did (prep/main.c:376, 466-469).
THEOREM MenuReached ==
  ASSUME Whole
  PROVE  SessionSpec => []NeverStranded
<1>1. SessionInv => NeverStranded
  <2> SUFFICES ASSUME SessionInv, ~left PROVE \E i \in Stacks : Leads(procs[i][1])
    BY DEF NeverStranded
  <2>1. \E i \in Stacks : Heads(procs[i][1])
    BY DEF SessionInv, Good, Headed, Stacks
  <2> QED BY <2>1, WholeHeads
<1> QED BY <1>1, SessionInitInv, SessionStepInv, PTL DEF SessionSpec
=============================================================================
