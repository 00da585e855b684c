------------------------------ MODULE Patches ------------------------------
(***************************************************************************)
(* do_patches of loader/patches.c: the code of a static program is         *)
(* searched for the library functions and system calls that the loader     *)
(* must get hold of, and a jump is written over each one found.            *)
(*                                                                         *)
(* Memory is an array of words; byte address b is in word b \div 4.  A     *)
(* signature is a sequence of sets of words: what its word and mask let    *)
(* pass.  The loop reads words behind the segment to complete a signature  *)
(* that begins near its end; Images says what is there.                    *)
(***************************************************************************)
EXTENDS Integers, Sequences

CONSTANTS
  Words,           \* instructions and data
  Table,           \* patches[]: in order, records of sig, type and func
  Unconditional,   \* the words whose condition field is 0xe
  LdrPc,           \* ldr pc, [pc, #-4]
  PushPc,          \* stmfd sp!, {pc}
  Nop,
  Zero,            \* what the pages of a segment hold behind its file contents
  Top,             \* bound: the last word of the memory
  Images,          \* bound: contents of the memory
  Ptrs, Sizes      \* bound: where the segment may begin, and its bytes

Addr == 0..Top
Entries == [sig : Seq(SUBSET Words), type : 0..2, func : Words]
Patches == DOMAIN Table
SigLen(p) == Len(Table[p].sig)

\* What is written over the start of a signature.
Written(p) ==
  CASE Table[p].type = 0 -> <<LdrPc, Table[p].func>>
    [] Table[p].type = 1 -> <<PushPc, LdrPc, Table[p].func>>
    [] Table[p].type = 2 -> <<Nop>>

FirstWord(b) == (b + 3) \div 4
EndWord(b, n) == FirstWord(b) + n \div 4

\* What type 0 and 1 write must not be longer than what it replaces, and the
\* pc that type 1 pushes is three words on: where its signature has to end.
ASSUME TableAssumption ==
  /\ Table \in Seq(Entries)
  /\ \A p \in Patches : /\ Len(Written(p)) <= SigLen(p)
                        /\ Table[p].type = 1 => SigLen(p) = 3
                        /\ \A s \in 1..SigLen(p) : Zero \notin Table[p].sig[s]

ASSUME MemoryAssumption ==
  /\ Top \in Nat /\ Images \subseteq [Addr -> Words]
  /\ Ptrs \subseteq Nat /\ Sizes \subseteq Nat
  /\ {LdrPc, PushPc, Nop, Zero} \subseteq Words
  /\ \A b \in Ptrs, n \in Sizes, p \in Patches : EndWord(b, n) + SigLen(p) <= Top

VARIABLES
  ptr, size,       \* the segment, in bytes
  mem,
  seg,             \* the word looked at next
  orig,            \* history: the memory as it was loaded
  hits             \* history: where something was patched, and by which entry

vars == <<ptr, size, mem, seg, orig, hits>>

First == FirstWord(ptr)
End == EndWord(ptr, size)
Span(h) == h.at..(h.at + SigLen(h.patch) - 1)
-----------------------------------------------------------------------------
(* Slips that a change to this code could make; each breaks a property.     *)

MatchesAt_Prefix(m, a, p) ==     \* the last word of a signature is not compared
  \A s \in 1..(SigLen(p) - 1) : m[a + s - 1] \in Table[p].sig[s]

After_OneWord(p) == seg + 1      \* goes on inside the signature

Put_Long(m, a, w) ==             \* a nop more than there is room for
  [b \in Addr |-> IF b \in a..(a + Len(w)) THEN Append(w, Nop)[b - a + 1] ELSE m[b]]
-----------------------------------------------------------------------------
MatchesAt(m, a, p) == \A s \in 1..SigLen(p) : m[a + s - 1] \in Table[p].sig[s]

\* What looks like a cache operation might be data; the word before it tells.
NotData(m, a) == 4 * a >= ptr + 4 /\ m[a - 1] \in Unconditional

Fits(m, a, p) == MatchesAt(m, a, p) /\ (Table[p].type = 2 => NotData(m, a))

Chosen_ByFirstWord(p) ==         \* the search stops at the first entry that
  /\ Fits(mem, seg, p)                       \* begins like the word
  /\ \A q \in 1..(p - 1) : mem[seg] \notin Table[q].sig[1]

\* The entries are tried in order.
Chosen(p) == Fits(mem, seg, p) /\ \A q \in 1..(p - 1) : ~Fits(mem, seg, q)

Put(m, a, w) == [b \in Addr |-> IF b \in a..(a + Len(w) - 1) THEN w[b - a + 1] ELSE m[b]]

After(p) == seg + SigLen(p)      \* seg += sig_cnt - 1, and the loop's seg++

Init ==
  /\ ptr \in Ptrs /\ size \in Sizes
  /\ mem \in Images /\ orig = mem
  /\ seg = FirstWord(ptr) /\ hits = {}

Patch(p) ==
  /\ seg < End
  /\ Chosen(p)
  /\ mem' = Put(mem, seg, Written(p))
  /\ seg' = After(p)
  /\ hits' = hits \cup {[at |-> seg, patch |-> p]}
  /\ UNCHANGED <<ptr, size, orig>>

NextWord ==
  /\ seg < End
  /\ ~\E p \in Patches : Chosen(p)
  /\ seg' = seg + 1
  /\ UNCHANGED <<ptr, size, mem, orig, hits>>

Next == (\E p \in Patches : Patch(p)) \/ NextWord

Spec == Init /\ [][Next]_vars
-----------------------------------------------------------------------------
(* Properties.                                                              *)

\* Types; the loop stays in the segment and at most a signature behind it.
TypeOK ==
  /\ ptr \in Ptrs /\ size \in Sizes
  /\ mem \in [Addr -> Words] /\ orig \in [Addr -> Words]
  /\ seg \in Nat /\ 4 * seg >= ptr /\ seg >= First
  /\ hits \subseteq [at : Nat, patch : Patches]

\* What is patched was a whole signature in the program as it was loaded, never
\* one that begins in what an earlier patch has left; and it stays as the patch
\* made it, the jump in front and the rest of the signature behind it
\* (patches.c:230-257).
PatchesIntact ==
  \A h \in hits : \A s \in 1..SigLen(h.patch) :
    /\ orig[h.at + s - 1] \in Table[h.patch].sig[s]
    /\ mem[h.at + s - 1] = IF s <= Len(Written(h.patch)) THEN Written(h.patch)[s]
                           ELSE orig[h.at + s - 1]

\* No word of the program is changed but those of signatures found: the code
\* behind a short signature (open_a1 has two words, the cache operations one)
\* is spared (patches.c:235-250).
OnlySignaturesChanged ==
  \A a \in Addr : mem[a] # orig[a] => \E h \in hits : a \in Span(h)

\* No call is missed: wherever the loaded program has a signature, that place
\* is patched or lies in a signature that is, whichever entries share its first
\* word (open_a1 and hw_open, read_a1 and hw_read) and whatever looked like the
\* beginning of another before it (patches.c:221-258).
NoneMissed ==
  \A a \in First..(seg - 1), p \in Patches :
    MatchesAt(orig, a, p) /\ (Table[p].type = 2 => NotData(mem, a))
      => \E h \in hits : a \in Span(h)

\* A signature may be completed by words behind the segment; with only zeros
\* there, as a page has them behind the file contents, nothing behind the end
\* is changed (patches.c:230, loader.c:156-168).
InsideSegment ==
  (\A a \in End..Top : orig[a] = Zero) => \A a \in End..Top : mem[a] = Zero

=============================================================================
