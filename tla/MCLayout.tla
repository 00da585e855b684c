------------------------------ MODULE MCLayout ------------------------------
(***************************************************************************)
(* Small instance of Layout: pages of 4 bytes and an address space of 24   *)
(* pages.  Up to four maps, with and without a name, at all distances that *)
(* matter, the first one being the text of the loader or the program; two  *)
(* or three segments, aligned and not, in rising and in falling order, and *)
(* some that share a page.                                                 *)
(***************************************************************************)
EXTENDS Layout

MCPages == 24
Map == [first : {5, 8, 14, 19}, last : {5, 9, 15, 22}, named : BOOLEAN]
Longer(lists) ==
  {Append(l, m) : <<l, m>> \in {<<l, m>> \in lists \X Map :
                                 l[Len(l)].last < m.first /\ m.first <= m.last}}
One == {<<m>> : m \in {m \in Map : m.first <= m.last /\ m.named}}
MCMapLists ==
  One \cup Longer(One) \cup Longer(Longer(One)) \cup Longer(Longer(Longer(One)))

Seg(v, n) == [vaddr |-> v, memsz |-> n]
MCSegmentLists == {
  <<Seg(32, 3), Seg(37, 5)>>, <<Seg(37, 5), Seg(32, 3)>>, <<Seg(32, 3), Seg(80, 4)>>,
  <<Seg(30, 5), Seg(45, 9), Seg(71, 1)>>, <<Seg(71, 1), Seg(24, 8)>>,
  <<Seg(6, 3)>>, <<Seg(44, 6), Seg(50, 6)>>, <<Seg(50, 6), Seg(30, 1), Seg(44, 6)>>}
=============================================================================
