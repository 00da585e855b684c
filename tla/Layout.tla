------------------------------- MODULE Layout -------------------------------
(***************************************************************************)
(* Where things end up in the address space before the program runs:      *)
(* main of loader/loader.c for static programs, ginge_init of loader/dl.c  *)
(* for dynamic ones, and the link pages that emu_init allocates for both.  *)
(*                                                                         *)
(* Both read /proc/self/maps, and how they read it is part of the model.   *)
(* All mappings are made with MAP_FIXED and replace what was there.  Only  *)
(* the owner of each page is kept.  Addresses do not wrap around here: a   *)
(* link page below address zero is one that mmap refuses.                  *)
(***************************************************************************)
EXTENDS Integers, Sequences, FiniteSets

CONSTANTS
  PageSize,       \* 4096, the unit mmap rounds to
  Pages,          \* pages of the address space
  MinPage,        \* pages below this one cannot be mapped
  MapLists,       \* what /proc/self/maps may list: sequences of records
                  \* [first, last, named], first and last being pages
  SegmentLists,   \* program headers: sequences of [vaddr, memsz]; those that
                  \* are not PT_LOAD are skipped and left out
  MaxMaps,        \* size of the array maps
  LINKPAGE_ALLOC, \* bytes of link pages per area
  Far,            \* 0x800000: a map this far up begins the second area,
  Offset          \* 0x20000: which lies this much below it

Floor(x) == x \div PageSize
Ceil(x)  == (x + PageSize - 1) \div PageSize

\* The kernel lists maps by address.  Segments may overlap, or share a page.
ASSUME LayoutAssumption ==
  /\ PageSize \in Nat \ {0} /\ Pages \in Nat \ {0} /\ MinPage \in Nat
  /\ MapLists \subseteq Seq([first : Nat, last : 0..(Pages - 1), named : BOOLEAN])
  /\ \A list \in MapLists : \A j \in DOMAIN list :
       /\ list[j].first <= list[j].last
       /\ \A k \in DOMAIN list : j < k => list[j].last < list[k].first
  /\ SegmentLists \subseteq Seq([vaddr : Nat, memsz : Nat \ {0}])
  /\ \A list \in SegmentLists : \A j \in DOMAIN list :
       list[j].vaddr + list[j].memsz <= Pages * PageSize
  /\ MaxMaps \in Nat \ {0}
  /\ LINKPAGE_ALLOC \in Nat \ {0} /\ LINKPAGE_ALLOC % PageSize = 0
  /\ Offset \in Nat /\ Far \in Nat /\ Far >= Offset + LINKPAGE_ALLOC + PageSize

None == -1

VARIABLES
  is_dl,     \* dl.c, not loader.c
  proc,      \* what /proc/self/maps lists
  segs,      \* the program headers of a static program
  maps,      \* the ranges the loader has read
  next,      \* the segment to load, then the area to allocate
  lowest,    \* lowest_segments, in bytes
  base,      \* g_linkpages, in bytes
  owner,     \* page -> <<"free">>, <<"host", map>>, <<"seg", i>> or <<"link", a>>
  status     \* "maps", "load", "link", "run" or "failed"

layoutVars == <<is_dl, proc, segs, maps, next, lowest, base, owner, status>>
input == <<is_dl, proc, segs>>

Areas == {0, 1}
PagesOf(m) == m.first..m.last
SegmentPages(s) == Floor(s.vaddr)..(Ceil(s.vaddr + s.memsz) - 1)
LinkPagesAt(b) == Floor(b)..(Floor(b) + LINKPAGE_ALLOC \div PageSize - 1)

MapFixed(pages, who) == [p \in DOMAIN owner |-> IF p \in pages THEN who ELSE owner[p]]
Smallest(S) == CHOOSE x \in S : \A y \in S : x <= y
-----------------------------------------------------------------------------
LayoutInit ==
  /\ is_dl \in BOOLEAN /\ proc \in MapLists
  /\ segs \in IF is_dl THEN {<<>>} ELSE SegmentLists
  /\ maps = <<>> /\ next = 1
  /\ lowest = [a \in Areas |-> None] /\ base = [a \in Areas |-> None]
  /\ owner = [p \in 0..(Pages - 1) |->
                IF \E j \in DOMAIN proc : p \in PagesOf(proc[j])
                THEN <<"host", CHOOSE j \in DOMAIN proc : p \in PagesOf(proc[j])>>
                ELSE <<"free">>]
  /\ status = "maps"

Fail == status' = "failed" /\ UNCHANGED <<input, maps, next, lowest, base, owner>>

\* The lines scanf can take in: the format wants a path name on each line.  A
\* line that has none takes the first word of the next one instead, and the
\* loop ends at what is left of that.
LinesRead ==
  LET unnamed == {j \in DOMAIN proc : ~proc[j].named} IN
  IF unnamed = {} THEN Len(proc) ELSE Smallest(unnamed)

-----------------------------------------------------------------------------
(* Slips that a change to this code could make; each breaks a property.     *)

RangeUsed_Start(s) ==      \* looks only at where the segment starts
  \E j \in DOMAIN maps :
    maps[j].first * PageSize <= s.vaddr /\ s.vaddr < (maps[j].last + 1) * PageSize

Lower_Last(a, b) == b          \* the segment loaded last, not the lowest one

LinkBase_Above(a) ==           \* forgets that the size must be subtracted
  Floor(lowest[a]) * PageSize
-----------------------------------------------------------------------------
ReadMaps ==
  /\ status = "maps" /\ ~is_dl
  /\ LET n == IF LinesRead < MaxMaps THEN LinesRead ELSE MaxMaps IN
     IF n = 0 \/ n = MaxMaps THEN Fail      \* "no maps", "too many maps"
     ELSE /\ maps' = SubSeq(proc, 1, n) /\ status' = "load"
          /\ UNCHANGED <<input, next, lowest, base, owner>>

\* is_range_used, on the range as it is before it is rounded to pages.
RangeUsed(s) ==
  \E j \in DOMAIN maps :
    maps[j].first * PageSize < s.vaddr + s.memsz /\ s.vaddr < (maps[j].last + 1) * PageSize

Lower(a, b) == IF a = None \/ b < a THEN b ELSE a

LoadSegment ==
  /\ status = "load" /\ next \in DOMAIN segs /\ ~RangeUsed(segs[next])
  /\ owner' = MapFixed(SegmentPages(segs[next]), <<"seg", next>>)
  /\ lowest' = [lowest EXCEPT ![0] = Lower(@, Floor(segs[next].vaddr) * PageSize)]
  /\ next' = next + 1
  /\ UNCHANGED <<input, maps, base, status>>

SegmentHits ==
  /\ status = "load" /\ next \in DOMAIN segs /\ RangeUsed(segs[next])
  /\ Fail

\* mmap, fseek or fread fails.
LoadFails == status = "load" /\ next \in DOMAIN segs /\ Fail

AllLoaded ==
  /\ status = "load" /\ next \notin DOMAIN segs
  /\ status' = "link" /\ next' = 0
  /\ UNCHANGED <<input, maps, lowest, base, owner>>

\* ginge_init: next_line after each scanf skips a whole line, as the scanf has
\* already gone past the end of its own.  The first line is read apart.
Examined == {j \in DOMAIN proc : j = 1 \/ j % 2 = 0}

\* The maps are sorted, so none lies below the first.
ScanMaps ==
  /\ status = "maps" /\ is_dl
  /\ IF proc = <<>> THEN Fail
     ELSE LET start(j) == proc[j].first * PageSize
              far == {j \in Examined : start(j) - start(1) > Far}
          IN /\ lowest' = [a \in Areas |->
                  IF a = 0 THEN start(1)
                  ELSE IF far = {} THEN None ELSE start(Smallest(far)) - Offset]
             /\ status' = "link" /\ next' = 0
             /\ UNCHANGED <<input, maps, base, owner>>

\* emu_init: both areas in turn, those that have no segment skipped.
LinkBase(a) == Floor(lowest[a] - LINKPAGE_ALLOC) * PageSize

AllocLinkpages ==
  /\ status = "link" /\ next \in Areas /\ lowest[next] # None
  /\ LinkBase(next) >= MinPage * PageSize
  /\ base' = [base EXCEPT ![next] = LinkBase(next)]
  /\ owner' = MapFixed(LinkPagesAt(LinkBase(next)), <<"link", next>>)
  /\ next' = next + 1
  /\ UNCHANGED <<input, maps, lowest, status>>

AllocFails ==
  /\ status = "link" /\ next \in Areas /\ lowest[next] # None
  /\ LinkBase(next) < MinPage * PageSize
  /\ Fail

NoSegment ==
  /\ status = "link" /\ next \in Areas /\ lowest[next] = None
  /\ next' = next + 1
  /\ UNCHANGED <<input, maps, lowest, base, owner, status>>

EnterProgram ==
  /\ status = "link" /\ next \notin Areas
  /\ status' = "run"
  /\ UNCHANGED <<input, maps, next, lowest, base, owner>>

LayoutNext ==
  \/ ReadMaps \/ LoadSegment \/ SegmentHits \/ LoadFails \/ AllLoaded
  \/ ScanMaps
  \/ AllocLinkpages \/ AllocFails \/ NoSegment \/ EnterProgram

LayoutSpec == LayoutInit /\ [][LayoutNext]_layoutVars
-----------------------------------------------------------------------------
LayoutTypeOK ==
  /\ is_dl \in BOOLEAN /\ proc \in MapLists /\ segs \in SegmentLists \cup {<<>>}
  /\ maps \in {SubSeq(proc, 1, n) : n \in 0..Len(proc)} /\ Len(maps) < MaxMaps
  /\ next \in Nat
  /\ lowest \in [Areas -> Int] /\ base \in [Areas -> Int]
  /\ DOMAIN owner = 0..(Pages - 1)
  /\ status \in {"maps", "load", "link", "run", "failed"}

\* While segments are loaded, nothing the loader has read from the map list
\* is mapped over, although the check is made before rounding to pages.
ListedSafe ==
  status \in {"maps", "load"} =>
    \A j \in DOMAIN maps : \A p \in PagesOf(maps[j]) : owner[p] = <<"host", j>>

\* When the program is entered its segments are in memory, whatever their
\* order: no link page was put over one, and another segment only where that
\* has a page in common with it and was loaded later.  The rest of such a page
\* is lost (loader.c:171 maps it anew): a segment that shares no page with a
\* later one is there as it was loaded.
SharedLater(p, i) == \E k \in DOMAIN segs : k > i /\ p \in SegmentPages(segs[k])
ProgramIntact ==
  status = "run" =>
    \A i \in DOMAIN segs : \A p \in SegmentPages(segs[i]) :
      owner[p] = <<"seg", i>> \/ SharedLater(p, i)

\* The link pages of an area lie below the segment they are for, and those of
\* the second area above the first segment: what LinkPages takes for granted.
AreasApart ==
  \A a \in Areas : base[a] # None =>
    /\ base[a] + LINKPAGE_ALLOC <= lowest[a]
    /\ a = 1 => base[1] > lowest[0]
    /\ \A p \in LinkPagesAt(base[a]) : owner[p] = <<"link", a>>

\* "segment hits .. in maps": a segment that does is refused, never loaded.
HostSafe ==
  status \in {"maps", "load"} =>
    \A j \in DOMAIN proc : \A p \in PagesOf(proc[j]) : owner[p] = <<"host", j>>
=============================================================================
