CONSTANTS
  PageSize = 4
  Pages <- MCPages
  MinPage = 1
  MapLists <- MCMapLists
  SegmentLists <- MCSegmentLists
  MaxMaps = 4
  LINKPAGE_ALLOC = 8
  Far = 30
  Offset = 12
  Words <- MCWords
  Table <- MCTable
  Unconditional <- MCUnconditional
  LdrPc = "ldr pc"
  PushPc = "stmfd pc"
  Nop = "nop"
  Zero = "zero"
  Top <- MCTop
  Images <- MCImages
  Ptrs = {1, 4}
  Sizes = {10, 36}
SPECIFICATION MCSpec
INVARIANTS
  ListedSafe ProgramIntact AreasApart
  PatchesIntact OnlySignaturesChanged NoneMissed InsideSegment
CHECK_DEADLOCK FALSE
