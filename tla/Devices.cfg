CONSTANTS
  FAKEDEV_MEM = 3
  Limit = 2
  HalfBits = 4
  Settings <- MCSettings
  MinSize = 2
  MinBytes = 4
  MaxBytes = 8
  Default <- MCDefault
  Forced <- MCForced
  Umem <- MCUmem
  Pages <- MCPages
  Layer <- MCLayer
  Points <- MCPoints
  Backlog = 4
  Tried <- MCTried
  MaxRegions = 3
  Uses = {{"sound"}, {"memory"}, {"touch"}}
SPECIFICATION DevicesSpec
INVARIANTS DevicesTypeOK RightAnswer StrangeCaught UpperMemoryStays TouchTrue TouchOnPanel
