\* map_bottom on a page boundary that is no multiple of the allocation.
CONSTANTS
  PageWords = 32
  PageCount = 2
  Reach = 100
  Areas <- UnalignedAreas
  MapBottom <- UnalignedMapBottom
  Code <- UnalignedCode
  Unhandled = {}
  UnknownCond = {}
SPECIFICATION Spec
INVARIANT CrashIsReal
CHECK_DEADLOCK FALSE
