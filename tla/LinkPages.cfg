CONSTANTS
  PageWords = 32
  PageCount = 2
  Reach = 100
  Areas <- MCAreas
  MapBottom <- MCMapBottom
  Code <- MCCode
  Unhandled = {480}
  UnknownCond = {350}
SPECIFICATION Spec
INVARIANTS RoomForBlock PagesMapped JumpsLand
PROPERTIES ImplementsIo AccessMade
CHECK_DEADLOCK FALSE
