CONSTANTS
  WordSize = 64
  Base = 24
  Size = 16
  Screen = 6
  Blits <- MCBlits
SPECIFICATION Spec
INVARIANTS StaysInside RectangleRight
CHECK_DEADLOCK FALSE
