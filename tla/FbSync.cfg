CONSTANTS
  Lo <- MCLo
  Hi <- MCHi
  Bpps <- MCBpps
  Fits <- MCFits
  DefaultAdr <- MCDefaultAdr
  FrameMask = 1
  MaxErrors = 1
SPECIFICATION Spec
INVARIANTS NoSleepOnRequest AtMostOneLateFlip
PROPERTIES InitCompletes ScreenCatchesUp KillKeyServedInRange
CHECK_DEADLOCK FALSE
