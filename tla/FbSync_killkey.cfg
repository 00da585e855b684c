CONSTANTS
  Lo <- MCLo
  Hi <- MCHi
  Bpps <- MCBpps
  Fits <- MCFits
  DefaultAdr <- MCDefaultAdr
  FrameMask = 1
  MaxErrors = 1
SPECIFICATION Spec
PROPERTY KillKeyServed
CHECK_DEADLOCK FALSE
