CONSTANTS
  Bits = 4
  M = 16
  HalfM = 4
  ByteM = 2
  Regs = {0, 1, 2}
  Ops <- MCOps
  Frames <- MCFrames
  Flags <- MCFlags
  Inputs <- MCInputs
SPECIFICATION MCSpec
CHECK_DEADLOCK FALSE
INVARIANTS EmulatedRight SkipsRight
