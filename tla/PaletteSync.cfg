CONSTANTS
  Entries = 2
  Half = {0, 1}
SPECIFICATION Spec
INVARIANTS PaletteReaches
