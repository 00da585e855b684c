CONSTANTS
  Dirs <- MCDirs
  Names <- MCNames
  Start = "card"
  Disk <- MCDisk
  Missing = {"sub"}
  Mount = "mnt"
  Unpacked <- MCUnpacked
  Whole = TRUE
  MaxPreps = 2
SPECIFICATION SessionSpec
INVARIANTS  OneMenu NeverStranded
CHECK_DEADLOCK FALSE
