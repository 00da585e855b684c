CONSTANTS
  Hosts = {"wiz", "caanoo", "pnd"}
  Buffers = 3
  Width = 2
  Height = 2
  Rooms <- MCRooms
  Depths = {4, 8, 16, 24}
SPECIFICATION Spec
INVARIANTS DrawApart FormatMatches
PROPERTIES ScreenBack
CHECK_DEADLOCK FALSE
