SPECIFICATION Spec
CONSTANTS
  a = a
  none = none
  Drives <- MCDrives
  NoDrive <- none
  Tracks = 2
  Sectors = 2
  Size = 2
  TrackBytes = 2
  RestoreSteps = 3
  Commands <- MCCommands
  Values = {1}
  MaxCommands = 2
  MaxMoves = 1
INVARIANT NullDriveIsNoCrash
CHECK_DEADLOCK FALSE
