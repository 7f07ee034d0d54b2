SPECIFICATION Spec
CONSTANTS
  serial = serial
  disk = disk
  virtc = virtc
  Boards <- MCBoards
  Watchers <- MCWatchers
  Lines <- MCLines
  CanPull <- MCCanPull
  Levels <- MCLevels
INVARIANTS
  PinIsWireOr
  RequestReachesPin73
