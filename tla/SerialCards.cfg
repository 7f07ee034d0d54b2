SPECIFICATION Spec
CONSTANTS
  CharT = 2
  XferT = 1
  AnswerCts = 1
  OriginateCts = 2
  ApReset = 2
  HsTimeout = 3
  RingOn = 1
  RingOff = 1
  Rigs <- MCRigs
INVARIANTS PinIsHonest NoByteLost
PROPERTY NobodyHoldsADeadLine
CHECK_DEADLOCK FALSE
