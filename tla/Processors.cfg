SPECIFICATION BenchSpec
CONSTANTS
  Decimals <- MCDecimals
  Samples <- MCSamples
  Words <- MCWords
  Files <- MCFiles
  Operands <- MCOperands
  Ends <- MCEnds
  Counts <- MCCounts
  Offsets <- MCOffsets
  Chores <- MCChores
  Length = 3
  Nmis = 1
  IRs = 4
  ByteSize = 2
  Counters = {0}
  TimerIr <- MCTimerIr
  TxIr = 2
  RxIr = 3
  TPerTick = 2
  CharT = 2
  Rigs <- MCRigs
INVARIANTS
  ArithmeticIsExact
  ProcessorsAgree
  InterruptLeavesNoTrace
  PinIsHonest
  ServiceIsMeant
  RiseIsLatched
PROPERTY CountIsOneMoment
CHECK_DEADLOCK FALSE
