SPECIFICATION Spec
CONSTANTS
  Kinds = {"run", "step", "start", "stop", "tool"}
  MaxRequests = 3
  MaxCancels = 1
  MaxStatus = 1
  MaxSignals = 1
  MaxPending = 1
  MaxSlices = 1
INVARIANTS StopReachesItsRun StatusKeepsUp GuestIsNotStarved
PROPERTY EveryRequestAnswered
