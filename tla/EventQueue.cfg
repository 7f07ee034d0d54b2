SPECIFICATION QueueSpec
CONSTANTS
  Timed = {b1, b2}
  MaxTime = 3
  MaxDelay = 2
  MaxHandle = 4
SYMMETRY Interchangeable
INVARIANTS
  NoDeadlineLost
PROPERTIES
  ImplementsAlarmClock
