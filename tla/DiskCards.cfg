SPECIFICATION BenchSpec
CONSTANTS
  Units = 2
  Cyls = 3
  SecLen = 2
  MaxPulses = 1
  Srt = 2
  Hlt = 2
  Hut = 2
  ByteValues = 3
  MotorT = 3
  Sectors = 2
  Rigs <- MCRigs
  MaxMoves = 1
  HsTracks = 2
  HsSectors = 2
  HsBytes = 2
  HsDrives = 2
  HsDisks = {"A", "B"}
  HsSectorTicks = 4
  HsReadStart = 1
  HsWriteStart = 2
  MotorOnDelay = 2
  DisableTimer = 5
  StepSettle = 1
  ScWindow = 1
  ScBody = 2
  FreeTicks = 8
  MotorTicks = 5
  ScDouble = {"A"}
  ScOneSided = {"B"}
  HsRigs <- MCSlotRigs
INVARIANTS WiresAreTheChips TransferIsWhole SeeksAreHonest SlotsAreWhole SlotsAreFresh PulseIsAwaited
