SPECIFICATION Spec
CONSTANTS
  MaxAttempts = 2
  PendingCap = 2
  DlqCap = 1
  Commands = {"start"}
  Batches = 2
  MaxId = 3
  MaxGen = 1
  MaxPolicy = 0
  MaxCrashes = 1
  MaxFaults = 0
INVARIANTS CutCovered LimitsHold InFlightReserved
CHECK_DEADLOCK FALSE
