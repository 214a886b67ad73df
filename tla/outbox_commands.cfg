SPECIFICATION FairSpec
CONSTANTS
  MaxAttempts = 1
  PendingCap = 2
  DlqCap = 1
  Commands = {"pause", "resume", "start"}
  Batches = 1
  MaxId = 2
  MaxGen = 0
  MaxPolicy = 1
  MaxCrashes = 0
  MaxFaults = 1
INVARIANTS PauseQuiesces BoundByResume
PROPERTIES EveryEntrySettles CommandReturns
CHECK_DEADLOCK FALSE
