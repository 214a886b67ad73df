SPECIFICATION Spec
CONSTANTS
    NumSources = 2
    Rows = 1
    Batch = 1
    Cap = 1
    MaxId = 2
    MaxFaults = 1
    MaxDrops = 1
    MaxCrashes = 1
INVARIANTS NoLossBeforeCut CutIsClean
CHECK_DEADLOCK FALSE
