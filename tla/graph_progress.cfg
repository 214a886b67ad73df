SPECIFICATION FairSpec
CONSTANTS
    NumSources = 2
    Rows = 1
    Batch = 1
    Cap = 1
    MaxId = 2
    MaxFaults = 1
    MaxDrops = 0
    MaxCrashes = 0
PROPERTIES AttemptEnds Drains
CHECK_DEADLOCK FALSE
