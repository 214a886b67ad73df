SPECIFICATION FairSpec
CONSTANTS
    a = a
    b = b
    Sources = {a, b}
    Size = 2
    Slide = 1
    Lateness = 1
    Disorder = 1
    Skew = 2
    Batches = {{0}, {0, 3}}
    MaxNow = 1
    MaxBatches = 3
    MaxIdle = 1
    Capacity = 1
    MaxCuts = 1
    MaxRestarts = 1
PROPERTIES PromiseKept FinalBeforeWatermark WindowsClose
CHECK_DEADLOCK FALSE
