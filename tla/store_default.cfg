CONSTANTS
    MaxId = 4
    Generations = 3
    MaxUnits = 4
    Requests = {1, 2}
    LostSyncs = {"markSync", "pruneSync", "mkdirSync", "chunksSync",
                 "manifestSync", "publishSync", "trimSync"}
    MaxTrouble = 3
    MaxDamage = 0
SPECIFICATION Spec
INVARIANTS AckedSurvives
PROPERTIES ImplementsRegister
CHECK_DEADLOCK FALSE
