CONSTANTS
    MaxId = 4
    Generations = 3
    MaxUnits = 4
    Requests = {1, 2}
    LostSyncs = {}
    MaxTrouble = 2
    MaxDamage = 2
SPECIFICATION Spec
INVARIANTS RestoreOnlyNamed
PROPERTIES FallbackRetained RecoveryNeverRegresses NoSilentFreshStart
CHECK_DEADLOCK FALSE
