SPECIFICATION FairSpec
CONSTANTS
    NumMsgs = 3
    Poison = {1, 3}
    MaxPending = 2
    PullMessages = 2
    BatchRows = 2
    InboxCap = 1
    AckConcurrency = 1
    AckTries = 2
    DlqEntries = 1
    Retain = 2
    MaxAttempts = 3
    MaxCommands = 1
    MaxFaults = 3
INVARIANTS AckedIsDurable DurableExact QuarantinedOnce NoOrphanConsumer
PROPERTIES BlockedSourceDrains
CHECK_DEADLOCK FALSE
