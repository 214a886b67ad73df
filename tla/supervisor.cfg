SPECIFICATION FairSpec
CONSTANTS
  Pipelines = {p1}
  MaxRevision = 2
  Fixed = {2}
  MaxAttempts = 2
  SafeModes = {TRUE, FALSE}
  MaxRequests = 2
  MaxKills = 1
  MaxRestarts = 1
  MaxLost = 1
INVARIANTS OneJob ShutdownIsFinal
PROPERTIES NoUnattendedRestart Converges
CHECK_DEADLOCK FALSE
