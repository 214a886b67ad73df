SPECIFICATION Spec
CONSTANTS
  Pipelines = {p1}
  MaxRevision = 2
  Fixed = {2}
  MaxAttempts = 2
  SafeModes = {TRUE, FALSE}
  MaxRequests = 2
  MaxKills = 0
  MaxRestarts = 1
  MaxLost = 0
PROPERTY ReplayNeedsExplicitStart
CHECK_DEADLOCK FALSE
