SPECIFICATION FairSpec
CONSTANTS
  Senders = {s1, s2}
  Sizes = {1, 2, 4}
  MaxItems = 2
  MaxBytes = 3
INVARIANTS AccountsExact
PROPERTIES StopReleasesSenders NoStarvation
CHECK_DEADLOCK FALSE
