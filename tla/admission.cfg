SPECIFICATION FairSpec
CONSTANTS
  Callers = {manual, periodic}
  MaxReq = 2
INVARIANTS OneAdmission StatusIsTruth OkIsDurable EndedMeansQuiet
PROPERTIES StopCompletes GateReopens CallersReturn
CHECK_DEADLOCK FALSE
