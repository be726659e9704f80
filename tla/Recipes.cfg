CONSTANTS
  None = None
  sorted = sorted
  stable = stable
  Props <- MCProps
  FixRounds = 2
  MayFail <- MCMayFail
  MaxRevise = 1
  MaxFaults = 1
SPECIFICATION FairSpec
INVARIANTS
  FrozenIsBuilt
  TriageIsFresh
  IdsNeverShared
  ReportIsFinal
PROPERTIES
  RunCompletes
CHECK_DEADLOCK FALSE
