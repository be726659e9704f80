CONSTANTS
  None = None
  sorted = sorted
  stable = stable
  Props <- MCProps
  FixRounds = 2
  MayFail <- MCMayFail
  MaxRevise = 1
  MaxFaults = 1
SPECIFICATION Spec
INVARIANTS
  NothingHidden
CHECK_DEADLOCK FALSE
