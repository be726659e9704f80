CONSTANTS
  plan = plan
  tests = tests
  source = source
  report = report
  Files <- MCFiles
  NSteps = 5
  After <- PoolAfter
  Lists <- PoolLists
  Deliverables <- PoolDeliverables
  Lands <- PoolLands
  Authors <- MCOne
  Gates <- MCNone
  Parallel = 2
  MaxFaults = 3
SPECIFICATION LiveSpec
INVARIANTS
  WorkIsInOrder
  DoneIsProved
PROPERTIES
  CompletesWhenAllIsThere
  NoHalfLandedStep
  DriveEnds
CHECK_DEADLOCK FALSE
