CONSTANTS
  plan = plan
  tests = tests
  source = source
  report = report
  Files <- MCFiles
  NSteps = 3
  After <- LineAfter
  Lists <- LineLists
  Deliverables <- LineDeliverables
  Lands <- LineLands
  Authors <- MCOne
  Gates <- MCThree
  Parallel = 1
  MaxFaults = 3
SPECIFICATION PeopleSpec
INVARIANTS
  HaltAgrees
  StopWithinOneStep
PROPERTY
  ResumedRunCompletes
CHECK_DEADLOCK FALSE
