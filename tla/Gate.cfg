CONSTANTS
  ledger = ledger
  tolerances = tolerances
  left = left
  right = right
  NoGate = NoGate
  Gates <- MCGates
  Questions <- MCQuestions
  Human <- MCHuman
  Tabs <- MCTabs
  MaxAnswers = 2
  MaxFaults = 2
SPECIFICATION FairSpec
INVARIANTS
  RecordedAsDecided
  OnlyAPersonAnswers
PROPERTIES
  RowsOnlyGrow
  AnsweredGatePasses
CHECK_DEADLOCK FALSE
