CONSTANTS
  Steps <- MCSteps
  Stages <- MCStages
  StageOf <- MCStageOf
  MaxSessions = 2
  MaxTurns = 1
SPECIFICATION PagesSpec
INVARIANTS
  PageShowsItsHash
  DecidesInTheStageSeen
  KeptRowIsTrue
  RemovesWhatWasAsked
CHECK_DEADLOCK FALSE
