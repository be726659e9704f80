CONSTANTS
  None = None
  gap = gap
  wording = wording
  Points <- MCPoints
  Blocking <- MCBlocking
  Cap = 3
  Filings <- MCFilings
  MaxFaults = 2
SPECIFICATION FairSpec
INVARIANTS
  NoThirdExchange
  EndsReviewed
  AcceptedIsStored
PROPERTIES
  LoopEnds
CHECK_DEADLOCK FALSE
