CONSTANTS
  r1 = r1
  r2 = r2
  r3 = r3
  Nobody = Nobody
  Runners <- MCThree
  Accidents <- MCOrderly
SPECIFICATION FairSpec
INVARIANT
  ReportIsTrue
PROPERTY
  StopIsHonoured
CHECK_DEADLOCK FALSE
