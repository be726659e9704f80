CONSTANTS
  r1 = r1
  r2 = r2
  r3 = r3
  Nobody = Nobody
  Runners <- MCTwo
  Accidents <- MCRough
SPECIFICATION FairSpec
INVARIANT
  OneDriver
PROPERTY
  NotHeldByTheDead
CHECK_DEADLOCK FALSE
