CONSTANTS
  None = None
  p1 = p1
  p2 = p2
  author = author
  git = git
  pytest = pytest
  NoId = NoId
  Ids <- MCIds
  Side = author
  Things <- MCTools
  Allowed <- MCAllowed
  Good = Good
  Garbage = Garbage
  Backends <- MCAll
  Problems <- MCProblems
  ReAskMax = 4
  Ceiling = 2
  Parallel = 2
  Scoped = TRUE
  MaxTurns = 2
  MaxLines = 2
  MaxIssues = 2
SPECIFICATION FairSpec
INVARIANTS
  ReAskIsProgress
  CallIsConfined
  AnswersAreBilled
  CeilingIsKept
PROPERTIES
  CallEnds
CHECK_DEADLOCK FALSE
