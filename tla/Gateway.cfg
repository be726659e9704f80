CONSTANTS
  page = page
  shell = shell
  Starters <- MCStarters
  MaxFolders = 2
  MaxRuns = 2
  MaxLists = 2
  MaxHands = 2
SPECIFICATION Spec
SYMMETRY MCSymmetry
INVARIANTS
  RunIsNeverReplaced
  ListIsComplete
  GhostsHaveCauses
CHECK_DEADLOCK FALSE
