CONSTANTS
  runner = runner
  gateway = gateway
  step1 = step1
  step2 = step2
  ceiling = ceiling
  NoThread = NoThread
  Procs <- MCProcs
  Threads <- MCThreads
  ProcOf <- MCProcOf
  Savers <- MCSavers
  MaxCalls = 2
  MaxCrashes = 1
SPECIFICATION FairSpec
INVARIANTS
  NeverTorn
PROPERTIES
  LockGivenBack
  ImplementsAtomic
CHECK_DEADLOCK FALSE
