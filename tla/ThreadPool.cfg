CONSTANTS
  NumWorkers = 2
  Functions = {f1}
  Coroutines = {c1}
  Delays = {1}
  MaxHops = 2
  MaxTime = 1
SPECIFICATION FairSpec
INVARIANTS
  DownIsQuiet
PROPERTIES
  ImplementsPool
  EveryJobRuns
  DestroyEnds
CHECK_DEADLOCK FALSE
