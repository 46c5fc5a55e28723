CONSTANTS
  Tasks = {t1, t2, t3}
  Delays = {1}
  NoWake = NoWake
  MaxDepth = 2
  MaxCalls = 1
  MaxTime = 1
SPECIFICATION FairSpec
PROPERTIES
  Refines
  EveryTaskStarts
  SleeperWakes
