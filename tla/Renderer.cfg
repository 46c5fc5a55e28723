CONSTANTS
  Queues = {q1, q2}
  MaxChains = 2
  MaxResizes = 2
  MaxFailures = 1
SPECIFICATION FairSpec
INVARIANTS
  DrawsCurrent
  IdleAtResize
  NeverInTheWay
  RightQueue
PROPERTIES
  DrawnAgain
  NobodyIsStuck
CHECK_DEADLOCK FALSE
