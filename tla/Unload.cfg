CONSTANTS
  Features = {f1, f2}
  MaxSwitches = 2
  MayBeCovered = TRUE
  CallsAreShort = TRUE
SPECIFICATION FairSpec
INVARIANTS
  OffIsOff
  UnloadLeavesNothing
  TasksOutliveTheTick
  FreedIsUnused
PROPERTIES
  UnloadEnds
CHECK_DEADLOCK FALSE
