CONSTANTS
  Keys = {k1, k2}
  Values = {1, 2}
  Defaults <- AllOnes
  Wrong = 0
  MaxChanges = 3
  MaxFailures = 1
  MaxEnds = 2
SPECIFICATION FairSpec
INVARIANTS
  SettingsStay
PROPERTIES
  ChangeIsSaved
CHECK_DEADLOCK FALSE
