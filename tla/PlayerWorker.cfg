SPECIFICATION MCSpec
CONSTANTS
  States = {s1, s2}
  MayReusePlace = FALSE
  MaxMaps = 2
  MaxClicks = 2
  Tries = 2
  MaxRenames = 2
  MaxResets = 1
  MaxLate = 1
INVARIANTS
  AlertsAreTrue
  CameraIsYours
PROPERTIES
  NameIsAskedFor
  PlatformFollows
  TagFollows
