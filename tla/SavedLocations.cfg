CONSTANTS
  Maps = {m1, m2}
  Names = {n1}
  MaxSaved = 3
  MaxEnds = 2
SPECIFICATION Spec
INVARIANTS
  SavedStay
CHECK_DEADLOCK FALSE
