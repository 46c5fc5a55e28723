CONSTANTS
  Bytes = {0, 1}
  Wild = Wild
  Batches <- MCBatches
  MaxLength = 3
  Sizes = {3, 5}
  MaxUpdates = 1
  MaxStarts = 2
SPECIFICATION BatchSpec
INVARIANTS
  FindsFirst
  PointersAreRight
CHECK_DEADLOCK FALSE
