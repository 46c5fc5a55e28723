CONSTANTS
  MaxFrames = 5
  MaxSize = 2
SPECIFICATION FrameSpec
INVARIANTS
  DrawsWhatWasPublished
  OffLeavesNothing
PROPERTIES
  ViewIsStable
