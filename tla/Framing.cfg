SPECIFICATION FairSpec
CONSTANTS
  HeaderLen = 2
  Values <- MCValues
  Sizes = {1, 2, 3}
  Window = 4
  MaxFrames = 3
CHECK_DEADLOCK FALSE
INVARIANTS
  FramesIntact
  EndIsReal
PROPERTIES
  KeepsFrames
  FrameArrives
