SPECIFICATION FairSpec
CONSTANTS
  Radix = 3
  MAGIC = 2
  OTHER_NAL = 1
  max_buf_size = 11
  Frames <- All
  MaxFrames = 4
INVARIANTS
  FramesInOrder
PROPERTIES
  FramesArrive
CHECK_DEADLOCK FALSE
