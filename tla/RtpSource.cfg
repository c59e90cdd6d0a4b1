SPECIFICATION FairSpec
CONSTANTS
  SeqNums = 8
  BaseSeqNum = 6
  Layouts <- MCLayouts
  MaxStops = 1
  MaxCopies = 1
  NULL = NULL
INVARIANTS
  BuffersSound
  FramesWhole
  ExtendedRight
PROPERTIES
  KeepsGoing
