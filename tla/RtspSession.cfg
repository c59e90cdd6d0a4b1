SPECIFICATION SessionFairSpec
CONSTANTS
  Kinds <- AllKinds
  SessionFrames = 3
INVARIANTS
  InStep
PROPERTIES
  Progress
CHECK_DEADLOCK FALSE
