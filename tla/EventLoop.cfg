SPECIFICATION Spec
CONSTANTS
  Tasks = {tick, task}
  TICK = tick
  Delays = {0, 1, 2}
  Granularity = 1
  MaxLag = 1
  MaxLate = 1
  MaxBack = 1
  Socks = {0, 1}
  MAX_NUM_EVENT_TRIGGERS = 1
  AppOps <- AllAppOps
  MaxDepth = 1
INVARIANTS
  SelectSeesHandlers
  DeltasRight
  AlarmRight
PROPERTIES
  AddedLast
