SPECIFICATION FairSpec
CONSTANTS
  Tasks = {tick}
  TICK = tick
  Delays = {0, 1}
  Granularity = 1
  MaxLag = 1
  MaxLate = 1
  MaxBack = 0
  Socks = {0, 1}
  MAX_NUM_EVENT_TRIGGERS = 2
  AppOps <- NoLoops
  MaxDepth = 0
PROPERTIES
  SocketServed
  TriggerHandled
