SPECIFICATION FairSpec
CONSTANTS
  Workers = {w1, w2}
  Clients = {c1}
  Tasks = {t1, t2}
  HighPrio = {t2}
  Endless = {t1}
  Main = main
  Nobody = nobody
  Null = null
  RunnerSize = 2
  TaskSize = 1
  Plans <- PlansAll
  CreateMayFail = TRUE
INVARIANTS
  MutualExclusion
  NoWorkerLeft
PROPERTIES
  NoWaitFlushReturns
CHECK_DEADLOCK FALSE
