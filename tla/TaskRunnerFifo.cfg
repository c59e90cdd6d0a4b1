SPECIFICATION FairSpec
CONSTANTS
  Workers = {w1}
  Clients = {c1, c2}
  Tasks = {t1, t2, t3}
  HighPrio = {}
  Endless = {}
  Main = main
  Nobody = nobody
  Null = null
  RunnerSize = 1
  TaskSize = 1
  Plans <- PlanMain
  CreateMayFail = FALSE
  Worker1 = w1
INVARIANTS
  RunOnce
PROPERTIES
  AcceptedTaskRuns
  FullMeansFull
  ImplementsPool
