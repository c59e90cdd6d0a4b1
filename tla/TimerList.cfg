SPECIFICATION TimersSpec
CONSTANTS
  Timers = {a, b, c}
  NULL = null
  Delays = {0, 1, 2}
  Periods = {1}
  CallbackOps = {"create", "reset_self"}
  MaxClock = 2
  MaxTime = 6
INVARIANTS
  ListsSound
  AllDueRun
PROPERTIES
  ImplementsService
SYMMETRY TimersSymmetry
