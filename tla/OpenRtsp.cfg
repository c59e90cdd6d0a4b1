SPECIFICATION FairSpec
CONSTANTS
  NumSubs = 2
  Options <- MCOptions
  MaxRequests = 6
CHECK_DEADLOCK FALSE
INVARIANTS
  SetupInTurn
  OneTimerEach
  TeardownOnce
PROPERTIES
  Ends
