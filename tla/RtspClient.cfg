SPECIFICATION FairSpec
CONSTANTS
  MaxRequests = 2
  MaxOdd = 2
  MaxFrames = 3
  MaxGets = 2
  Tunnels <- Both
  Odd <- Anything
CHECK_DEADLOCK FALSE
INVARIANTS
  NoneForgotten
  OwnedOnce
PROPERTIES
  ImplementsService
  Answered
