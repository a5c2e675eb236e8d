SPECIFICATION FairSpec
CONSTANTS
  c1 = c1
  c2 = c2
  Client <- MCOneClient
  SeenLimit = 2
  ReplayLimit = 2
  MaxMessages = 5
  MaxHeartbeats = 1
  MaxBreaks = 3
  MaxRestarts = 1
INVARIANTS
  HandledInOrderOnce
  NoUnexplainedGap
PROPERTIES
  ImplementsDelivery
  EventuallyCaughtUp
CHECK_DEADLOCK FALSE
