SPECIFICATION Spec
CONSTANTS
  t1 = t1
  t2 = t2
  t3 = t3
  t4 = t4
  Thread <- MCThreads
  MaxConcurrent = 2
  MaxPerThread = 2
  MaxMessages = 6
  MaxHorizon = 5
SYMMETRY MCSymmetry
INVARIANTS
  TypeOK
  SlotsAccounted
  SerialPerThread
  OverlapOnlyAbandoned
  WaitersRegistered
  IdleThreadsForgotten
PROPERTIES
  NoSilentLoss
  StartsFreshAndInOrder
  ImplementsSink
CHECK_DEADLOCK FALSE
