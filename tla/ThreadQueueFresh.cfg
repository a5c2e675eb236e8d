SPECIFICATION FairSpec
CONSTANTS
  t1 = t1
  t2 = t2
  t3 = t3
  t4 = t4
  Thread <- MCFewThreads
  MaxConcurrent = 2
  MaxPerThread = 2
  MaxMessages = 4
  MaxHorizon = 0
INVARIANT WorkConserving
PROPERTY EveryQueueDrains
CHECK_DEADLOCK FALSE
