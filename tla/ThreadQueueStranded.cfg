SPECIFICATION Spec
CONSTANTS
  t1 = t1
  t2 = t2
  t3 = t3
  t4 = t4
  Thread <- MCFewThreads
  MaxConcurrent = 1
  MaxPerThread = 2
  MaxMessages = 5
  MaxHorizon = 4
SYMMETRY MCSymmetry
INVARIANT WorkConserving
CHECK_DEADLOCK FALSE
