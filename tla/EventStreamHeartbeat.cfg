SPECIFICATION Spec
CONSTANTS
  c1 = c1
  c2 = c2
  Client <- MCOneClient
  SeenLimit = 2
  ReplayLimit = 4
  MaxMessages = 3
  MaxHeartbeats = 1
  MaxBreaks = 1
  MaxRestarts = 0
PROPERTY ResumesBufferedRecords
CHECK_DEADLOCK FALSE
