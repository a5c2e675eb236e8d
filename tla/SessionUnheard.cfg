SPECIFICATION FairSpec
CONSTANTS
  s1 = s1
  s2 = s2
  Sender <- MCOneSender
  Listener = "listener"
  MaxAttempts = 2
  MaxLogouts = 0
PROPERTY SessionIsListenedTo
CHECK_DEADLOCK FALSE
