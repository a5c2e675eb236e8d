SPECIFICATION FairSpec
CONSTANTS
  s1 = s1
  s2 = s2
  Sender <- MCOneSender
  Listener = "listener"
  MaxAttempts = 3
  MaxLogouts = 1
INVARIANTS
  TypeOK
  MemoIsPending
  CallersShareAttempt
  RouteSessionIsOwn
PROPERTY EveryCallAnswered
CHECK_DEADLOCK FALSE
