SPECIFICATION FairSpec
CONSTANTS
  m1 = m1
  m2 = m2
  Message <- MCMessage
  Refused <- MCRefused
  DedupMax = 1
  MaxPosts = 3
  MaxRestarts = 1
INVARIANTS
  HandledOnceWhileKnown
  OkWasEarned
PROPERTIES
  ImplementsReplyOnce
  AnswerIsFinal
  EveryPostEnds
CHECK_DEADLOCK FALSE
