SPECIFICATION Spec
CONSTANTS
  g1 = g1
  g2 = g2
  direct = direct
  u1 = u1
  u2 = u2
  User <- MCUser
  Name <- MCName
  Symbol <- MCSymbol
  Letter <- MCLetter
  Request <- MCRequest
  Permitted <- MCPermitted
  MaxText = 10
  CacheMax = 1
  MaxCalls = 2
  MaxRenames = 1
  MaxExpiries = 1
INVARIANTS
  MentionsPointAtNames
  StylesCoverWhatWasMarked
  OkMeansSent
CHECK_DEADLOCK FALSE
