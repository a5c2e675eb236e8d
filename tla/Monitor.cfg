SPECIFICATION Spec
CONSTANTS
  team = team
  side = side
  friend = friend
  other = other
  star = star
  Star = star
  Group <- MCGroup
  User <- MCUser
  Friend <- MCFriend
  Shape <- MCShape
  Configuration <- MCConfiguration
  Lookups <- MCLookups
  Budgets <- MCBudgets
  DedupMax = 2
  InboundMax = 1
  BufferMax = 2
  IdsMax = 1
  QueueMax = 1
  MaxConcurrent = 2
INVARIANTS
  TypeOK
  QuoteIsOwn
  ContextOnce
  HandledOnceWhileRemembered
  DeniedStaysOut
PROPERTY WarnedBeforeRemoved
CHECK_DEADLOCK FALSE
