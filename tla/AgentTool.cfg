SPECIFICATION Spec
CONSTANTS
  team = team
  club = club
  friend = friend
  other = other
  star = star
  s1 = s1
  s2 = s2
  User <- MCUser
  Group <- MCGroup
  Friend <- MCFriend
  Star = star
  Slot <- MCSlot
  Settings <- MCSettings
  NoOne = NoOne
  Naming <- MCNaming
SYMMETRY SlotsAlike
INVARIANTS
  EditsAreKept
  RequestsListed
PROPERTIES
  OnlyTheNamedUser
CHECK_DEADLOCK FALSE
