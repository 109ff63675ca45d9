SPECIFICATION FairSessionSpec
CONSTANTS
  u1 = u1
  u2 = u2
  None = None
  Sessions <- TwoSessions
  UsersOf <- TwoUsers
  MaxEvents = 3
CHECK_DEADLOCK FALSE
INVARIANTS
  FirstUsersList
PROPERTIES
  StopEnds
