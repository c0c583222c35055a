SPECIFICATION FairSpec
CONSTANTS
  g1 = g1  g2 = g2  n1 = n1  n2 = n2  a1 = a1 
  Ids = {g1, g2}
  Users = {"u1"}
  Names = {n1, n2}
  Areas = {a1}
  Calls = {1, 2}
  None = None
  Unset = Unset
  Creates <- SomeCreates
  Updates <- SomeUpdates
  MaxRequests = 5
CHECK_DEADLOCK FALSE
INVARIANTS
  LevelsFollowTree
  
PROPERTIES
  CascadeOnlyAfterChange
  WalksEnd
