SPECIFICATION FairSpec
CONSTANTS
  r1 = r1  r2 = r2 r3 = r3  n1 = n1  n2 = n2  n3 = n3  u1 = u1  u2 = u2
  a1 = a1
  Ids = {r1, r2, r3}
  Users = {u1, u2}
  Areas = {a1}
  Names = {n1, n2, n3}
  RowIds = {1, 2, 3, 4}
  Calls = {1, 2}
  None = None
  Unset = Unset
  Seeded <- SeededRoles
  Offered <- OfferedIn
  Updates <- SomeUpdates
  Wanted <- SomeWanted
  MaxRequests = 3
CHECK_DEADLOCK FALSE
INVARIANTS
  DirectoryKnowsMembers
  AreasOfLastUpdate
  DoubledOnlyByRace
PROPERTIES
  ReplacesAll
  HandlersEnd
