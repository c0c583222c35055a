SPECIFICATION Spec
CONSTANTS
  u1 = u1  u2 = u2
  s1 = s1  s2 = s2  s3 = s3  w1 = w1  w2 = w2
  Payees = {u1, u2}
  SalaryIds = {s1, s2, s3}
  Writers = {w1, w2}
  Starts = {0, 1, 3, 4}
  Ends <- SomeEnds
  NoEnd = NoEnd
  NoSalary = NoSalary
  Day = 2
  MaxSalaries = 3
  MaxCuts = 1
  e1 = e1  e2 = e2  h1 = h1  h2 = h2  h3 = h3  h4 = h4  c1 = c1  c2 = c2
  HolidayIds = {h1, h2, h3, h4}
  Events = {e1, e2}
  HolidayYears = {0, 1}
  DaysPerYear = 3
  Feriados <- SomeFeriados
  HolidayCalls = {c1, c2}
  Entries <- SomeEntries
  Edits <- SomeEdits
  NoDate = NoDate
  ServerZone = 0
  MaxHolidayRequests = 2
  MaxHolidayFaults = 1
  r1 = r1  r2 = r2  t1 = t1  t2 = t2  q1 = q1  q2 = q2
  RosterIds = {r1, r2}
  RosterUsers = {u1, u2}
  RosterTypes = {t1, t2}
  RosterCalls = {q1, q2}
  RosterBodies <- SomeBodies
  NotGiven = NotGiven
  MaxRosterRequests = 4
  MaxRosterCuts = 1
  l1 = l1  l2 = l2  k1 = k1  k2 = k2
  LevelUsers = {u1, u2}
  Levels = {l1, l2}
  LevelCalls = {k1, k2}
  NoLevel = NoLevel
  MaxLevelRequests = 4
  MaxLevelCuts = 1
  full = full  all = all  area = area  rival = rival  odd = odd  other = other
  system = system  userRead = userRead  areaRead = areaRead
  Codes = {full, all, area, rival, odd, other}
  FullAccess = full
  ReadAll = all
  ReadArea = area
  GroupOf <- SomeGroups
  UserRead = userRead
  Priority <- SomePriorities
  NoPriority = NoPriority
  Nothing = Nothing
  MaxListed = 4
  devs = devs  technical = technical  operations = operations
  consultant = consultant  coordinator = coordinator  admin = admin
  Listed <- SomeLists
  Devs = devs
  Full = full
  Admin = admin
  MaxClientSteps = 2
  MaxSeedCuts = 2
CHECK_DEADLOCK FALSE
INVARIANTS
  OneInForce
  PeriodListsInForce
  ClosedIsFollowed
  EventOnce
  YearWhole
  ListedDaysAreHolidays
  
  LevelAsAsked
  BestIsFirstLeast
  ReadersAreServed
  SeedCompletes
PROPERTIES
  RemovedOnlyHollow
