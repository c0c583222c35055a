SPECIFICATION Spec
CONSTANTS
  i1 = i1  i2 = i2  u1 = u1  u2 = u2  t1 = t1  t2 = t2  d1 = d1  d2 = d2
  c1 = c1  c2 = c2
  Ids = {i1, i2}
  Users = {u1, u2}
  ShiftTypes = {t1, t2}
  Days = {d1, d2}
  Schedules <- NightAndTwenty
  Calls = {c1, c2}
  None = None
  Fraction = Fraction
  Operations = {"batch", "single", "update", "reassign", "delete"}
  MaxBatch = 2
  MaxEvents = 3
SYMMETRY Symmetry
CHECK_DEADLOCK FALSE
INVARIANTS
  HoursFollowShift
  LastEventNamesHolder
  OriginalInTrail
  OneShiftPerDay
