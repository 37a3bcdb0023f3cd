CONSTANTS
  t1 = t1
  t2 = t2
  Task = {t1, t2}
  Selects <- ScheduleSelects
  Writes <- ScheduleWrites
  BuiltFrom <- ScheduleBuiltFrom
  ByName = TRUE
  TTL = 1
  MaxTime = 1
  MaxVersion = 2
  MaxCancels = 1
SPECIFICATION Spec
INVARIANTS
  FreshIsWhole
  NoStampede
PROPERTIES
  NeverOlder
  GetReturns
