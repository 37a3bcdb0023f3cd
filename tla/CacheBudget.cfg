CONSTANTS
  g511 = g511
  direct = direct
  regional = regional
  t1 = t1
  t2 = t2
  t3 = t3
  NoGroup = NoGroup
  Group = {g511}
  QUOTA_GROUP_LIMITS <- MCLimits
  WINDOW_SECONDS = 2
  MaxRestarts = 0
  MinInterval <- MCMinInterval
  MaxTime = 3
  Key = {direct, regional}
  Task = {t1, t2}
  SchedulerTask = {t2}
  Regional = {regional}
  GroupOf <- MCGroupOf
  MaxVersion = 2
  Changing = {regional}
  MaxMishaps = 1
SPECIFICATION Spec
INVARIANTS
  ExcessOnlyFromColdStarts
PROPERTIES
  RacesHeal
