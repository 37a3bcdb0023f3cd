CONSTANTS
  g511 = g511
  direct = direct
  regional = regional
  t1 = t1
  t2 = t2
  t3 = t3
  NoGroup = NoGroup
  Group = {g511}
  QUOTA_GROUP_LIMITS <- MCLimits
  WINDOW_SECONDS = 2
  MaxRestarts = 0
  MinInterval <- MCMinInterval
  MaxTime = 4
  Key = {direct}
  Task = {t1, t2, t3}
  SchedulerTask = {t3}
  Regional = {}
  GroupOf <- MCNoGroup
  MaxVersion = 3
  Changing = {direct}
  MaxMishaps = 2
SPECIFICATION Spec
PROPERTIES
  ImplementsSingleFetcher
  RefreshSpacing
  NeverOlder
  ZeroIntervalIsCurrent
  GetReturns
