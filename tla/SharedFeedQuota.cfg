CONSTANTS
  g511 = g511
  gOther = gOther
  gTypo = gTypo
  Group <- MCGroup
  QUOTA_GROUP_LIMITS <- MCLimits
  WINDOW_SECONDS = 3
  MaxTime = 7
  MaxRestarts = 1
SPECIFICATION Spec
INVARIANTS
  WindowBound
  DequeAgreesWithHistory
  BudgetPerProcess
PROPERTY ImplementsRollingWindow
