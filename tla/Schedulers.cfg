CONSTANTS
  g511 = g511
  a = a
  b = b
  c = c
  r1 = r1
  q1 = q1
  q2 = q2
  Group = {g511}
  group = g511
  QUOTA_GROUP_LIMITS <- MCLimits
  WINDOW_SECONDS = 6
  TickInterval = 2
  ALERTS_TICK_EVERY = 3
  MaxTime = 12
  MaxRestarts = 0
  Startups <- MCStartups
  MaxLatency = 1
  MaxFailures = 1
  Request = {q1, q2}
  PollInterval = 3
SPECIFICATION Spec
SYMMETRY Requests
INVARIANTS
  NoTurnDenied
  BudgetRespected
  EqualTurns
PROPERTY PredictionNearTurn
