CONSTANTS
  c1 = c1
  c2 = c2
  trip1 = trip1
  trip2 = trip2
  Client = {c1, c2}
  Trip = {trip1, trip2}
  MAX_EVENTS = 1
  Regional = {FALSE}
  MaxVersion = 3
SPECIFICATION Spec

PROPERTY MostRecentPositionKept
