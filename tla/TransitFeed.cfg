CONSTANTS
  c1 = c1
  c2 = c2
  trip1 = trip1
  trip2 = trip2
  Client = {c1, c2}
  Trip = {trip1, trip2}
  MAX_EVENTS = 1
  Regional = {TRUE, FALSE}
  MaxVersion = 2
SPECIFICATION Spec
SYMMETRY Symmetry
PROPERTIES
  ClientNeverGoesBack
  EndedTripsAgeOut
