\* One customer, any two handlers at once. It stops once the bounds are used up.
CONSTANTS
  h1 = h1
  k1 = k1
  w1 = w1
  w2 = w2
  s1 = s1
  None = None
  Holds = {h1}
  Seats = {s1}
  Keys = {k1}
  Workers = {w1,w2}
  MaxBegins = 2
  MaxFailures = 1
SYMMETRY Symmetry
CHECK_DEADLOCK FALSE
SPECIFICATION Spec
INVARIANTS ConfirmedOnce SoldIsAnnounced
PROPERTIES SoldIsFinal EndedStaysEnded
