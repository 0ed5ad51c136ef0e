\* Two customers, one handler at a time, no crash. It stops once the bounds are used up.
CONSTANTS
  h1 = h1
  h2 = h2
  k1 = k1
  k2 = k2
  w1 = w1
  s1 = s1
  None = None
  Holds = {h1,h2}
  Seats = {s1}
  Keys = {k1,k2}
  Workers = {w1}
  MaxBegins = 1
  MaxFailures = 0
SYMMETRY Symmetry
CHECK_DEADLOCK FALSE
SPECIFICATION Spec
INVARIANTS TypeOK ReleasedOnce
PROPERTY KeepsLedger
