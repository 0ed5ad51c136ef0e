\* Two customers, two handlers at once.
CONSTANTS
  h1 = h1
  h2 = h2
  k1 = k1
  k2 = k2
  w1 = w1
  w2 = w2
  s1 = s1
  None = None
  Holds = {h1,h2}
  Seats = {s1}
  Keys = {k1,k2}
  Workers = {w1,w2}
  MaxBegins = 1
  MaxFailures = 0
SYMMETRY Symmetry
CHECK_DEADLOCK FALSE
SPECIFICATION OrderlySpec
INVARIANT NoDoubleSale
