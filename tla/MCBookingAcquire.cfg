\* Three requests for two seats, two of them perhaps with one key. It stops once the bounds are used up.
CONSTANTS
  h1 = h1
  h2 = h2
  h3 = h3
  k1 = k1
  k2 = k2
  w1 = w1
  w2 = w2
  s1 = s1
  s2 = s2
  None = None
  Holds = {h1,h2,h3}
  Seats = {s1,s2}
  Keys = {k1,k2}
  Workers = {w1,w2}
  MaxBegins = 1
  MaxFailures = 0
SYMMETRY Symmetry
CHECK_DEADLOCK FALSE
SPECIFICATION RivalSpec
INVARIANTS NoDoubleSale ConfirmedSeatIsSold SeatMutex HoldKeepsSeat CountCoversMarket
