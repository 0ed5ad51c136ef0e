\* One customer, two crashes. It stops once the bounds are used up.
CONSTANTS
  h1 = h1
  k1 = k1
  w1 = w1
  s1 = s1
  None = None
  Holds = {h1}
  Seats = {s1}
  Keys = {k1}
  Workers = {w1}
  MaxBegins = 2
  MaxFailures = 2
CHECK_DEADLOCK FALSE
SPECIFICATION FairSpec
PROPERTIES SeatsComeBack CheckoutsEnd
