\* Two calls with keys of their own, no fault.
CONSTANTS
  r1 = r1
  Reservations = {r1}
  Keys = {k1, k2}
  resOf <- OneReservation
  Calls = {c1, c2}
  MaxFaults = 0
  None = None
SPECIFICATION SteadySpec
INVARIANT OnePayment
CHECK_DEADLOCK FALSE
