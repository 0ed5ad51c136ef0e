\* Two calls, two keys, two faults.
CONSTANTS
  r1 = r1
  Reservations = {r1}
  Keys = {k1, k2}
  resOf <- OneReservation
  Calls = {c1, c2}
  MaxFaults = 2
  None = None
SPECIFICATION Spec
INVARIANTS CompletedIsAnnounced CompensatedIsServed OneActive ChargedIsVisible ConfirmedIsPaid
PROPERTIES PaidNotCompensated OnlyThrowsSkipCompensation
SYMMETRY Symmetric
CHECK_DEADLOCK FALSE
