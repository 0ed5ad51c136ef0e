\* Three events, two calls of flush, two faults.
CONSTANTS
  r1 = r1
  r2 = r2
  r3 = r3
  c1 = c1
  c2 = c2
  Rows = {r1, r2, r3}
  After <- After1
  Stamps = {1, 2, 3}
  Calls = {c1, c2}
  BatchSize = 2
  MaxAttempts = 2
  MaxFaults = 2
SPECIFICATION FairSpec
INVARIANTS TypeOK CopiesAreFaults InOrder
PROPERTIES ImplementsLog EventsSettle
