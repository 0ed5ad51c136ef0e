\* Two clicks, one GET of the countdown at a time, two after a payment.
CONSTANTS
  Clicks = {1, 2}
  Polls = {p1}
  MaxHolds = 2
  Attempts = 2
  MaxFaults = 1
  None = None
SPECIFICATION FairSpec
INVARIANTS TypeOK TicketIsReal ChargedOnce OneCheckoutPerKey
CHECK_DEADLOCK FALSE
PROPERTIES ScreenSettles
