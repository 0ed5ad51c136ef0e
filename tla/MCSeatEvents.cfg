CONSTANTS
  Holds = {1, 2}
  Events <- MCEvents
  Interest <- MCInterest
  Deployments <- MCDeployments
  Prefetch = 2
  MaxReleases = 1
  MaxUnsent = 2
  MaxFaults = 1
SPECIFICATION MCSpec
CHECK_DEADLOCK FALSE
INVARIANTS TypeOK NothingVanishes RepeatsAreClosings TicketsAreSales SalesAreTracked
PROPERTIES SoldStaysSold ConfirmedGetsTicket SaleReachesSeat
