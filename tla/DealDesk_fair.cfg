\* Three requests on one vehicle under weak fairness of every handler.
CONSTANTS
  Vehicles = {v1}
  Requests = {r1, r2, r3}
  None = None
  Ops <- SaleOps
  Payloads <- AllOrNothing
  MaxInFlight = 3
SPECIFICATION FairSpec
CHECK_DEADLOCK FALSE
PROPERTIES DealGetsJacket
