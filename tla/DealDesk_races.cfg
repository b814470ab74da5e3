\* Four requests of any kind, at most three in flight, on one vehicle.
CONSTANTS
  Vehicles = {v1}
  Requests = {r1, r2, r3, r4}
  None = None
  Ops <- AllOps
  Payloads <- AllOrNothing
  MaxInFlight = 3
SPECIFICATION Spec
SYMMETRY Symmetry
CHECK_DEADLOCK FALSE
INVARIANTS TypeOK OneSaleJacket OrphanDealExplained AnsweredSaleIsComplete
PROPERTIES SaleJacketStays CommissionFollowsApproval ImplementsLedger
