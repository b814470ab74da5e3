\* A jacket is drafted and rejected; one request at a time.
CONSTANTS
  Vehicles = {v1}
  Requests = {r1, r2}
  None = None
  Ops <- AllOps
  Payloads <- AllOrNothing
  MaxInFlight = 1
SPECIFICATION Spec
CHECK_DEADLOCK FALSE
INVARIANTS RejectedVehicleCanBeSold
