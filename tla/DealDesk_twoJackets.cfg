\* Two requests that open a jacket on the same vehicle.
CONSTANTS
  Vehicles = {v1}
  Requests = {r1, r2}
  None = None
  Ops <- AllOps
  Payloads <- AllOrNothing
  MaxInFlight = 2
SPECIFICATION Spec
CHECK_DEADLOCK FALSE
INVARIANTS OneJacketPerVehicle
