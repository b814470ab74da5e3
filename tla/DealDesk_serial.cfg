\* Requests served one at a time, each of which may crash at any await.
CONSTANTS
  Vehicles = {v1, v2}
  Requests = {r1, r2, r3, r4}
  None = None
  Ops <- SerialOps
  Payloads <- PartlyGiven
  MaxInFlight = 1
SPECIFICATION Spec
SYMMETRY Symmetry
CHECK_DEADLOCK FALSE
INVARIANTS OneJacketPerVehicle JacketNumbersUnique SaleTermsAgree PausedStaysPaused
PROPERTIES FinalIsFinal
