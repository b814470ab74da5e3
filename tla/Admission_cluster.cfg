SPECIFICATION AdmissionSpec
CONSTANTS
  Handlers = {h1, h2}
  None = None
  MaxRequests = 3
  Workers = {w1, w2}
  Most = 1
  WindowLength = 2
  DayLength = 2
  MaxTime = 2
INVARIANTS OneGlobalCounter
CHECK_DEADLOCK FALSE
