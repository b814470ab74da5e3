\* Two requests; only the mail provider fails.
CONSTANTS
  Requests = {r1, r2}
  None = None
  Own = Own
  Faults = {"mail"}
SPECIFICATION Spec
CHECK_DEADLOCK FALSE
INVARIANTS OneAccount
