\* One handler, so that events are handled one at a time.
CONSTANTS
  Handlers = {h1}
  Subs = {s1, s2}
  Invoices = {i1}
  None = None
  MaxLog = 5
  MaxCrashes = 0
SPECIFICATION Spec
INVARIANTS UpgradeKeepsAccount
