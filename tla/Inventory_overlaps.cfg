SPECIFICATION InventorySpec
CONSTANTS
  Handlers = {h1, h2}
  None = None
  MaxRequests = 3
  Vehicles = {v1, v2}
  Vins = {n1, n2}
  Expenses = {e1, e2}
  Prices = {p1, p2}
  Costs = {2}
INVARIANTS InventoryTypeOK VinsUnique TotalsExplained SalesAgree UndoPostdatesPlan
SYMMETRY Symmetry
CHECK_DEADLOCK FALSE
