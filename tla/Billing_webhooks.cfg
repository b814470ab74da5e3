\* Two handlers, two subscriptions, one invoice, five events and a crash.
CONSTANTS
  Handlers = {h1, h2}
  Subs = {s1, s2}
  Invoices = {i1}
  None = None
  MaxLog = 5
  MaxCrashes = 1
SPECIFICATION Spec
SYMMETRY Symmetry
INVARIANTS TypeOK CanceledAtStripe ExpensesBacked AgreesWithStripe
