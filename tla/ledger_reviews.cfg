SPECIFICATION Spec
CONSTANTS
  None = None
  Workers = {w1, w2}
  Sales = {s1}
  Payments = {k1}
  Requests = {r1, r2}
  Products = {}
  Prices = {1, 2}
  Amounts = {1, 2}
  Quantities = {1}
  MaxVersion = 2
  MaxStock = 0
SYMMETRY MCSymmetry
INVARIANTS
  LedgerInv
  AuditTrailReplays
  RefundsPostedOnce
CHECK_DEADLOCK FALSE
