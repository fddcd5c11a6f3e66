SPECIFICATION Spec
CONSTANTS
  None = None
  Workers = {w1, w2}
  Sales = {s1}
  Payments = {k1, k2}
  Requests = {r1, r2}
  Products = {}
  Prices = {2}
  Amounts = {1, 2}
  Quantities = {1}
  MaxVersion = 2
  MaxStock = 0
INVARIANTS
  AckedSaleIsCharged
CHECK_DEADLOCK FALSE
