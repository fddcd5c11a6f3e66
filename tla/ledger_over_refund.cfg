SPECIFICATION Spec
CONSTANTS
  None = None
  Workers = {w1, w2}
  Sales = {s1}
  Payments = {k1}
  Requests = {r1, r2}
  Products = {}
  Prices = {1}
  Amounts = {1}
  Quantities = {1}
  MaxVersion = 1
  MaxStock = 0
PROPERTIES
  RefundWithinCollected
CHECK_DEADLOCK FALSE
