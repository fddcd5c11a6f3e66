SPECIFICATION Spec
CONSTANTS
  None = None
  Workers = {w1, w2}
  Sales = {s1, s2}
  Payments = {k1}
  Requests = {}
  Products = {p1}
  Prices = {1}
  Amounts = {1}
  Quantities = {1, 2}
  MaxVersion = 3
  MaxStock = 2
SYMMETRY MCSymmetry
INVARIANTS
  TypeOK
  StockConserved
  ChargedAtMostOnce
CHECK_DEADLOCK FALSE
