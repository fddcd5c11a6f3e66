SPECIFICATION FairSpec
CONSTANTS
  None = None
  Workers = {w1, w2}
  Sales = {s1}
  Payments = {k1, k2}
  Requests = {r1}
  Products = {}
  Prices = {2}
  Amounts = {1, 2}
  Quantities = {1}
  MaxVersion = 3
  MaxStock = 0
INVARIANTS
  BalanceNeverNegative
  OwedWhileActive
  PaymentsPostedOnce
PROPERTIES
  CancelledIsFinal
  ReopensOnlyIntoDebt
  NoPaymentOnCancelled
  HandlersReturn
CHECK_DEADLOCK FALSE
