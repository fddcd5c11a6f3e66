CONSTANTS
  Page <- MCPage
  Row = {r1, r2}
  Draft = {r2}
  MaxLoad = 2
  MaxCall = 2
  MaxEvents = 3
  None = None
  Customer = {c1, c2}
  Line = {l1, l2}
  MaxCheck = 2
  MaxMoves = 5
  Nobody = Nobody
  Flow <- MCFlow
  Tab = {t1, t2}
  MaxAttempts = 1
  MaxCodes = 2
  MaxVerify = 2
SPECIFICATION Spec
INVARIANTS
  PageListInv
  ReadsOwnWrites
  RepeatedOnlyInDoubt
  SaleFormInv
  SoldAgainOnlyAfterFailure
  CodesInv
  NoLateRedemption
PROPERTIES
  PageSettles
CHECK_DEADLOCK FALSE
