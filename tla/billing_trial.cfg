SPECIFICATION MCSpec
CONSTANTS
  None = None
  ClickTxn = ClickTxn
  kp = kp
  kc = kc
  kq = kq
  km = km
  t1 = t1
  t2 = t2
  t3 = t3
  w1 = w1
  w2 = w2
  Payments <- MCPayments
  Provider <- MCProvider
  ByHand = {kp, kc, km}
  Txns = {t1, t2, t3}
  Order <- MCOrder
  Serial = {kq}
  Workers = {w1, w2}
  PlanDays = 1
  TrialDays = 1
  PastDueDays = 1
  GraceDays = 1
  Starts = {2}
  MaxTime = 3
PROPERTIES
  TrialSuspendedUnpaid
CHECK_DEADLOCK FALSE
