--------------------------- MODULE BillingProofs ---------------------------
(***************************************************************************)
(* Proofs about Billing for every set of invoices, transactions and        *)
(* workers and for every length of plans, trials and rungs.                *)
(***************************************************************************)
EXTENDS Billing, TLAPS

USE BillingAssumption

(* The bookkeeping of workers. *)
LEMMA WorkerTypes ==
  /\ Idle \in Tx
  /\ \A pc \in PC, t \in Txns, state \in {0, -1, -2} : ForTxn(pc, t, state) \in Tx
  /\ \A pc \in PC, s, target \in TenantStatus, d \in Nat :
       Dunning(pc, s, d, target) \in Tx
  /\ \A pc \in PC, k \in Payments, t \in Txns \cup {None}, s \in TenantStatus :
       ForPayment(pc, k, t, s) \in Tx
BY DEF Idle, ForTxn, ForPayment, Dunning, Tx, PC, TenantStatus

LEMMA RungType ==
  ASSUME NEW s \in TenantStatus, NEW d, NEW e
  PROVE  Rung(s, d, e) \in TenantStatus
BY DEF Rung, TenantStatus

LEMMA PeriodType ==
  ASSUME NEW start \in Int, NEW days \in Nat
  PROVE  From(start, days) \in Period
BY DEF From, Period

LEMMA RowTypes ==
  ASSUME NEW s \in {"pending", "paid", "cancelled"},
         NEW row, row.start \in Int, row.end \in Int,
         NEW txn \in Txns \cup {ClickTxn, None}, NEW state \in {0, 1, 2, -1, -2}
  PROVE  Row(s, row, txn, state) \in PaymentRow
BY DEF Row, PaymentRow

LEMMA MarkedType ==
  ASSUME NEW row \in PaymentRow, NEW s \in {"paid", "cancelled"},
         NEW state \in {0, 2, -1, -2}
  PROVE  Marked(row, s, state) \in PaymentRow
BY RowTypes DEF Marked, PaymentRow

LEMMA SettleTypes ==
  ASSUME TypeOK, NEW w \in Workers, InHand(w), SettleCommit(w)
  PROVE  TypeOK'
<1> DEFINE k == tx[w].pay
           row == Marked(payment[k], "paid", IF tx[w].pc = "perform" THEN 2 ELSE 0)
<1>1. k \in Payments
  BY DEF SettleCommit, Settlers, InHand
<1>2. row \in PaymentRow
  BY <1>1, MarkedType DEF TypeOK
<1>3. payment' = [payment EXCEPT ![k] = row]
  BY DEF SettleCommit
<1>4. payment' \in [Payments -> PaymentRow]
  BY <1>1, <1>2, <1>3 DEF TypeOK
<1>5. period' \in Period
  BY <1>1 DEF SettleCommit, TypeOK, PaymentRow, Period
<1>6. status' \in TenantStatus
  BY DEF SettleCommit, TypeOK, Reactivated, TenantStatus
<1>7. granted' \in [Payments -> Nat] /\ performed' \subseteq Payments
  BY <1>1 DEF SettleCommit, TypeOK
<1>8. moved' \subseteq Workers /\ behind' \subseteq Workers
  BY DEF SettleCommit, TypeOK, Runs, StillBehind
<1>9. tx' \in [Workers -> Tx]
  BY WorkerTypes DEF SettleCommit, Finish, TypeOK
<1> QED
  BY <1>4, <1>5, <1>6, <1>7, <1>8, <1>9 DEF SettleCommit, TypeOK

LEMMA InitBillingInv == Init => BillingInv
<1> SUFFICES ASSUME Init PROVE BillingInv
  OBVIOUS
<1> USE DEF Init
<1>1. TypeOK
  <2>1. period \in Period \cup {NoPeriod}
    BY PeriodType
  <2>2. tx \in [Workers -> Tx]
    BY WorkerTypes
  <2>3. payment \in [Payments -> PaymentRow]
    BY DEF NoPayment, PaymentRow
  <2>4. trialEnd \in Int \cup {None} /\ status \in TenantStatus
    BY DEF TenantStatus
  <2> QED
    BY <2>1, <2>2, <2>3, <2>4 DEF TypeOK
<1>2. Bound /\ GrantedOnce /\ OneSettles
  BY DEF Bound, GrantedOnce, NoPayment, OneSettles, Settlers, Settling, Idle
<1>3. \A w \in Workers : InHand(w) /\ Looks(w)
  BY DEF InHand, Looks, Runs, Settlers, Settling, Idle
<1>4. CreatedIsFound /\ ConfirmedWasGranted /\ AdvanceIsDue
  BY DEF CreatedIsFound, ConfirmedWasGranted, AdvanceIsDue, Idle
<1>5. OrderInv
  BY DEF OrderInv, InOrder, Alone, CancelsRight, StateAgrees, Idle, NoPayment
<1> QED
  BY <1>1, <1>2, <1>3, <1>4, <1>5 DEF BillingInv

-----------------------------------------------------------------------------
(* Every variable stays in its table. *)
LEMMA TypesPreserved ==
  ASSUME TypeOK, \A w \in Workers : InHand(w), [Next]_vars
  PROVE  TypeOK'
<1> USE DEF TypeOK, Finish, StillBehind, dbvars, histvars
(* A step of one worker that leaves the rows alone.                        *)
<1>step. ASSUME NEW w \in Workers, NEW step \in Tx,
                tx' = [tx EXCEPT ![w] = step], UNCHANGED <<now, dbvars, histvars>>
         PROVE  TypeOK'
  BY <1>step
<1>settle. ASSUME NEW w \in Workers, NEW k \in Payments, NEW pc \in Settling,
                  NEW t \in Txns \cup {None}, Settle(w, pc, k, t)
           PROVE  TypeOK'
  <2>1. ForPayment(pc, k, t, status) \in Tx
    BY WorkerTypes DEF Settling, PC
  <2> QED
    BY <1>settle, <1>step, <2>1 DEF Settle
<1>0. CASE CloseAccount
  BY <1>0 DEF CloseAccount, Runs, Settlers, TenantStatus
<1>1. CASE Tick
  BY <1>1 DEF Tick
<1>2. ASSUME NEW start \in Starts \cup {now}, ChoosePlan(start) PROVE TypeOK'
  <2>1. period' \in Period
    BY <1>2, PeriodType DEF ChoosePlan
  <2> QED
    BY <1>2, <2>1 DEF ChoosePlan, Runs
<1>3. ASSUME NEW k \in Payments, InitiatePayment(k) PROVE TypeOK'
  <2>1. period \in Period /\ period.end \in Int
    BY <1>3 DEF InitiatePayment, Period
  <2>2. From(period.end, PlanDays) \in Period
    BY <2>1, PeriodType
  <2>3. Invoice(From(period.end, PlanDays)) \in PaymentRow
    BY <2>2, RowTypes DEF Invoice, Period
  <2> QED
    BY <1>3, <2>3 DEF InitiatePayment
<1>4. ASSUME NEW k \in Payments,
             NEW p \in {period} \cup {From(s, PlanDays) : s \in Starts},
             CreateManualInvoice(k, p)
      PROVE  TypeOK'
  <2>1. p \in Period
    BY <1>4, PeriodType DEF CreateManualInvoice
  <2>2. Invoice(p) \in PaymentRow
    BY <2>1, RowTypes DEF Invoice, Period
  <2> QED
    BY <1>4, <2>2 DEF CreateManualInvoice
<1>5. ASSUME NEW w \in Workers, NEW k \in Payments, MarkInvoicePaid(w, k)
      PROVE  TypeOK'
  BY <1>5, <1>settle DEF MarkInvoicePaid, Settling
<1>6. ASSUME NEW t \in Txns, RepeatCreateTransaction(t) PROVE TypeOK'
  BY <1>6 DEF RepeatCreateTransaction
<1>7. ASSUME NEW w \in Workers, NEW t \in Txns, PerformTransaction(w, t)
      PROVE  TypeOK'
  BY <1>7, <1>settle DEF PerformTransaction, Settling
<1>8. ASSUME NEW t \in Txns, RepeatPerformTransaction(t) PROVE TypeOK'
  BY <1>8 DEF RepeatPerformTransaction
<1>9. ASSUME NEW w \in Workers, NEW t \in Txns, CreateTransactionRead(w, t)
      PROVE  TypeOK'
  BY <1>9, WorkerTypes DEF CreateTransactionRead, PC
<1>10. ASSUME NEW w \in Workers, NEW t \in Txns, CancelTransactionRead(w, t)
       PROVE  TypeOK'
  <2>1. CancelState(payment[Order[t]].status) \in {0, -1, -2}
    BY DEF CancelState
  <2> QED
    BY <1>10, <2>1, WorkerTypes DEF CancelTransactionRead, PC
<1>11. ASSUME NEW w \in Workers, CreateTransactionStore(w) PROVE TypeOK'
  <2>1. tx[w].txn \in Txns /\ payment[Order[tx[w].txn]].status # "absent"
    BY <1>11 DEF CreateTransactionStore, InHand
  <2>2. PICK t \in Txns : t = tx[w].txn
    BY <2>1
  <2>3. Row(payment[Order[t]].status, payment[Order[t]], t, 1) \in PaymentRow
    BY <2>1, <2>2, RowTypes DEF PaymentRow
  <2>4. payment' \in [Payments -> PaymentRow]
    BY <1>11, <2>2, <2>3 DEF CreateTransactionStore
  <2>5. tx' \in [Workers -> Tx]
    BY <1>11, <2>2, WorkerTypes DEF CreateTransactionStore, PC
  <2> QED
    BY <1>11, <2>4, <2>5 DEF CreateTransactionStore
<1>12. ASSUME NEW w \in Workers, CreateTransactionTaken(w) PROVE TypeOK'
  BY <1>12, WorkerTypes DEF CreateTransactionTaken
<1>13. ASSUME NEW w \in Workers, CreateTransactionRef(w) PROVE TypeOK'
  BY <1>13, WorkerTypes DEF CreateTransactionRef, InHand
<1>14. ASSUME NEW w \in Workers, CancelTransactionWrite(w) PROVE TypeOK'
  <2>1. PICK t \in Txns : t = tx[w].txn
    BY <1>14 DEF CancelTransactionWrite, InHand
  <2>2. Marked(payment[Order[t]], "cancelled", tx[w].state) \in PaymentRow
    BY MarkedType DEF Tx
  <2> QED
    BY <1>14, <2>1, <2>2, WorkerTypes DEF CancelTransactionWrite, Void
<1>15. ASSUME NEW w \in Workers, CancelTransactionLate(w) PROVE TypeOK'
  BY <1>15, WorkerTypes DEF CancelTransactionLate
<1>16. ASSUME NEW w \in Workers, NEW k \in Payments, ClickPrepareRead(w, k)
       PROVE  TypeOK'
  <2>1. ForPayment("prepare", k, None, "trial") \in Tx
    BY WorkerTypes DEF PC, TenantStatus
  <2> QED
    BY <1>16, <1>step, <2>1 DEF ClickPrepareRead
<1>17. ASSUME NEW w \in Workers, ClickPrepareBind(w) PROVE TypeOK'
  <2> DEFINE k == tx[w].pay
  <2>1. k \in Payments /\ payment[k].status # "absent"
    BY <1>17 DEF ClickPrepareBind, InHand
  <2>2. Row(payment[k].status, payment[k], ClickTxn, payment[k].state) \in PaymentRow
    BY <2>1, RowTypes DEF PaymentRow
  <2> QED
    BY <1>17, <2>1, <2>2, WorkerTypes DEF ClickPrepareBind
<1>25. ASSUME NEW w \in Workers, ClickPrepareBound(w) PROVE TypeOK'
  BY <1>25, WorkerTypes DEF ClickPrepareBound
<1>26. ASSUME NEW w \in Workers, NEW k \in Payments, ClickComplete(w, k)
       PROVE  TypeOK'
  BY <1>26, <1>settle DEF ClickComplete, Settling
<1>27. ASSUME NEW w \in Workers, SettleCommit(w) PROVE TypeOK'
  BY <1>27, SettleTypes
<1>18. ASSUME NEW k \in Payments, RepeatClickComplete(k) PROVE TypeOK'
  BY <1>18 DEF RepeatClickComplete
<1>19. ASSUME NEW k \in Payments, ClickCompleteError(k) PROVE TypeOK'
  <2>1. Marked(payment[k], "cancelled", 0) \in PaymentRow
    BY MarkedType
  <2> QED
    BY <1>19, <2>1 DEF ClickCompleteError, Void
<1>20. ASSUME NEW w \in Workers, DunningList(w) PROVE TypeOK'
  <2>1. /\ Dunning("advance", status, now, "suspended") \in Tx
        /\ Dunning("look", status, now, status) \in Tx
    BY WorkerTypes DEF PC, TenantStatus
  <2> QED
    BY <1>20, <2>1 DEF DunningList
<1>21. ASSUME NEW w \in Workers, DunningLook(w) PROVE TypeOK'
  <2>1. tx[w].listed \in TenantStatus /\ tx[w].asof \in Nat
    BY DEF Tx
  <2>2. Dunning("advance", tx[w].listed, tx[w].asof,
                Rung(tx[w].listed, tx[w].asof, period.end)) \in Tx
    BY <2>1, RungType, WorkerTypes DEF PC
  <2> QED
    BY <1>21, <2>2, WorkerTypes DEF DunningLook
<1>22. ASSUME NEW w \in Workers, DunningAdvance(w) PROVE TypeOK'
  <2>1. tx[w].target \in TenantStatus
    BY DEF Tx
  <2> QED
    BY <1>22, <2>1, WorkerTypes DEF DunningAdvance
<1>23. ASSUME NEW w \in Workers, Crash(w) PROVE TypeOK'
  BY <1>23, WorkerTypes DEF Crash
<1>24. CASE UNCHANGED vars
  BY <1>24 DEF vars
<1> QED
  BY <1>0, <1>1, <1>2, <1>3, <1>4, <1>5, <1>6, <1>7, <1>8, <1>9, <1>10, <1>11,
     <1>12, <1>13, <1>14, <1>15, <1>16, <1>17, <1>18, <1>19, <1>20, <1>21,
     <1>22, <1>23, <1>24, <1>25, <1>26, <1>27 DEF Next, Desk, Payme, Click, Dun

-----------------------------------------------------------------------------
(* What ties the rows of the two tables to each other, to the callbacks    *)
(* under way and to what the providers were told.                          *)
RowsInv ==
  /\ TypeOK /\ Bound /\ GrantedOnce /\ OneSettles
  /\ \A w \in Workers : InHand(w)
  /\ CreatedIsFound /\ ConfirmedWasGranted

(* What a worker has in hand stays so while payments keep their            *)
(* transactions, none disappears and the one it settles stays pending.     *)
LEMMA StillInHand ==
  ASSUME NEW v \in Workers, InHand(v), tx'[v] = tx[v],
         \A k \in Payments : payment[k].txn # None => payment'[k].txn = payment[k].txn,
         \A k \in Payments : payment[k].status # "absent" => payment'[k].status # "absent",
         \A k \in Payments : v \in Settlers /\ tx[v].pay = k
           => payment'[k].status = payment[k].status
  PROVE  InHand(v)'
<1>1. \A t \in Txns : /\ Order[t] \in Payments /\ t # None
                      /\ payment[Order[t]].txn = t => payment'[Order[t]].txn = t
  OBVIOUS
<1>2. CASE tx[v].pc \in Settling
  <2>1. v \in Settlers /\ tx[v].pay \in Payments
          /\ payment'[tx[v].pay].status = "pending"
    BY <1>2 DEF InHand, Settlers
  <2> QED
    BY <1>1, <1>2, <2>1 DEF InHand, Settling
<1>3. CASE tx[v].pc \notin Settling
  BY <1>1, <1>3 DEF InHand, Settling
<1> QED
  BY <1>2, <1>3

(* Settling an open invoice gives its period for the first time.           *)
LEMMA SettleRows ==
  ASSUME RowsInv, NEW w \in Workers, SettleCommit(w)
  PROVE  /\ Bound' /\ GrantedOnce' /\ OneSettles' /\ \A v \in Workers : InHand(v)'
         /\ CreatedIsFound' /\ ConfirmedWasGranted'
<1> USE DEF RowsInv, TypeOK
<1> DEFINE k == tx[w].pay
<1>1. w \in Settlers /\ k \in Payments /\ payment[k].status = "pending"
  BY DEF SettleCommit, Settlers, InHand
<1>2. /\ \A i \in Payments : payment'[i].txn = payment[i].txn
      /\ \A i \in Payments \ {k} : payment'[i] = payment[i]
      /\ payment'[k].status = "paid"
  BY <1>1 DEF SettleCommit, Marked, Row
<1>3. /\ \A i \in Payments \ {k} : granted'[i] = granted[i]
      /\ granted[k] = 0 /\ granted'[k] = 1
  BY <1>1 DEF SettleCommit, GrantedOnce
<1>4. UNCHANGED <<ref, created>> /\ performed' \in {performed, performed \cup {k}}
  BY DEF SettleCommit
<1>5. tx'[w] = Idle /\ \A v \in Workers \ {w} : tx'[v] = tx[v]
  BY DEF SettleCommit, Finish
<1>6. Bound'
  BY <1>2, <1>4 DEF Bound
<1>7. GrantedOnce'
  BY <1>1, <1>2, <1>3 DEF GrantedOnce
<1>8. OneSettles'
  BY <1>5 DEF OneSettles, Settlers, Settling, Idle
<1>9. ASSUME NEW v \in Workers PROVE InHand(v)'
  <2>1. CASE v = w
    BY <1>5, <2>1 DEF InHand, Idle, Settling
  <2>2. CASE v # w
    <3>1. v \notin Settlers /\ tx'[v] = tx[v]
      BY <1>1, <1>5, <2>2 DEF OneSettles
    <3> HIDE DEF k
    <3> QED
      BY <1>1, <1>2, <3>1, StillInHand
  <2> QED
    BY <2>1, <2>2
<1>10. CreatedIsFound'
  BY <1>2, <1>4 DEF CreatedIsFound, Found
<1>11. ConfirmedWasGranted'
  BY <1>3, <1>4 DEF ConfirmedWasGranted
<1> QED
  BY <1>6, <1>7, <1>8, <1>9, <1>10, <1>11

(* A new invoice is bound to nothing and a voided one keeps its binding.   *)
LEMMA OtherRows ==
  ASSUME RowsInv, NEW k \in Payments, NEW row,
         payment' = [payment EXCEPT ![k] = row],
         \/ row.status = payment[k].status
         \/ payment[k].status = "absent" /\ row.status = "pending"
         \/ payment[k].status \in {"pending", "paid"} /\ row.status = "cancelled"
              /\ ~RowLocked(k),
         \/ row.txn = payment[k].txn
         \/ row.txn = ClickTxn /\ payment[k].txn = None
              /\ payment[k].status # "absent",
         UNCHANGED <<ref, granted, created, performed>>,
         \/ UNCHANGED tx
         \/ \E w \in Workers : tx' = [tx EXCEPT ![w] = Idle]
  PROVE  /\ Bound' /\ GrantedOnce' /\ OneSettles' /\ \A v \in Workers : InHand(v)'
         /\ CreatedIsFound' /\ ConfirmedWasGranted'
<1> USE DEF RowsInv, TypeOK
<1>1. /\ \A i \in Payments \ {k} : payment'[i] = payment[i]
      /\ payment'[k] = row
  OBVIOUS
<1>2. \A t \in Txns : payment[Order[t]].txn = t => payment'[Order[t]].txn = t
  BY <1>1
<1>3. Bound'
  BY <1>1, <1>2 DEF Bound
<1>4. GrantedOnce'
  BY <1>1 DEF GrantedOnce
<1>5. CreatedIsFound'
  BY <1>2 DEF CreatedIsFound, Found
<1>6. ConfirmedWasGranted'
  BY DEF ConfirmedWasGranted
<1>7. \A v \in Workers : tx'[v] = tx[v] \/ tx'[v] = Idle
  OBVIOUS
<1>8. OneSettles'
  BY <1>7 DEF OneSettles, Settlers, Settling, Idle
<1>9. ASSUME NEW v \in Workers PROVE InHand(v)'
  <2>1. CASE tx'[v] = Idle
    BY <2>1 DEF InHand, Idle, Settling
  <2>2. CASE tx'[v] = tx[v]
    <3>1. ASSUME v \in Settlers, tx[v].pay = k
          PROVE  row.status = payment[k].status
      <4>1. RowLocked(k) /\ payment[k].status = "pending"
        BY <3>1 DEF RowLocked, Settlers, InHand
      <4> QED
        BY <4>1
    <3> QED
      BY <1>1, <2>2, <3>1, StillInHand
  <2> QED
    BY <1>7, <2>1, <2>2
<1> QED
  BY <1>3, <1>4, <1>5, <1>6, <1>8, <1>9

LEMMA RowsPreserved ==
  ASSUME RowsInv, [Next]_vars
  PROVE  /\ Bound' /\ GrantedOnce' /\ OneSettles' /\ \A w \in Workers : InHand(w)'
         /\ CreatedIsFound' /\ ConfirmedWasGranted'
<1> DEFINE Goal == /\ Bound' /\ GrantedOnce' /\ OneSettles'
                   /\ \A w \in Workers : InHand(w)'
                   /\ CreatedIsFound' /\ ConfirmedWasGranted'
<1>0. SUFFICES Goal
  OBVIOUS
<1> USE DEF Finish, dbvars, histvars
<1>quiet. ASSUME UNCHANGED <<payment, ref, granted, performed, tx>>,
                 created' = created \/ \E t \in Txns : ref[t] # None /\ created' = created \cup {t}
          PROVE  Goal
  <2>1. Bound' /\ GrantedOnce' /\ OneSettles' /\ ConfirmedWasGranted'
    BY <1>quiet DEF RowsInv, Bound, GrantedOnce, OneSettles, Settlers,
                    ConfirmedWasGranted
  <2>2. CreatedIsFound'
    BY <1>quiet DEF RowsInv, CreatedIsFound, Found, Bound
  <2>3. \A w \in Workers : InHand(w)'
    BY <1>quiet DEF RowsInv, InHand
  <2> QED
    BY <2>1, <2>2, <2>3
(* A step of one worker that leaves the rows alone.                        *)
<1>step. ASSUME UNCHANGED <<payment, ref, granted, performed, created>>,
                NEW w \in Workers, NEW step, tx' = [tx EXCEPT ![w] = step],
                step.pc \notin Settling \/ Settlers = {}, InHand(w)'
         PROVE  Goal
  <2>1. tx'[w] = step /\ \A v \in Workers \ {w} : tx'[v] = tx[v]
    BY <1>step DEF RowsInv, TypeOK
  <2>2. Bound' /\ GrantedOnce' /\ CreatedIsFound' /\ ConfirmedWasGranted'
    BY <1>step DEF RowsInv, Bound, GrantedOnce, CreatedIsFound, Found,
                   ConfirmedWasGranted
  <2>3. OneSettles'
    BY <1>step, <2>1 DEF RowsInv, OneSettles, Settlers
  <2>4. ASSUME NEW v \in Workers PROVE InHand(v)'
    BY <1>step, <2>1 DEF RowsInv, InHand
  <2> QED
    BY <2>2, <2>3, <2>4
<1>idle. ASSUME UNCHANGED <<payment, ref, granted, performed, created>>,
                NEW w \in Workers, NEW step, tx' = [tx EXCEPT ![w] = step],
                step.pc \in {"idle", "look", "advance"}
         PROVE  Goal
  <2>1. InHand(w)' /\ step.pc \notin Settling
    BY <1>idle DEF RowsInv, TypeOK, InHand, Settling
  <2> QED
    BY <1>idle, <1>step, <2>1
<1>settle. ASSUME NEW w \in Workers, NEW k \in Payments, NEW pc, NEW t,
                  Settle(w, pc, k, t),
                  \/ pc = "settle" /\ k \in ByHand
                  \/ pc = "complete" /\ Provider[k] = "click"
                  \/ pc = "perform" /\ t \in Txns /\ k = Order[t] /\ Found(t)
           PROVE  Goal
  <2>1. InHand(w)'
    BY <1>settle DEF Settle, ForPayment, Payable, Found, InHand, Settling,
                     RowsInv, TypeOK
  <2> QED
    BY <1>settle, <1>step, <2>1 DEF Settle
<1>0a. CASE CloseAccount
  BY <1>0a, <1>quiet DEF CloseAccount
<1>1. CASE Tick
  BY <1>1, <1>quiet DEF Tick
<1>2. ASSUME NEW start, ChoosePlan(start) PROVE Goal
  BY <1>2, <1>quiet DEF ChoosePlan
<1>3. ASSUME NEW k \in Payments, NEW p, payment[k].status = "absent",
             payment' = [payment EXCEPT ![k] = Invoice(p)],
             UNCHANGED <<ref, tx, granted, created, performed>>
      PROVE  Goal
  <2>1. Invoice(p).status = "pending" /\ Invoice(p).txn = payment[k].txn
    BY <1>3 DEF Invoice, Row, RowsInv, GrantedOnce
  <2> QED
    BY <1>3, <2>1, OtherRows
<1>4. ASSUME NEW k \in Payments, InitiatePayment(k) PROVE Goal
  BY <1>3, <1>4 DEF InitiatePayment
<1>5. ASSUME NEW k \in Payments, NEW p, CreateManualInvoice(k, p) PROVE Goal
  BY <1>3, <1>5 DEF CreateManualInvoice
<1>6. ASSUME NEW w \in Workers, NEW k \in Payments, MarkInvoicePaid(w, k)
      PROVE  Goal
  BY <1>6, <1>settle DEF MarkInvoicePaid
<1>7. ASSUME NEW t \in Txns, RepeatCreateTransaction(t) PROVE Goal
  BY <1>7, <1>quiet DEF RepeatCreateTransaction
<1>8. ASSUME NEW w \in Workers, NEW t \in Txns, PerformTransaction(w, t)
      PROVE  Goal
  BY <1>8, <1>settle DEF PerformTransaction
<1>9. ASSUME NEW k \in Payments, payment[k].status = "paid",
             performed' = performed \cup {k},
             UNCHANGED <<payment, ref, tx, granted, created>>
      PROVE  Goal
  <2>1. granted[k] = 1
    BY <1>9 DEF RowsInv, GrantedOnce
  <2>2. Bound' /\ GrantedOnce' /\ OneSettles' /\ CreatedIsFound'
    BY <1>9 DEF RowsInv, Bound, GrantedOnce, OneSettles, Settlers,
                CreatedIsFound, Found
  <2>3. \A w \in Workers : InHand(w)'
    BY <1>9 DEF RowsInv, InHand
  <2> QED
    BY <1>9, <2>1, <2>2, <2>3 DEF RowsInv, ConfirmedWasGranted
<1>10. ASSUME NEW t \in Txns, RepeatPerformTransaction(t) PROVE Goal
  BY <1>9, <1>10 DEF RepeatPerformTransaction
<1>11. ASSUME NEW w \in Workers, NEW t \in Txns, CreateTransactionRead(w, t)
       PROVE  Goal
  <2>1. InHand(w)' /\ ForTxn("create", t, 0).pc \notin Settling
    BY <1>11 DEF CreateTransactionRead, RowsInv, TypeOK, InHand, ForTxn, Settling
  <2> QED
    BY <1>11, <1>step, <2>1 DEF CreateTransactionRead
<1>12. ASSUME NEW w \in Workers, NEW t \in Txns, CancelTransactionRead(w, t)
       PROVE  Goal
  <2> DEFINE step == ForTxn("cancel", t, CancelState(payment[Order[t]].status))
  <2>1. InHand(w)' /\ step.pc \notin Settling
    BY <1>12 DEF CancelTransactionRead, Found, RowsInv, TypeOK, InHand, ForTxn,
                 Settling
  <2> QED
    BY <1>12, <1>step, <2>1 DEF CancelTransactionRead
<1>13. ASSUME NEW w \in Workers, CreateTransactionStore(w) PROVE Goal
  <2>1. PICK t \in Txns : t = tx[w].txn
    BY <1>13 DEF CreateTransactionStore, RowsInv, InHand
  <2> DEFINE k == Order[t]
  <2>2. /\ k \in Payments /\ payment[k].txn = None
        /\ payment[k].status # "absent" /\ Provider[k] = "payme"
        /\ \A i \in Payments \ {k} : payment'[i] = payment[i]
        /\ payment'[k].txn = t /\ payment'[k].status = payment[k].status
    BY <1>13, <2>1
       DEF CreateTransactionStore, Unbound, RowsInv, TypeOK, InHand, Row
  <2>3. \A u \in Txns : payment[Order[u]].txn = u => payment'[Order[u]].txn = u
    BY <2>2
  <2>4. Bound'
    <3>1. ASSUME NEW i \in Payments, payment'[i].txn \in Txns
          PROVE  Order[payment'[i].txn] = i /\ Provider[i] = "payme"
      BY <2>1, <2>2, <3>1 DEF RowsInv, Bound
    <3>2. ASSUME NEW u \in Txns, ref[u] # None
          PROVE  ref[u] = Order[u] /\ payment'[Order[u]].txn = u
      BY <2>3, <3>2 DEF RowsInv, Bound
    <3>3. ref' = ref
      BY <1>13 DEF CreateTransactionStore
    <3> QED
      BY <3>1, <3>2, <3>3 DEF Bound
  <2>5. GrantedOnce'
    <3>1. UNCHANGED granted /\ GrantedOnce
      BY <1>13 DEF CreateTransactionStore, RowsInv
    <3>2. \A i \in Payments : /\ payment'[i].status = payment[i].status
                              /\ payment'[i].status = "absent"
                                   => payment'[i].txn = payment[i].txn
      BY <2>2
    <3> HIDE DEF k
    <3> QED
      BY <3>1, <3>2 DEF GrantedOnce
  <2>6. CreatedIsFound'
    BY <1>13, <2>3 DEF CreateTransactionStore, RowsInv, TypeOK, CreatedIsFound, Found
  <2>7. ConfirmedWasGranted'
    BY <1>13 DEF CreateTransactionStore, RowsInv, ConfirmedWasGranted
  <2>8. ASSUME NEW v \in Workers PROVE InHand(v)'
    <3>1. CASE v = w
      BY <1>13, <2>1, <2>2, <3>1
         DEF CreateTransactionStore, RowsInv, TypeOK, InHand, ForTxn, Settling
    <3>2. CASE v # w
      <4>1. tx'[v] = tx[v] /\ InHand(v)
        BY <1>13, <3>2 DEF CreateTransactionStore, RowsInv, TypeOK
      <4>2. \A i \in Payments : /\ payment'[i].status = payment[i].status
                                /\ payment[i].txn # None
                                     => payment'[i].txn = payment[i].txn
        BY <2>2
      <4> QED
        BY <4>1, <4>2, StillInHand
    <3> QED
      BY <3>1, <3>2
  <2>9. OneSettles'
    BY <1>13 DEF CreateTransactionStore, ForTxn, RowsInv, TypeOK, OneSettles,
                 Settlers, Settling
  <2> QED
    BY <2>4, <2>5, <2>6, <2>7, <2>8, <2>9
<1>14. ASSUME NEW w \in Workers, CreateTransactionTaken(w) PROVE Goal
  BY <1>14, <1>idle, WorkerTypes DEF CreateTransactionTaken, Idle
<1>15. ASSUME NEW w \in Workers, CreateTransactionRef(w) PROVE Goal
  <2>1. PICK t \in Txns : t = tx[w].txn
    BY <1>15 DEF CreateTransactionRef, RowsInv, InHand
  <2>2. /\ payment[Order[t]].txn = t /\ Order[t] # None
        /\ ref' = [ref EXCEPT ![t] = Order[t]]
        /\ created' = created \cup {t}
    BY <1>15, <2>1 DEF CreateTransactionRef, RowsInv, InHand
  <2>3. \A u \in Txns : ref'[u] = IF u = t THEN Order[t] ELSE ref[u]
    BY <2>2 DEF RowsInv, TypeOK
  <2>4. Bound' /\ CreatedIsFound'
    BY <1>15, <2>2, <2>3
       DEF CreateTransactionRef, RowsInv, TypeOK, Bound, CreatedIsFound, Found
  <2>5. GrantedOnce' /\ ConfirmedWasGranted'
    BY <1>15 DEF CreateTransactionRef, RowsInv, GrantedOnce, ConfirmedWasGranted
  <2>6. OneSettles'
    BY <1>15 DEF CreateTransactionRef, Idle, RowsInv, TypeOK, OneSettles,
                 Settlers, Settling
  <2>7. \A v \in Workers : InHand(v)'
    BY <1>15 DEF CreateTransactionRef, RowsInv, TypeOK, InHand, Idle, Settling
  <2> QED
    BY <2>4, <2>5, <2>6, <2>7
<1>16. ASSUME NEW w \in Workers, CancelTransactionWrite(w) PROVE Goal
  <2>1. PICK t \in Txns : t = tx[w].txn
    BY <1>16 DEF CancelTransactionWrite, RowsInv, InHand
  <2> DEFINE row == Marked(payment[Order[t]], "cancelled", tx[w].state)
  <2>2. /\ payment' = [payment EXCEPT ![Order[t]] = row]
        /\ row.status = "cancelled" /\ row.txn = payment[Order[t]].txn
        /\ payment[Order[t]].status \in {"pending", "paid"}
        /\ ~RowLocked(Order[t])
    BY <1>16, <2>1 DEF CancelTransactionWrite, Void, Cancellable, Marked, Row
  <2> HIDE DEF row
  <2> QED
    BY <1>16, <2>2, OtherRows DEF CancelTransactionWrite
<1>17. ASSUME NEW w \in Workers, CancelTransactionLate(w) PROVE Goal
  BY <1>17, <1>idle DEF CancelTransactionLate, Idle
<1>18. ASSUME NEW w \in Workers, NEW k \in Payments, ClickPrepareRead(w, k)
       PROVE  Goal
  <2> DEFINE step == ForPayment("prepare", k, None, "trial")
  <2>1. InHand(w)' /\ step.pc \notin Settling
    BY <1>18 DEF ClickPrepareRead, RowsInv, TypeOK, InHand, ForPayment, Settling
  <2> QED
    BY <1>18, <1>step, <2>1 DEF ClickPrepareRead
<1>19. ASSUME NEW w \in Workers, ClickPrepareBind(w) PROVE Goal
  <2>1. PICK k \in Payments : k = tx[w].pay /\ payment[k].status # "absent"
    BY <1>19 DEF ClickPrepareBind, RowsInv, InHand
  <2> DEFINE row == Row(payment[k].status, payment[k], ClickTxn, payment[k].state)
  <2>2. /\ payment' = [payment EXCEPT ![k] = row]
        /\ row.status = payment[k].status
        /\ row.txn = ClickTxn /\ payment[k].txn = None
    BY <1>19, <2>1 DEF ClickPrepareBind, Row, Unbound
  <2> HIDE DEF row
  <2> QED
    BY <1>19, <2>1, <2>2, OtherRows DEF ClickPrepareBind
<1>27. ASSUME NEW w \in Workers, ClickPrepareBound(w) PROVE Goal
  BY <1>27, <1>idle DEF ClickPrepareBound, Idle
<1>28. ASSUME NEW w \in Workers, NEW k \in Payments, ClickComplete(w, k)
       PROVE  Goal
  BY <1>28, <1>settle DEF ClickComplete
<1>29. ASSUME NEW w \in Workers, SettleCommit(w) PROVE Goal
  BY <1>29, SettleRows
<1>20. ASSUME NEW k \in Payments, RepeatClickComplete(k) PROVE Goal
  BY <1>9, <1>20 DEF RepeatClickComplete
<1>21. ASSUME NEW k \in Payments, ClickCompleteError(k) PROVE Goal
  <2> DEFINE row == Marked(payment[k], "cancelled", 0)
  <2>1. /\ payment' = [payment EXCEPT ![k] = row]
        /\ row.status = "cancelled" /\ row.txn = payment[k].txn
        /\ payment[k].status \in {"pending", "paid"} /\ ~RowLocked(k)
    BY <1>21 DEF ClickCompleteError, Void, Cancellable, Marked, Row
  <2> QED
    BY <1>21, <2>1, OtherRows DEF ClickCompleteError
<1>22. ASSUME NEW w \in Workers, DunningList(w) PROVE Goal
  <2>1. /\ Dunning("advance", status, now, "suspended") \in Tx
        /\ Dunning("look", status, now, status) \in Tx
    BY WorkerTypes DEF PC, TenantStatus, RowsInv, TypeOK
  <2> QED
    BY <1>22, <1>idle, <2>1 DEF DunningList, Dunning
<1>23. ASSUME NEW w \in Workers, DunningLook(w) PROVE Goal
  <2>1. tx[w].listed \in TenantStatus /\ tx[w].asof \in Nat
    BY DEF RowsInv, TypeOK, Tx
  <2> DEFINE next == Dunning("advance", tx[w].listed, tx[w].asof,
                             Rung(tx[w].listed, tx[w].asof, period.end))
  <2>2. next \in Tx /\ next.pc = "advance" /\ Idle \in Tx /\ Idle.pc = "idle"
    BY <2>1, RungType, WorkerTypes DEF PC, Dunning, Idle
  <2> QED
    BY <1>23, <1>idle, <2>2 DEF DunningLook
<1>24. ASSUME NEW w \in Workers, DunningAdvance(w) PROVE Goal
  BY <1>24, <1>idle, WorkerTypes DEF DunningAdvance, Idle
<1>25. ASSUME NEW w \in Workers, Crash(w) PROVE Goal
  BY <1>25, <1>idle, WorkerTypes DEF Crash, Idle
<1>26. CASE UNCHANGED vars
  BY <1>26, <1>quiet DEF vars
<1> QED
  BY <1>0a, <1>1, <1>2, <1>4, <1>5, <1>6, <1>7, <1>8, <1>10, <1>11, <1>12,
     <1>13, <1>14, <1>15, <1>16, <1>17, <1>18, <1>19, <1>20, <1>21, <1>22,
     <1>23, <1>24, <1>25, <1>26, <1>27, <1>28, <1>29
     DEF Next, Desk, Payme, Click, Dun

-----------------------------------------------------------------------------
(* What a dunning run may be about to do. *)
DunningInv ==
  /\ TypeOK
  /\ \A w \in Workers : Looks(w)
  /\ AdvanceIsDue

LEMMA DunningPreserved ==
  ASSUME DunningInv, [Next]_vars
  PROVE  (\A w \in Workers : Looks(w)') /\ AdvanceIsDue'
<1> DEFINE Goal == (\A w \in Workers : Looks(w)') /\ AdvanceIsDue'
<1>0. SUFFICES Goal
  OBVIOUS
<1> USE DEF DunningInv, TypeOK, Finish, StillBehind, dbvars, histvars
<1>quiet. ASSUME UNCHANGED <<status, trialEnd, period, tx, moved, behind>>
          PROVE  Goal
  BY <1>quiet DEF Looks, Runs, Settlers, AdvanceIsDue, Due, OverBy
(* A step of one worker, which leaves the account open or finds it closed. *)
<1>step. ASSUME NEW w \in Workers, NEW step, tx' = [tx EXCEPT ![w] = step],
                UNCHANGED <<trialEnd, period>>,
                status' = "cancelled" => status = "cancelled",
                moved' \in {moved, moved \ {w}},
                behind' = behind \/ StillBehind,
                w \in behind' => step.pc \in {"look", "advance"} \cup Settling,
                status' = "cancelled" /\ step.pc \in {"look", "advance"} \cup Settling
                  /\ step.listed # "cancelled" => w \in behind,
                step.pc \in {"look", "advance"} => step.listed # "cancelled",
                step.pc = "look" => step.listed \in {"active", "past_due", "grace"},
                step.pc = "advance" => step.target # "cancelled" /\ Due(w)'
         PROVE  Goal
  <2>1. tx'[w] = step /\ \A v \in Workers \ {w} : tx'[v] = tx[v]
    BY <1>step
  <2>2. ASSUME NEW v \in Workers PROVE Looks(v)'
    <3>1. CASE v = w
      BY <1>step, <2>1, <3>1 DEF Looks, Runs, Settlers, Settling
    <3>2. CASE v # w
      <4>1. tx'[v] = tx[v] /\ Looks(v)
        BY <2>1, <3>2
      <4>2. v \in behind' <=> v \in behind
        BY <1>step, <4>1 DEF Looks, Runs, Settlers, Settling
      <4> QED
        BY <1>step, <4>1, <4>2 DEF Looks, Runs, Settlers
    <3> QED
      BY <3>1, <3>2
  <2>3. ASSUME NEW v \in Workers \ moved', tx'[v].pc = "advance" PROVE Due(v)'
    <3>1. CASE v = w
      BY <1>step, <2>1, <2>3, <3>1
    <3>2. CASE v # w
      <4>1. v \in Workers \ moved /\ tx'[v] = tx[v]
        BY <1>step, <2>1, <3>2
      <4>2. Due(v)
        BY <2>3, <4>1 DEF AdvanceIsDue
      <4> QED
        BY <1>step, <4>1, <4>2 DEF Due, OverBy
    <3> QED
      BY <3>1, <3>2
  <2> QED
    BY <2>2, <2>3 DEF AdvanceIsDue
(* A call that is no dunning run and no settlement, from one to the other. *)
<1>call. ASSUME NEW w \in Workers, NEW step, tx' = [tx EXCEPT ![w] = step],
                tx[w].pc \notin {"look", "advance"} \cup Settling,
                step.pc \notin {"look", "advance"} \cup Settling,
                UNCHANGED <<status, trialEnd, period, moved, behind>>
         PROVE  Goal
  <2>1. w \notin behind
    BY <1>call DEF Looks, Runs, Settlers
  <2> QED
    BY <1>call, <1>step, <2>1
<1>leave. ASSUME NEW w \in Workers, tx' = [tx EXCEPT ![w] = Idle], StillBehind,
                 UNCHANGED <<trialEnd, period>>, moved' \in {moved, moved \ {w}},
                 status' = "cancelled" => status = "cancelled"
          PROVE  Goal
  <2>1. Idle.pc = "idle"
    BY DEF Idle
  <2>2. w \notin behind'
    BY <1>leave, <2>1
  <2> QED
    BY <1>leave, <1>step, <2>1, <2>2 DEF Settling
<1>settle. ASSUME NEW w \in Workers, NEW pc \in Settling, NEW k, NEW t,
                  Settle(w, pc, k, t)
           PROVE  Goal
  <2> DEFINE step == ForPayment(pc, k, t, status)
  <2>1. /\ tx' = [tx EXCEPT ![w] = step] /\ tx[w].pc = "idle"
        /\ step.pc = pc /\ step.listed = status
        /\ UNCHANGED <<status, trialEnd, period, moved, behind>>
    BY <1>settle DEF Settle, ForPayment
  <2>2. w \notin behind
    BY <2>1 DEF Looks, Runs, Settlers, Settling
  <2> HIDE DEF step
  <2> QED
    BY <1>settle, <1>step, <2>1, <2>2 DEF Settling
(* A closure leaves nothing under way but what it puts behind.             *)
<1>0a. CASE CloseAccount
  <2>1. \A w \in Workers : Looks(w)'
    BY <1>0a DEF CloseAccount, Looks, Runs, Settlers, Settling
  <2>2. AdvanceIsDue'
    BY <1>0a DEF CloseAccount, AdvanceIsDue, Due, OverBy
  <2> QED
    BY <2>1, <2>2
<1>1. CASE Tick
  BY <1>1, <1>quiet DEF Tick
(* A period that moves takes every run under way out of the promise.       *)
<1>2. ASSUME NEW start, ChoosePlan(start) PROVE Goal
  <2>1. \A w \in Workers : Looks(w)'
    BY <1>2 DEF ChoosePlan, Looks, Runs, Settlers
  <2>2. \A w \in Workers \ moved' : tx'[w].pc # "advance"
    BY <1>2 DEF ChoosePlan, Runs
  <2> QED
    BY <2>1, <2>2 DEF AdvanceIsDue
<1>3. ASSUME NEW k \in Payments, InitiatePayment(k) PROVE Goal
  BY <1>3, <1>quiet DEF InitiatePayment
<1>4. ASSUME NEW k \in Payments, NEW p, CreateManualInvoice(k, p) PROVE Goal
  BY <1>4, <1>quiet DEF CreateManualInvoice
<1>5. ASSUME NEW w \in Workers, NEW k \in Payments, MarkInvoicePaid(w, k)
      PROVE  Goal
  BY <1>5, <1>settle DEF MarkInvoicePaid, Settling
<1>6. ASSUME NEW t \in Txns, RepeatCreateTransaction(t) PROVE Goal
  BY <1>6, <1>quiet DEF RepeatCreateTransaction
<1>7. ASSUME NEW w \in Workers, NEW t \in Txns, PerformTransaction(w, t)
      PROVE  Goal
  BY <1>7, <1>settle DEF PerformTransaction, Settling
<1>8. ASSUME NEW t \in Txns, RepeatPerformTransaction(t) PROVE Goal
  BY <1>8, <1>quiet DEF RepeatPerformTransaction
<1>9. ASSUME NEW w \in Workers, NEW t \in Txns, CreateTransactionRead(w, t)
      PROVE  Goal
  BY <1>9, <1>call DEF CreateTransactionRead, ForTxn, Settling
<1>10. ASSUME NEW w \in Workers, NEW t \in Txns, CancelTransactionRead(w, t)
       PROVE  Goal
  BY <1>10, <1>call DEF CancelTransactionRead, ForTxn, Settling
<1>11. ASSUME NEW w \in Workers, CreateTransactionStore(w) PROVE Goal
  BY <1>11, <1>call DEF CreateTransactionStore, ForTxn, Settling
<1>12. ASSUME NEW w \in Workers, CreateTransactionTaken(w) PROVE Goal
  BY <1>12, <1>call DEF CreateTransactionTaken, Idle, Settling
<1>13. ASSUME NEW w \in Workers, CreateTransactionRef(w) PROVE Goal
  BY <1>13, <1>call DEF CreateTransactionRef, Idle, Settling
<1>14. ASSUME NEW w \in Workers, CancelTransactionWrite(w) PROVE Goal
  BY <1>14, <1>call DEF CancelTransactionWrite, Idle, Settling
<1>15. ASSUME NEW w \in Workers, CancelTransactionLate(w) PROVE Goal
  BY <1>15, <1>call DEF CancelTransactionLate, Idle, Settling
<1>16. ASSUME NEW w \in Workers, NEW k \in Payments, ClickPrepareRead(w, k)
       PROVE  Goal
  BY <1>16, <1>call DEF ClickPrepareRead, ForPayment, Settling
<1>17. ASSUME NEW w \in Workers, ClickPrepareBind(w) PROVE Goal
  BY <1>17, <1>call DEF ClickPrepareBind, Idle, Settling
<1>25. ASSUME NEW w \in Workers, ClickPrepareBound(w) PROVE Goal
  BY <1>25, <1>call DEF ClickPrepareBound, Idle, Settling
<1>26. ASSUME NEW w \in Workers, NEW k \in Payments, ClickComplete(w, k)
       PROVE  Goal
  BY <1>26, <1>settle DEF ClickComplete, Settling
(* So does a settlement that commits, and the account is open afterwards   *)
(* unless it was closed before and the settlement has read it so.          *)
<1>27. ASSUME NEW w \in Workers, SettleCommit(w) PROVE Goal
  <2>1. /\ tx'[w] = Idle /\ \A v \in Workers \ {w} : tx'[v] = tx[v]
        /\ StillBehind /\ moved' = moved \cup Runs
        /\ status' = "cancelled" => status = "cancelled"
    BY <1>27 DEF SettleCommit, Reactivated
  <2>2. ASSUME NEW v \in Workers PROVE Looks(v)'
    <3>1. CASE v = w
      BY <2>1, <3>1 DEF Looks, Runs, Settlers, Settling, Idle
    <3>2. CASE v # w
      <4>1. tx'[v] = tx[v] /\ Looks(v)
        BY <2>1, <3>2
      <4>2. v \in behind' <=> v \in behind
        BY <2>1, <4>1 DEF Looks, Runs, Settlers, Settling
      <4> QED
        BY <2>1, <4>1, <4>2 DEF Looks, Runs, Settlers
    <3> QED
      BY <3>1, <3>2
  <2>3. \A v \in Workers \ moved' : tx'[v].pc # "advance"
    BY <2>1 DEF Runs, Idle
  <2> QED
    BY <2>2, <2>3 DEF AdvanceIsDue
<1>18. ASSUME NEW k \in Payments, RepeatClickComplete(k) PROVE Goal
  BY <1>18, <1>quiet DEF RepeatClickComplete
<1>19. ASSUME NEW k \in Payments, ClickCompleteError(k) PROVE Goal
  BY <1>19, <1>quiet DEF ClickCompleteError
<1>20. ASSUME NEW w \in Workers, DunningList(w) PROVE Goal
  <2>0. /\ tx[w].pc = "idle" /\ status # "cancelled" /\ w \notin behind
        /\ UNCHANGED <<status, trialEnd, period, moved, behind>>
    BY <1>20 DEF DunningList, Looks, Runs, Settlers, Settling
  <2>1. CASE status = "trial"
    <3> DEFINE step == Dunning("advance", status, now, "suspended")
    <3>1. tx' = [tx EXCEPT ![w] = step] /\ tx'[w] = step
      BY <1>20, <2>1 DEF DunningList
    <3>2. Due(w)'
      BY <1>20, <2>1, <3>1 DEF DunningList, Due, Dunning
    <3>3. step.pc = "advance" /\ step.listed = "trial" /\ step.target = "suspended"
      BY <2>1 DEF Dunning
    <3> HIDE DEF step
    <3> QED
      BY <1>step, <2>0, <3>1, <3>2, <3>3
  <2>2. CASE status # "trial"
    <3> DEFINE step == Dunning("look", status, now, status)
    <3>1. tx' = [tx EXCEPT ![w] = step]
      BY <1>20, <2>2 DEF DunningList
    <3>2. status \in {"active", "past_due", "grace"}
      BY <1>20, <2>2 DEF DunningList
    <3>3. step.pc = "look" /\ step.listed = status
      BY DEF Dunning
    <3> HIDE DEF step
    <3> QED
      BY <1>step, <2>0, <3>1, <3>2, <3>3
  <2> QED
    BY <2>1, <2>2
<1>21. ASSUME NEW w \in Workers, DunningLook(w) PROVE Goal
  <2> DEFINE listed == tx[w].listed
             asof == tx[w].asof
             rung == Rung(listed, asof, period.end)
             due == period # NoPeriod /\ period.end < asof /\ rung # listed
             step == IF due THEN Dunning("advance", listed, asof, rung) ELSE Idle
  <2>1. /\ tx' = [tx EXCEPT ![w] = step] /\ tx'[w] = step
        /\ moved' = moved \ {w} /\ UNCHANGED <<status, trialEnd, period>>
        /\ tx[w].pc = "look" /\ StillBehind
    BY <1>21 DEF DunningLook
  <2>2. /\ listed \in {"active", "past_due", "grace"}
        /\ status = "cancelled" => w \in behind
    BY <2>1 DEF Looks, Runs
  <2>3. asof \in Nat
    BY DEF Tx
  <2>4. CASE due
    <3>1. period.end \in Int
      BY <2>4 DEF Period
    <3>2. step.pc = "advance" /\ step.listed = listed /\ step.asof = asof
            /\ step.target = rung
      BY <2>4 DEF Dunning
    <3>3. /\ rung = "past_due" => asof - period.end >= 1
          /\ rung = "grace" => asof - period.end >= PastDueDays
          /\ rung = "suspended" => asof - period.end >= PastDueDays + GraceDays
          /\ rung # "cancelled"
      BY <2>2, <2>3, <2>4, <3>1 DEF Rung
    <3>4. Due(w)'
      BY <2>1, <2>2, <2>4, <3>2, <3>3 DEF Due, OverBy, NoPeriod
    <3>5. listed # "cancelled"
      BY <2>2
    <3> HIDE DEF step, rung, listed, asof, due
    <3> QED
      BY <1>step, <2>1, <2>2, <3>2, <3>3, <3>4, <3>5 DEF Settling
  <2>5. CASE ~due
    BY <1>leave, <2>1, <2>5
  <2> QED
    BY <2>4, <2>5
<1>22. ASSUME NEW w \in Workers, DunningAdvance(w) PROVE Goal
  <2>1. status' # "cancelled"
    BY <1>22 DEF DunningAdvance, Looks
  <2> QED
    BY <1>22, <1>leave, <2>1 DEF DunningAdvance
<1>23. ASSUME NEW w \in Workers, Crash(w) PROVE Goal
  BY <1>23, <1>leave DEF Crash
<1>24. CASE UNCHANGED vars
  BY <1>24, <1>quiet DEF vars
<1> QED
  BY <1>0a, <1>1, <1>2, <1>3, <1>4, <1>5, <1>6, <1>7, <1>8, <1>9, <1>10, <1>11,
     <1>12, <1>13, <1>14, <1>15, <1>16, <1>17, <1>18, <1>19, <1>20, <1>21,
     <1>22, <1>23, <1>24, <1>25, <1>26, <1>27 DEF Next, Desk, Payme, Click, Dun

-----------------------------------------------------------------------------
(* Where calls come one at a time, a cancellation under way is the only    *)
(* one of its payment, so nothing changes the status it has read.          *)
LEMMA OrderPreserved ==
  ASSUME RowsInv, OrderInv, [Next]_vars
  PROVE  OrderInv'
<1> DEFINE Goal == /\ \A w \in Workers : Alone(w)' /\ CancelsRight(w)'
                   /\ \A k \in InOrder : StateAgrees(k)'
<1>0. SUFFICES Goal
  BY DEF OrderInv
<1> USE DEF Finish, dbvars, histvars
<1>a. \A w \in Workers : Alone(w) /\ CancelsRight(w)
  BY DEF OrderInv
<1>b. \A k \in InOrder : StateAgrees(k)
  BY DEF OrderInv
<1>e. InOrder \subseteq Payments
  BY DEF InOrder
<1>c. \A t \in Txns : Order[t] \in Payments /\ t # None /\ t # ClickTxn
  OBVIOUS
<1>d. ASSUME NEW w \in Workers, tx[w].pc = "cancel"
      PROVE  tx[w].txn \in Txns /\ payment[Order[tx[w].txn]].txn = tx[w].txn
               /\ Provider[Order[tx[w].txn]] = "payme"
               /\ payment[Order[tx[w].txn]].status # "absent"
  <2>1. tx[w].txn \in Txns /\ payment[Order[tx[w].txn]].txn = tx[w].txn
    BY <1>d DEF RowsInv, InHand
  <2>2. Provider[Order[tx[w].txn]] = "payme"
    BY <2>1, <1>c DEF RowsInv, Bound
  <2>3. payment[Order[tx[w].txn]].status # "absent"
    BY <1>c, <2>1 DEF RowsInv, GrantedOnce
  <2> QED
    BY <2>1, <2>2, <2>3
(* A step that leaves the payments alone.                                  *)
<1>quiet. ASSUME UNCHANGED <<payment, tx>> PROVE Goal
  BY <1>a, <1>b, <1>quiet DEF Alone, CancelsRight, StateAgrees
<1>step. ASSUME NEW w \in Workers, NEW step, tx' = [tx EXCEPT ![w] = step],
                UNCHANGED payment, step.txn \in {None, tx[w].txn},
                step.pc # "cancel"
         PROVE  Goal
  <2>1. tx'[w] = step /\ \A v \in Workers \ {w} : tx'[v] = tx[v]
    BY <1>step DEF RowsInv, TypeOK
  <2>2. ASSUME NEW v \in Workers PROVE Alone(v)'
    BY <1>a, <1>step, <2>1 DEF Alone
  <2>3. ASSUME NEW v \in Workers PROVE CancelsRight(v)'
    BY <1>a, <1>step, <2>1 DEF CancelsRight
  <2> QED
    BY <1>b, <1>step, <2>2, <2>3 DEF StateAgrees
<1>leave. ASSUME NEW w \in Workers, tx' = [tx EXCEPT ![w] = Idle], UNCHANGED payment
          PROVE  Goal
  <2>1. Idle.txn = None /\ Idle.pc = "idle"
    BY DEF Idle
  <2> QED
    BY <1>leave, <1>step, <2>1
(* A new call: nobody else is at its transaction.                          *)
<1>call. ASSUME NEW w \in Workers, NEW t \in Txns, NEW step, Callable(t),
                tx' = [tx EXCEPT ![w] = step], UNCHANGED payment, step.txn = t,
                step.pc = "cancel" =>
                  /\ payment[Order[t]].status # "cancelled"
                  /\ step.state = CancelState(payment[Order[t]].status)
         PROVE  Goal
  <2>1. tx'[w] = step /\ \A v \in Workers \ {w} : tx'[v] = tx[v]
    BY <1>call DEF RowsInv, TypeOK
  <2>2. Order[t] \in InOrder => \A v \in Workers : tx[v].txn # t
    BY <1>call DEF InOrder, Callable
  <2>3. ASSUME NEW v \in Workers PROVE Alone(v)'
    BY <1>a, <1>call, <2>1, <2>2 DEF Alone
  <2>4. ASSUME NEW v \in Workers PROVE CancelsRight(v)'
    BY <1>a, <1>call, <2>1 DEF CancelsRight
  <2> QED
    BY <1>b, <1>call, <2>3, <2>4 DEF StateAgrees
(* A change of one payment which no cancellation has in hand.              *)
<1>row. ASSUME NEW k \in Payments, NEW row, payment' = [payment EXCEPT ![k] = row],
               UNCHANGED tx \/ \E v \in Workers : tx' = [tx EXCEPT ![v] = Idle],
               k \in InOrder => \A w \in Workers :
                 tx[w].pc = "cancel" => Order[tx[w].txn] # k,
               k \in InOrder /\ Provider[k] = "payme" =>
                 /\ row.txn = None => row.status \in {"absent", "pending"}
                 /\ row.txn # None /\ row.status = "pending" => row.state = 1
                 /\ row.txn # None /\ row.status = "paid" => row.state = 2
        PROVE  Goal
  <2>1. payment'[k] = row /\ \A i \in Payments \ {k} : payment'[i] = payment[i]
    BY <1>row DEF RowsInv, TypeOK
  <2>0. \A v \in Workers : tx'[v] = tx[v] \/ tx'[v] = Idle
    BY <1>row DEF RowsInv, TypeOK
  <2>2. ASSUME NEW w \in Workers PROVE Alone(w)'
    BY <1>a, <2>0 DEF Alone, Idle
  <2>3. ASSUME NEW w \in Workers, tx'[w].pc = "cancel",
               Order[tx'[w].txn] \in InOrder
        PROVE  CancelsRight(w)'
    <3>1. tx'[w] = tx[w]
      BY <2>0, <2>3 DEF Idle
    <3>2. tx[w].pc = "cancel" /\ Order[tx[w].txn] \in Payments \ {k}
      BY <1>row, <2>3, <3>1, <1>d, <1>c
    <3> QED
      BY <1>a, <2>1, <3>1, <3>2 DEF CancelsRight
  <2>4. ASSUME NEW i \in InOrder PROVE StateAgrees(i)'
    BY <1>b, <1>e, <1>row, <2>1 DEF StateAgrees
  <2> QED
    BY <2>2, <2>3, <2>4 DEF CancelsRight
<1>foreign. ASSUME NEW k \in Payments, Provider[k] # "payme", NEW row,
                   payment' = [payment EXCEPT ![k] = row],
                   UNCHANGED tx \/ \E v \in Workers : tx' = [tx EXCEPT ![v] = Idle]
            PROVE  Goal
  <2>1. \A w \in Workers : tx[w].pc = "cancel" => Order[tx[w].txn] # k
    BY <1>d, <1>foreign
  <2> QED
    BY <1>foreign, <1>row, <2>1
<1>new. ASSUME NEW k \in Payments, NEW p, payment[k].status = "absent",
               payment' = [payment EXCEPT ![k] = Invoice(p)], UNCHANGED tx
        PROVE  Goal
  <2>1. \A w \in Workers : tx[w].pc = "cancel" => Order[tx[w].txn] # k
    BY <1>d, <1>new
  <2>2. Invoice(p).txn = None /\ Invoice(p).status = "pending"
    BY DEF Invoice, Row
  <2> QED
    BY <1>new, <1>row, <2>1, <2>2
<1>other. ASSUME NEW w \in Workers, NEW pc, NEW k, NEW listed, UNCHANGED payment,
                 tx' = [tx EXCEPT ![w] = ForPayment(pc, k, None, listed)],
                 pc # "cancel"
          PROVE  Goal
  <2>1. /\ ForPayment(pc, k, None, listed).txn = None
        /\ ForPayment(pc, k, None, listed).pc # "cancel"
    BY <1>other DEF ForPayment
  <2> QED
    BY <1>other, <1>step, <2>1
<1>0a. CASE CloseAccount
  BY <1>0a, <1>quiet DEF CloseAccount
<1>1. CASE Tick
  BY <1>1, <1>quiet DEF Tick
<1>2. ASSUME NEW start, ChoosePlan(start) PROVE Goal
  BY <1>2, <1>quiet DEF ChoosePlan
<1>3. ASSUME NEW k \in Payments, InitiatePayment(k) PROVE Goal
  BY <1>3, <1>new DEF InitiatePayment
<1>4. ASSUME NEW k \in Payments, NEW p, CreateManualInvoice(k, p) PROVE Goal
  BY <1>4, <1>new DEF CreateManualInvoice
<1>5. ASSUME NEW w \in Workers, NEW k \in Payments, MarkInvoicePaid(w, k)
      PROVE  Goal
  BY <1>5, <1>other DEF MarkInvoicePaid, Settle
<1>6. ASSUME NEW t \in Txns, RepeatCreateTransaction(t) PROVE Goal
  BY <1>6, <1>quiet DEF RepeatCreateTransaction
<1>7. ASSUME NEW w \in Workers, NEW t \in Txns, PerformTransaction(w, t)
      PROVE  Goal
  <2> DEFINE step == ForPayment("perform", Order[t], t, status)
  <2>1. /\ tx' = [tx EXCEPT ![w] = step] /\ UNCHANGED payment /\ Callable(t)
        /\ step.txn = t /\ step.pc # "cancel"
    BY <1>7 DEF PerformTransaction, Settle, ForPayment
  <2> HIDE DEF step
  <2> QED
    BY <1>call, <2>1
<1>8. ASSUME NEW t \in Txns, RepeatPerformTransaction(t) PROVE Goal
  BY <1>8, <1>quiet DEF RepeatPerformTransaction
<1>9. ASSUME NEW w \in Workers, NEW t \in Txns, CreateTransactionRead(w, t)
      PROVE  Goal
  <2>1. ForTxn("create", t, 0).txn = t /\ ForTxn("create", t, 0).pc # "cancel"
    BY DEF ForTxn
  <2> QED
    BY <1>9, <1>call, <2>1 DEF CreateTransactionRead
<1>10. ASSUME NEW w \in Workers, NEW t \in Txns, CancelTransactionRead(w, t)
       PROVE  Goal
  <2> DEFINE step == ForTxn("cancel", t, CancelState(payment[Order[t]].status))
  <2>1. step.txn = t /\ step.state = CancelState(payment[Order[t]].status)
    BY DEF ForTxn
  <2>2. /\ tx' = [tx EXCEPT ![w] = step] /\ UNCHANGED payment /\ Callable(t)
        /\ payment[Order[t]].status # "cancelled"
    BY <1>10 DEF CancelTransactionRead
  <2> HIDE DEF step
  <2> QED
    BY <1>call, <2>1, <2>2
<1>11. ASSUME NEW w \in Workers, CreateTransactionStore(w) PROVE Goal
  <2>1. PICK t \in Txns : t = tx[w].txn
    BY <1>11 DEF CreateTransactionStore, RowsInv, InHand
  <2> DEFINE k == Order[t]
  <2>2. /\ tx'[w].txn = t /\ tx'[w].pc = "create_ref"
        /\ \A v \in Workers \ {w} : tx'[v] = tx[v]
        /\ \A i \in Payments \ {k} : payment'[i] = payment[i]
        /\ payment'[k].txn = t /\ payment'[k].state = 1
        /\ payment'[k].status = payment[k].status
        /\ payment[k].txn = None /\ Provider[k] = "payme"
    BY <1>11, <2>1
       DEF CreateTransactionStore, Unbound, RowsInv, TypeOK, InHand, ForTxn, Row
  <2>3. ASSUME NEW v \in Workers PROVE Alone(v)'
    BY <1>a, <2>1, <2>2 DEF Alone
  <2>4. ASSUME NEW v \in Workers, tx'[v].pc = "cancel",
               Order[tx'[v].txn] \in InOrder
        PROVE  CancelsRight(v)'
    <3>1. tx[v].pc = "cancel" /\ tx'[v] = tx[v]
      BY <2>2, <2>4
    <3>2. Order[tx[v].txn] \in Payments \ {k}
      BY <1>c, <1>d, <2>2, <3>1
    <3> QED
      BY <1>a, <2>2, <3>1, <3>2 DEF CancelsRight
  <2>5. k \in InOrder => payment[k].status \in {"absent", "pending"}
    BY <1>b, <1>c, <2>2 DEF StateAgrees
  <2>6. ASSUME NEW i \in InOrder PROVE StateAgrees(i)'
    BY <1>b, <1>c, <1>e, <2>2, <2>5 DEF StateAgrees
  <2> QED
    BY <2>3, <2>4, <2>6 DEF CancelsRight
<1>12. ASSUME NEW w \in Workers, CreateTransactionTaken(w) PROVE Goal
  BY <1>12, <1>leave DEF CreateTransactionTaken
<1>13. ASSUME NEW w \in Workers, CreateTransactionRef(w) PROVE Goal
  BY <1>13, <1>leave DEF CreateTransactionRef
<1>14. ASSUME NEW w \in Workers, CancelTransactionWrite(w) PROVE Goal
  <2>1. PICK t \in Txns : t = tx[w].txn
    BY <1>14 DEF CancelTransactionWrite, RowsInv, InHand
  <2> DEFINE k == Order[t]
  <2>2. /\ \A i \in Payments \ {k} : payment'[i] = payment[i]
        /\ payment'[k].txn = payment[k].txn /\ payment'[k].status = "cancelled"
        /\ tx'[w] = Idle /\ \A v \in Workers \ {w} : tx'[v] = tx[v]
        /\ payment[k].txn = t /\ tx[w].pc = "cancel"
    BY <1>14, <2>1
       DEF CancelTransactionWrite, Void, Marked, Row, RowsInv, TypeOK, InHand
  <2>3. ASSUME NEW v \in Workers PROVE Alone(v)'
    BY <1>a, <2>2 DEF Alone, Idle
  <2>4. ASSUME NEW v \in Workers, tx'[v].pc = "cancel",
               Order[tx'[v].txn] \in InOrder
        PROVE  CancelsRight(v)'
    <3>1. v # w /\ tx[v].pc = "cancel" /\ tx'[v] = tx[v]
      BY <2>2, <2>4 DEF Idle
    <3>2. tx[v].txn # t
      BY <1>a, <1>c, <2>1, <2>4, <3>1 DEF Alone
    <3>3. Order[tx[v].txn] \in Payments \ {k}
      BY <1>c, <1>d, <2>2, <3>1, <3>2
    <3> QED
      BY <1>a, <2>2, <3>1, <3>3 DEF CancelsRight
  <2>5. ASSUME NEW i \in InOrder PROVE StateAgrees(i)'
    BY <1>b, <1>c, <1>e, <2>2 DEF StateAgrees
  <2> QED
    BY <2>3, <2>4, <2>5 DEF CancelsRight
<1>15. ASSUME NEW w \in Workers, CancelTransactionLate(w) PROVE Goal
  BY <1>15, <1>leave DEF CancelTransactionLate
<1>16. ASSUME NEW w \in Workers, NEW k \in Payments, ClickPrepareRead(w, k)
       PROVE  Goal
  BY <1>16, <1>other DEF ClickPrepareRead
<1>17. ASSUME NEW w \in Workers, ClickPrepareBind(w) PROVE Goal
  <2>1. tx[w].pay \in Payments /\ Provider[tx[w].pay] # "payme"
    BY <1>17 DEF ClickPrepareBind, RowsInv, InHand
  <2> QED
    BY <1>17, <1>foreign, <2>1 DEF ClickPrepareBind
<1>25. ASSUME NEW w \in Workers, ClickPrepareBound(w) PROVE Goal
  BY <1>25, <1>leave DEF ClickPrepareBound
<1>26. ASSUME NEW w \in Workers, NEW k \in Payments, ClickComplete(w, k)
       PROVE  Goal
  BY <1>26, <1>other DEF ClickComplete, Settle
<1>27. ASSUME NEW w \in Workers, SettleCommit(w) PROVE Goal
  <2> DEFINE k == tx[w].pay
             row == Marked(payment[k], "paid", IF tx[w].pc = "perform" THEN 2 ELSE 0)
  <2>1. /\ tx[w].pc \in Settling /\ k \in Payments
        /\ payment' = [payment EXCEPT ![k] = row]
        /\ tx' = [tx EXCEPT ![w] = Idle]
    BY <1>27 DEF SettleCommit, Settlers, RowsInv, InHand
  <2>2. CASE tx[w].pc = "perform"
    <3>1. tx[w].txn \in Txns /\ k = Order[tx[w].txn] /\ payment[k].txn = tx[w].txn
      BY <2>2 DEF RowsInv, InHand
    <3>2. row.status = "paid" /\ row.txn = tx[w].txn /\ row.state = 2
      BY <2>2, <3>1 DEF Marked, Row
    <3>3. k \in InOrder => \A v \in Workers :
            tx[v].pc = "cancel" => Order[tx[v].txn] # k
      <4>1. SUFFICES ASSUME NEW v \in Workers, tx[v].pc = "cancel",
                            Order[tx[v].txn] = k, k \in InOrder
                     PROVE  FALSE
        OBVIOUS
      <4>2. tx[v].txn = tx[w].txn /\ tx[w].txn # None
        BY <1>c, <1>d, <3>1, <4>1
      <4> QED
        BY <1>a, <2>2, <3>1, <4>1, <4>2 DEF Alone
    <3>4. row.txn # None /\ row.status = "paid" /\ row.state = 2
      BY <1>c, <3>1, <3>2
    <3> HIDE DEF row, k
    <3> QED
      BY <1>row, <2>1, <3>3, <3>4
  <2>3. CASE tx[w].pc # "perform"
    <3>1. k \notin InOrder \/ Provider[k] # "payme"
      BY <2>1, <2>3 DEF RowsInv, InHand, InOrder, Settling
    <3>2. k \in InOrder => \A v \in Workers :
            tx[v].pc = "cancel" => Order[tx[v].txn] # k
      BY <1>d, <3>1
    <3> HIDE DEF row, k
    <3> QED
      BY <1>row, <2>1, <3>1, <3>2
  <2> QED
    BY <2>2, <2>3
<1>18. ASSUME NEW k \in Payments, RepeatClickComplete(k) PROVE Goal
  BY <1>18, <1>quiet DEF RepeatClickComplete
<1>19. ASSUME NEW k \in Payments, ClickCompleteError(k) PROVE Goal
  BY <1>19, <1>foreign DEF ClickCompleteError, Void
<1>20. ASSUME NEW w \in Workers, DunningList(w) PROVE Goal
  <2>1. ASSUME NEW target PROVE Dunning("look", status, now, target).txn = None
          /\ Dunning("look", status, now, target).pc = "look"
          /\ Dunning("advance", status, now, target).txn = None
          /\ Dunning("advance", status, now, target).pc = "advance"
    BY DEF Dunning
  <2> QED
    BY <1>20, <1>step, <2>1 DEF DunningList
<1>21. ASSUME NEW w \in Workers, DunningLook(w) PROVE Goal
  <2> DEFINE step == Dunning("advance", tx[w].listed, tx[w].asof,
                             Rung(tx[w].listed, tx[w].asof, period.end))
  <2>1. step.txn = None /\ step.pc = "advance"
    BY DEF Dunning
  <2> QED
    BY <1>21, <1>leave, <1>step, <2>1 DEF DunningLook
<1>22. ASSUME NEW w \in Workers, DunningAdvance(w) PROVE Goal
  BY <1>22, <1>leave DEF DunningAdvance
<1>23. ASSUME NEW w \in Workers, Crash(w) PROVE Goal
  BY <1>23, <1>leave DEF Crash
<1>24. CASE UNCHANGED vars
  BY <1>24, <1>quiet DEF vars
<1> QED
  BY <1>0a, <1>1, <1>2, <1>3, <1>4, <1>5, <1>6, <1>7, <1>8, <1>9, <1>10, <1>11,
     <1>12, <1>13, <1>14, <1>15, <1>16, <1>17, <1>18, <1>19, <1>20, <1>21,
     <1>22, <1>23, <1>24, <1>25, <1>26, <1>27 DEF Next, Desk, Payme, Click, Dun

LEMMA InvPreserved == BillingInv /\ [Next]_vars => BillingInv'
<1> SUFFICES ASSUME BillingInv, [Next]_vars PROVE BillingInv'
  OBVIOUS
<1>1. RowsInv /\ DunningInv /\ OrderInv
  BY DEF BillingInv, RowsInv, DunningInv
<1>2. TypeOK'
  BY <1>1, TypesPreserved DEF RowsInv
<1> QED
  BY <1>1, <1>2, RowsPreserved, DunningPreserved, OrderPreserved DEF BillingInv

(* The rows of the billing tables, the callbacks and dunning runs under    *)
(* way and what was answered to Payme and Click always fit together.       *)
THEOREM BillingCorrect == Spec => []BillingInv
<1> QED
  BY InitBillingInv, InvPreserved, PTL DEF Spec

(* A transaction whose CreateTransaction was answered stays findable.      *)
THEOREM TransactionsFound == Spec => []CreatedIsFound
<1>1. BillingInv => CreatedIsFound
  BY DEF BillingInv
<1> QED
  BY <1>1, BillingCorrect, PTL

(* A confirmed settlement gave its period, exactly once.                   *)
THEOREM ConfirmationsHonest == Spec => []ConfirmedWasGranted
<1>1. BillingInv => ConfirmedWasGranted
  BY DEF BillingInv
<1> QED
  BY <1>1, BillingCorrect, PTL

(* What run_dunning is about to do to a tenant was due when it listed it.  *)
THEOREM DunningIsDue == Spec => []AdvanceIsDue
<1>1. BillingInv => AdvanceIsDue
  BY DEF BillingInv
<1> QED
  BY <1>1, BillingCorrect, PTL

-----------------------------------------------------------------------------
(* A closed account is opened again only by a settlement or a dunning run  *)
(* that was under way when it was closed: whatever begins later reads the  *)
(* account as closed and spares it.                                        *)
THEOREM ReopenedByStale == Spec => ReopenedByStaleWorkOnly
<1>1. BillingInv /\ [Next]_vars
        => [status = "cancelled" /\ status' # "cancelled" =>
              \E w \in behind : tx'[w] = Idle]_vars
  <2> DEFINE Goal == \E w \in behind : tx'[w] = Idle
  <2> SUFFICES ASSUME BillingInv, Next, status = "cancelled", status' # "cancelled"
               PROVE  Goal
    OBVIOUS
  <2>0. TypeOK /\ \A w \in Workers : Looks(w)
    BY DEF BillingInv
  <2>1. ASSUME NEW w \in Workers, SettleCommit(w) PROVE Goal
    <3>1. w \in Settlers /\ tx[w].listed # "cancelled" /\ tx'[w] = Idle
      BY <2>0, <2>1 DEF SettleCommit, Reactivated, Finish, TypeOK
    <3> QED
      BY <2>0, <3>1 DEF Looks
  <2>2. ASSUME NEW w \in Workers, DunningAdvance(w) PROVE Goal
    <3>1. w \in Runs /\ tx[w].listed # "cancelled" /\ tx'[w] = Idle
      BY <2>0, <2>2 DEF DunningAdvance, Finish, TypeOK, Looks, Runs
    <3> QED
      BY <2>0, <3>1 DEF Looks
  <2> USE DEF dbvars
  <2>3. Desk => UNCHANGED status
    BY DEF Desk, Tick, CloseAccount, ChoosePlan, InitiatePayment,
           CreateManualInvoice, MarkInvoicePaid, Settle
  <2>4. Payme => UNCHANGED status
    BY DEF Payme, RepeatCreateTransaction, PerformTransaction, Settle,
         RepeatPerformTransaction, CreateTransactionRead, CancelTransactionRead,
         CreateTransactionStore, CreateTransactionTaken, CreateTransactionRef,
         CancelTransactionWrite, CancelTransactionLate
  <2>5. Click => UNCHANGED status
    BY DEF Click, ClickPrepareRead, ClickPrepareBind, ClickPrepareBound,
           ClickComplete, Settle, RepeatClickComplete, ClickCompleteError
  <2>6. ASSUME NEW w \in Workers, DunningList(w) \/ DunningLook(w) \/ Crash(w)
        PROVE  UNCHANGED status
    BY <2>6 DEF DunningList, DunningLook, Crash
  <2> QED
    BY <2>1, <2>2, <2>3, <2>4, <2>5, <2>6 DEF Next, Dun
<1> QED
  BY <1>1, BillingCorrect, PTL DEF Spec, ReopenedByStaleWorkOnly

-----------------------------------------------------------------------------
(* Stages moves for one invoice at a time, as the book says.               *)
LEMMA StageMoves ==
  ASSUME TypeOK, NEW k \in Payments, NEW row,
         payment' = [payment EXCEPT ![k] = row]
  PROVE  Stages' = [Stages EXCEPT ![k] = StageOf(row.status)]
<1>1. payment'[k] = row /\ \A i \in Payments \ {k} : payment'[i] = payment[i]
  BY DEF TypeOK
<1>2. \A i \in Payments : StageOf(payment'[i].status) =
        IF i = k THEN StageOf(row.status) ELSE StageOf(payment[i].status)
  BY <1>1
<1>3. Stages' = [i \in Payments |-> StageOf(payment'[i].status)]
  BY DEF Stages
<1> QED
  BY <1>2, <1>3 DEF Stages

LEMMA BookStep == BillingInv /\ [Next]_vars => [Book!Next]_(Book!vars)
<1> SUFFICES ASSUME BillingInv, [Next]_vars
             PROVE  Book!Next \/ UNCHANGED <<Stages, granted>>
  BY DEF Book!vars
<1> USE DEF dbvars, histvars
<1>0. TypeOK
  BY DEF BillingInv
<1>1. ASSUME UNCHANGED <<payment, granted>> PROVE UNCHANGED <<Stages, granted>>
  BY <1>1 DEF Stages
<1>2. ASSUME NEW k \in Payments, NEW p, payment[k].status = "absent",
             payment' = [payment EXCEPT ![k] = Invoice(p)], UNCHANGED granted
      PROVE  Book!Next
  <2>1. Invoice(p).status = "pending"
    BY DEF Invoice, Row
  <2>2. Stages[k] = "none" /\ Stages' = [Stages EXCEPT ![k] = "open"]
    BY <1>0, <1>2, <2>1, StageMoves DEF Stages, StageOf
  <2> QED
    BY <1>2, <2>2 DEF Book!Next, Book!Open
<1>3. ASSUME NEW w \in Workers, SettleCommit(w) PROVE Book!Next
  <2> DEFINE k == tx[w].pay
             row == Marked(payment[k], "paid", IF tx[w].pc = "perform" THEN 2 ELSE 0)
  <2>1. payment' = [payment EXCEPT ![k] = row] /\ row.status = "paid"
          /\ k \in Payments /\ payment[k].status = "pending"
    BY <1>3 DEF SettleCommit, Settlers, BillingInv, InHand, Marked, Row
  <2>2. Stages[k] = "open" /\ Stages' = [Stages EXCEPT ![k] = "settled"]
    BY <1>0, <2>1, StageMoves DEF Stages, StageOf
  <2>3. granted' = [granted EXCEPT ![k] = granted[k] + 1]
    BY <1>3 DEF SettleCommit
  <2> HIDE DEF k, row
  <2> QED
    BY <2>1, <2>2, <2>3 DEF Book!Next, Book!Settle
<1>4. ASSUME NEW k \in Payments, NEW state, Void(k, state), UNCHANGED granted
      PROVE  Book!Next
  <2> DEFINE row == Marked(payment[k], "cancelled", state)
  <2>1. payment' = [payment EXCEPT ![k] = row] /\ row.status = "cancelled"
          /\ payment[k].status \in {"pending", "paid"}
    BY <1>4 DEF Void, Cancellable, Marked, Row
  <2>2. /\ Stages[k] \in {"open", "settled"}
        /\ Stages' = [Stages EXCEPT ![k] = "void"]
    BY <1>0, <2>1, StageMoves DEF Stages, StageOf
  <2> QED
    BY <1>4, <2>2 DEF Book!Next, Book!Void
(* Binding a transaction does not move the invoice.                        *)
<1>5. ASSUME NEW k \in Payments, NEW row, row.status = payment[k].status,
             payment' = [payment EXCEPT ![k] = row], UNCHANGED granted
      PROVE  UNCHANGED <<Stages, granted>>
  <2>1. Stages' = [Stages EXCEPT ![k] = Stages[k]]
    BY <1>0, <1>5, StageMoves DEF Stages
  <2> QED
    BY <1>5, <2>1 DEF Stages
<1>6. CASE Desk
  BY <1>1, <1>2, <1>6 DEF Desk, Tick, CloseAccount, ChoosePlan, InitiatePayment,
     CreateManualInvoice, MarkInvoicePaid, Settle
<1>7. ASSUME NEW t \in Txns,
             RepeatCreateTransaction(t) \/ RepeatPerformTransaction(t)
      PROVE  UNCHANGED <<Stages, granted>>
  BY <1>1, <1>7 DEF RepeatCreateTransaction, RepeatPerformTransaction
<1>8. ASSUME NEW w \in Workers, NEW t \in Txns, PerformTransaction(w, t)
      PROVE  UNCHANGED <<Stages, granted>>
  BY <1>1, <1>8 DEF PerformTransaction, Settle
<1>9. ASSUME NEW w \in Workers, NEW t \in Txns,
             CreateTransactionRead(w, t) \/ CancelTransactionRead(w, t)
      PROVE  UNCHANGED <<Stages, granted>>
  BY <1>1, <1>9 DEF CreateTransactionRead, CancelTransactionRead
<1>10. ASSUME NEW w \in Workers, CreateTransactionStore(w)
       PROVE  UNCHANGED <<Stages, granted>>
  <2>1. PICK t \in Txns : t = tx[w].txn
    BY <1>10 DEF CreateTransactionStore, BillingInv, InHand
  <2> DEFINE row == Row(payment[Order[t]].status, payment[Order[t]], t, 1)
  <2>2. /\ payment' = [payment EXCEPT ![Order[t]] = row] /\ UNCHANGED granted
        /\ row.status = payment[Order[t]].status
    BY <1>10, <2>1 DEF CreateTransactionStore, Row
  <2> QED
    BY <1>5, <2>2
<1>11. ASSUME NEW w \in Workers, CreateTransactionTaken(w)
                \/ CreateTransactionRef(w) \/ CancelTransactionLate(w)
       PROVE  UNCHANGED <<Stages, granted>>
  BY <1>1, <1>11 DEF CreateTransactionTaken, CreateTransactionRef,
     CancelTransactionLate
<1>12. ASSUME NEW w \in Workers, CancelTransactionWrite(w) PROVE Book!Next
  <2>1. tx[w].txn \in Txns
    BY <1>12 DEF CancelTransactionWrite, BillingInv, InHand
  <2> QED
    BY <1>4, <1>12, <2>1 DEF CancelTransactionWrite
<1>13. CASE Payme
  BY <1>7, <1>8, <1>9, <1>10, <1>11, <1>12, <1>13 DEF Payme
<1>14. ASSUME NEW w \in Workers, ClickPrepareBind(w)
       PROVE  UNCHANGED <<Stages, granted>>
  <2>1. PICK k \in Payments : k = tx[w].pay
    BY <1>14 DEF ClickPrepareBind, BillingInv, InHand
  <2> DEFINE row == Row(payment[k].status, payment[k], ClickTxn, payment[k].state)
  <2>2. /\ payment' = [payment EXCEPT ![k] = row] /\ UNCHANGED granted
        /\ row.status = payment[k].status
    BY <1>14, <2>1 DEF ClickPrepareBind, Row
  <2> QED
    BY <1>5, <2>2
<1>15. CASE Click
  BY <1>1, <1>4, <1>14, <1>15 DEF Click, ClickPrepareRead, ClickPrepareBound,
     ClickComplete, Settle, RepeatClickComplete, ClickCompleteError
<1>16. CASE Dun \/ \E w \in Workers : SettleCommit(w) \/ Crash(w)
  BY <1>1, <1>3, <1>16 DEF Dun, DunningList, DunningLook, DunningAdvance, Crash
<1>17. CASE UNCHANGED vars
  BY <1>1, <1>17 DEF vars
<1> QED
  BY <1>6, <1>13, <1>15, <1>16, <1>17 DEF Next

(* Billing implements the book of invoices: every invoice is settled at    *)
(* most once, gives its period exactly then, and a voided one stays void.  *)
THEOREM BookKept == Spec => ImplementsBook
<1>1. Init => Book!Init
  BY DEF Init, Book!Init, Stages, StageOf, NoPayment
<1> QED
  BY <1>1, BookStep, BillingCorrect, PTL DEF Spec, ImplementsBook, Book!Spec

-----------------------------------------------------------------------------
(* What CheckTransaction reports changes for the transaction that a        *)
(* payment is, or becomes, bound to, and for no other.                     *)
LEMMA ReportMoves ==
  ASSUME TypeOK, NEW t \in OrderedTxns, NEW row, row.txn = t,
         payment[Order[t]].txn \in {None, t},
         payment' = [payment EXCEPT ![Order[t]] = row]
  PROVE  Reported' = [Reported EXCEPT ![t] = row.state]
<1>1. /\ Order[t] \in Payments /\ payment'[Order[t]] = row
      /\ \A i \in Payments \ {Order[t]} : payment'[i] = payment[i]
  BY DEF TypeOK, OrderedTxns
<1>2. OrderedTxns \subseteq Txns
  BY DEF OrderedTxns
<1> DEFINE Of(r, u) == IF r.txn = u THEN r.state ELSE 0
<1>3. /\ Reported = [u \in OrderedTxns |-> Of(payment[Order[u]], u)]
      /\ Reported' = [u \in OrderedTxns |-> Of(payment'[Order[u]], u)]
  BY DEF Reported
<1>4. Of(payment'[Order[t]], t) = row.state
  BY <1>1
<1>5. ASSUME NEW u \in OrderedTxns \ {t}
      PROVE  Of(payment'[Order[u]], u) = Of(payment[Order[u]], u)
  <2>1. CASE Order[u] = Order[t]
    BY <1>1, <1>2, <2>1
  <2>2. CASE Order[u] # Order[t]
    BY <1>1, <1>2, <2>2
  <2> QED
    BY <2>1, <2>2
<1> HIDE DEF Of
<1> QED
  BY <1>3, <1>4, <1>5

LEMMA ReportStays ==
  ASSUME TypeOK, NEW k \in Payments, NEW row,
         \/ row.txn = payment[k].txn /\ row.state = payment[k].state
         \/ row.txn \notin Txns /\ payment[k].txn \notin Txns,
         payment' = [payment EXCEPT ![k] = row]
  PROVE  Reported' = Reported
<1>1. payment'[k] = row /\ \A i \in Payments \ {k} : payment'[i] = payment[i]
  BY DEF TypeOK
<1> QED
  BY <1>1 DEF Reported, OrderedTxns

(* A payment none of whose transactions is reported changes no report.     *)
LEMMA ReportSilent ==
  ASSUME TypeOK, NEW k \in Payments, k \notin InOrder, NEW row,
         payment' = [payment EXCEPT ![k] = row]
  PROVE  Reported' = Reported
<1>1. \A i \in Payments \ {k} : payment'[i] = payment[i]
  BY DEF TypeOK
<1>2. \A t \in OrderedTxns : Order[t] \in Payments \ {k}
  BY DEF OrderedTxns
<1> QED
  BY <1>1, <1>2 DEF Reported

LEMMA ProtocolStep ==
  ASSUME BillingInv, [Next]_vars
  PROVE  Protocol!Next \/ UNCHANGED Reported
<1> USE DEF dbvars, histvars
<1>0. TypeOK /\ Bound /\ GrantedOnce /\ \A k \in InOrder : StateAgrees(k)
  BY DEF BillingInv, OrderInv
<1>move. ASSUME NEW t \in OrderedTxns, NEW b, NEW a, <<b, a>> \in Protocol!Steps,
                Reported[t] = b, Reported' = [Reported EXCEPT ![t] = a]
         PROVE  Protocol!Next
  BY <1>move DEF Protocol!Next
<1>1. ASSUME UNCHANGED payment PROVE UNCHANGED Reported
  BY <1>1 DEF Reported
<1>2. ASSUME NEW k \in Payments, NEW p, payment[k].status = "absent",
             payment' = [payment EXCEPT ![k] = Invoice(p)]
      PROVE  UNCHANGED Reported
  <2>1. Invoice(p).txn = None /\ payment[k].txn = None
    BY <1>0, <1>2 DEF Invoice, Row, GrantedOnce
  <2> QED
    BY <1>0, <1>2, <2>1, ReportStays
(* Settled or voided by hand or by Click, which have no transaction.       *)
<1>3. ASSUME NEW k \in Payments, Provider[k] # "payme", NEW s, NEW state,
             payment' = [payment EXCEPT ![k] = Marked(payment[k], s, state)]
      PROVE  UNCHANGED Reported
  <2>1. payment[k].txn \notin Txns
    BY <1>0, <1>3 DEF Bound
  <2>2. Marked(payment[k], s, state).txn = payment[k].txn
    BY DEF Marked, Row
  <2> QED
    BY <1>0, <1>3, <2>1, <2>2, ReportStays
<1>4. CASE Desk
  BY <1>1, <1>2, <1>4 DEF Desk, Tick, CloseAccount, ChoosePlan, InitiatePayment,
     CreateManualInvoice, MarkInvoicePaid, Settle
<1>5. ASSUME NEW w \in Workers, SettleCommit(w)
      PROVE  Protocol!Next \/ UNCHANGED Reported
  <2> DEFINE k == tx[w].pay
             row == Marked(payment[k], "paid", IF tx[w].pc = "perform" THEN 2 ELSE 0)
  <2>1. /\ payment' = [payment EXCEPT ![k] = row] /\ k \in Payments
        /\ payment[k].status = "pending" /\ InHand(w) /\ tx[w].pc \in Settling
    BY <1>5 DEF SettleCommit, Settlers, BillingInv, InHand
  <2>a. CASE k \notin InOrder
    <3> HIDE DEF row, k
    <3> QED
      BY <1>0, <2>1, <2>a, ReportSilent
  <2>2. CASE tx[w].pc = "perform" /\ k \in InOrder
    <3>1. PICK t \in OrderedTxns :
            t = tx[w].txn /\ k = Order[t] /\ payment[k].txn = t
      BY <2>1, <2>2 DEF InHand, OrderedTxns
    <3>b. t \in Txns
      BY DEF OrderedTxns
    <3>2. row.txn = t /\ row.state = 2
      BY <2>2, <3>1 DEF Marked, Row
    <3>3. Provider[k] = "payme" /\ payment[k].txn # None
      BY <1>0, <2>1, <3>1, <3>b DEF Bound
    <3>4. payment[k].state = 1
      BY <1>0, <2>1, <2>2, <3>3 DEF StateAgrees
    <3>5. Reported[t] = 1
      BY <3>1, <3>4 DEF Reported
    <3> HIDE DEF row
    <3>a. /\ payment' = [payment EXCEPT ![Order[t]] = row]
          /\ payment[Order[t]].txn = t
      BY <2>1, <3>1
    <3>c. Reported' = [Reported EXCEPT ![t] = row.state]
      BY <1>0, <3>2, <3>a, ReportMoves
    <3>6. Reported' = [Reported EXCEPT ![t] = 2]
      BY <3>2, <3>c
    <3>7. <<1, 2>> \in Protocol!Steps
      BY DEF Protocol!Steps
    <3> QED
      BY <1>move, <3>5, <3>6, <3>7
  <2>3. CASE tx[w].pc # "perform" /\ k \in InOrder
    <3>1. Provider[k] # "payme"
      BY <2>1, <2>3 DEF InHand, InOrder, Settling
    <3> QED
      BY <1>3, <2>1, <3>1
  <2> QED
    BY <2>2, <2>3, <2>a
<1>6. ASSUME NEW w \in Workers, CreateTransactionStore(w)
      PROVE  Protocol!Next \/ UNCHANGED Reported
  <2>1. PICK t \in Txns : t = tx[w].txn
    BY <1>6 DEF CreateTransactionStore, BillingInv, InHand
  <2> DEFINE row == Row(payment[Order[t]].status, payment[Order[t]], t, 1)
  <2>2. /\ payment' = [payment EXCEPT ![Order[t]] = row]
        /\ row.txn = t /\ row.state = 1 /\ payment[Order[t]].txn = None
    BY <1>6, <2>1 DEF CreateTransactionStore, Unbound, Row
  <2>a. CASE Order[t] \notin InOrder
    <3> HIDE DEF row
    <3> QED
      BY <1>0, <2>2, <2>a, ReportSilent
  <2>b. SUFFICES ASSUME t \in OrderedTxns PROVE Protocol!Next
    BY <2>a DEF OrderedTxns
  <2>3. Reported[t] = 0
    BY <2>2, <2>b DEF Reported
  <2>4. Reported' = [Reported EXCEPT ![t] = 1]
    BY <1>0, <2>2, <2>b, ReportMoves
  <2>5. <<0, 1>> \in Protocol!Steps
    BY DEF Protocol!Steps
  <2> QED
    BY <1>move, <2>3, <2>4, <2>5, <2>b
<1>7. ASSUME NEW w \in Workers, CancelTransactionWrite(w)
      PROVE  Protocol!Next \/ UNCHANGED Reported
  <2>1. PICK t \in Txns : t = tx[w].txn
    BY <1>7 DEF CancelTransactionWrite, BillingInv, InHand
  <2> DEFINE k == Order[t]
             row == Marked(payment[k], "cancelled", tx[w].state)
  <2>0. payment' = [payment EXCEPT ![k] = row] /\ k \in Payments
    BY <1>7, <2>1 DEF CancelTransactionWrite, Void
  <2>a. CASE k \notin InOrder
    <3> HIDE DEF row, k
    <3> QED
      BY <1>0, <2>0, <2>a, ReportSilent
  <2>b. SUFFICES ASSUME k \in InOrder, t \in OrderedTxns PROVE Protocol!Next
    BY <2>a DEF OrderedTxns
  <2>2. /\ payment[k].txn = t
        /\ tx[w].state = CancelState(payment[k].status)
    BY <1>7, <2>1, <2>b DEF CancelTransactionWrite, BillingInv, InHand, OrderInv,
                            CancelsRight
  <2>3. /\ payment' = [payment EXCEPT ![k] = row]
        /\ payment[k].status \in {"pending", "paid"}
        /\ row.txn = t /\ row.state = CancelState(payment[k].status)
    BY <1>7, <2>1, <2>2 DEF CancelTransactionWrite, Void, Cancellable, Marked,
                            Row, CancelState
  <2>4. Provider[k] = "payme" /\ payment[k].txn # None
    BY <1>0, <2>2 DEF Bound
  <2>5. Reported[t] = payment[k].state
    BY <2>2, <2>b DEF Reported
  <2>6. Reported' = [Reported EXCEPT ![t] = row.state]
    BY <1>0, <2>2, <2>3, <2>b, ReportMoves
  <2>7. <<payment[k].state, row.state>> \in Protocol!Steps
    BY <1>0, <2>2, <2>3, <2>4, <2>b DEF StateAgrees, CancelState, Protocol!Steps
  <2> QED
    BY <1>move, <2>5, <2>6, <2>7, <2>b
<1>8. CASE Payme
  BY <1>1, <1>6, <1>7, <1>8 DEF Payme, RepeatCreateTransaction,
     RepeatPerformTransaction, PerformTransaction, Settle,
     CreateTransactionRead, CancelTransactionRead,
     CreateTransactionTaken, CreateTransactionRef, CancelTransactionLate
<1>9. CASE Click
  <2>1. ASSUME NEW w \in Workers, ClickPrepareBind(w) PROVE UNCHANGED Reported
    <3>1. PICK k \in Payments : k = tx[w].pay /\ Provider[k] = "click"
      BY <2>1 DEF ClickPrepareBind, BillingInv, InHand
    <3> DEFINE row == Row(payment[k].status, payment[k], ClickTxn, payment[k].state)
    <3>2. payment' = [payment EXCEPT ![k] = row] /\ row.txn = ClickTxn
      BY <2>1, <3>1 DEF ClickPrepareBind, Row
    <3>3. payment[k].txn \notin Txns
      BY <1>0, <3>1 DEF Bound
    <3> QED
      BY <1>0, <3>2, <3>3, ReportStays
  <2>2. ASSUME NEW k \in Payments, ClickCompleteError(k) PROVE UNCHANGED Reported
    BY <1>3, <2>2 DEF ClickCompleteError, Void
  <2> QED
    BY <1>1, <1>9, <2>1, <2>2 DEF Click, ClickPrepareRead, ClickPrepareBound,
       ClickComplete, Settle, RepeatClickComplete
<1>10. CASE Dun \/ \E w \in Workers : SettleCommit(w) \/ Crash(w)
  BY <1>1, <1>5, <1>10 DEF Dun, DunningList, DunningLook, DunningAdvance, Crash
<1>11. CASE UNCHANGED vars
  BY <1>1, <1>11 DEF vars
<1> QED
  BY <1>4, <1>8, <1>9, <1>10, <1>11 DEF Next

(* CheckTransaction reports the states of the protocol in their order, of  *)
(* every transaction about which Payme's calls come one at a time and      *)
(* whose invoice is not settled by hand.                                   *)
THEOREM PaymeStatesInOrder == Spec => ImplementsPayme
<1>1. Init => Protocol!Init
  <2>1. ASSUME Init, NEW t \in OrderedTxns PROVE payment[Order[t]].txn # t
    BY <2>1 DEF Init, NoPayment, OrderedTxns
  <2> QED
    BY <2>1 DEF Init, Protocol!Init, Reported
<1>2. BillingInv /\ [Next]_vars => [Protocol!Next]_Reported
  BY ProtocolStep
<1> QED
  BY <1>1, <1>2, BillingCorrect, PTL DEF Spec, ImplementsPayme, Protocol!Spec
=============================================================================
