-------------------------- MODULE SaleLedgerProofs --------------------------
(***************************************************************************)
(* Proofs about SaleLedger for every number of workers, sales, payments,   *)
(* requests and products and every set of prices and amounts.              *)
(***************************************************************************)
EXTENDS SaleLedger, SumLemmas

-----------------------------------------------------------------------------
(* Types *)

(* An idle worker is a well-typed record. *)
LEMMA IdleType == Idle \in Tx /\ NoSale \in SaleRow
  BY SaleLedgerAssumption DEF Idle, Tx, NoSale, SaleRow, PC, SaleStatus

(* The initial rows are well typed. *)
LEMMA TypeInit == Init => TypeOK
  BY IdleType, SaleLedgerAssumption
     DEF Init, TypeOK, NoEntries, LedgerRow,  NoPayment, PaymentRow,
         NoRequest, RequestRow, AuditRow, SaleStatus

(* A step that only moves worker w to a well-typed record keeps the types. *)
LEMMA MoveType ==
  ASSUME TypeOK, NEW w \in Workers, NEW t \in Tx,
         tx' = [tx EXCEPT ![w] = t], UNCHANGED dbvars, UNCHANGED histvars
  PROVE  TypeOK'
  BY DEF TypeOK, dbvars, histvars

(* The fields of a worker's record have their types. *)
LEMMA FieldTypes ==
  ASSUME TypeOK, NEW w \in Workers
  PROVE  /\ tx[w].amount \in Nat /\ tx[w].version \in Nat
         /\ tx[w].target \in SaleStatus /\ tx[w].balance \in Int
         /\ tx[w].price \in Nat \cup {None}
         /\ tx[w].sale \in Sales \cup {None}
         /\ tx[w].pay \in Payments \cup {None}
         /\ tx[w].req \in Requests \cup {None}
         /\ tx[w].seen \in SaleRow
         /\ tx[w].pc \in PC
  BY DEF TypeOK, Tx

(* Rows have the types of their columns. *)
LEMMA RowTypes ==
  ASSUME TypeOK
  PROVE  /\ \A s \in Sales :
              /\ sale[s] \in SaleRow /\ sale[s].version \in Nat
              /\ sale[s].price \in Nat
              /\ sale[s].status \in SaleStatus \cup {"absent"}
              /\ ledger[s] \in LedgerRow
              /\ \A type \in EntryType : ledger[s][type] \in Int
              /\ Balance(s) \in Int
         /\ \A k \in Payments : payment[k].sale \in Sales \cup {None}
                                  /\ payment[k].amount \in Nat
         /\ \A r \in Requests :
              /\ request[r].sale \in Sales \cup {None}
              /\ request[r].amount \in Nat /\ request[r].version \in Nat
              /\ request[r].price \in Nat \cup {None}
  BY DEF TypeOK, SaleRow, LedgerRow, EntryType, PaymentRow, RequestRow, Balance

(* A ledger insert of any whole amount keeps the sums whole. *)
LEMMA PostType ==
  ASSUME TypeOK, NEW s \in Sales, NEW type \in EntryType, NEW d \in Int,
         PostEntry(s, type, d)
  PROVE  ledger' \in [Sales -> LedgerRow]
  BY DEF TypeOK, LedgerRow, PostEntry

(* An updated row is a row. *)
LEMMA UpdatedType ==
  ASSUME NEW row \in SaleRow, NEW status \in SaleStatus, NEW price \in Nat
  PROVE  Updated(row, status, price) \in SaleRow
<1>1. row.version + 1 \in Nat
  BY DEF SaleRow
<1>2. \A v \in Nat : [row EXCEPT !.status = status, !.price = price,
                                 !.version = v] \in SaleRow
  BY DEF SaleRow
<1> QED
  BY <1>1, <1>2 DEF Updated

(* mark_sale_completed and mark_sale_active keep the types. *)
LEMMA SetStatusType ==
  ASSUME TypeOK, NEW s \in Sales, NEW status \in SaleStatus,
         SetStatus(s, status)
  PROVE  sale' \in [Sales -> SaleRow] /\ audit' \in [Sales -> AuditRow]
<1>1. /\ sale \in [Sales -> SaleRow] /\ sale[s] \in SaleRow
      /\ audit \in [Sales -> AuditRow] /\ audit[s] \in AuditRow
  BY DEF TypeOK
<1>2. Updated(sale[s], status, sale[s].price) \in SaleRow
  BY <1>1, UpdatedType DEF SaleRow
<1>3. [audit[s] EXCEPT !.status = status] \in AuditRow
  BY <1>1 DEF AuditRow
<1> QED
  BY <1>1, <1>2, <1>3 DEF SetStatus

(* So does a version-checked UPDATE of status and price. *)
LEMMA UpdateType ==
  ASSUME TypeOK, NEW s \in Sales, NEW status \in SaleStatus,
         NEW price \in Nat, NEW seen
  PROVE  /\ [sale EXCEPT ![s] = Updated(@, status, price)]
              \in [Sales -> SaleRow]
         /\ AuditDiff(s, seen, status, price) \in [Sales -> AuditRow]
<1>1. /\ sale \in [Sales -> SaleRow] /\ sale[s] \in SaleRow
      /\ audit \in [Sales -> AuditRow] /\ audit[s] \in AuditRow
  BY DEF TypeOK
<1>2. Updated(sale[s], status, price) \in SaleRow
  BY <1>1, UpdatedType
<1>3. [status |-> IF seen.status # status THEN status ELSE audit[s].status,
       price  |-> IF seen.price # price THEN price ELSE audit[s].price]
        \in AuditRow
  BY <1>1 DEF AuditRow
<1>4. AuditDiff(s, seen, status, price) \in [Sales -> AuditRow]
  BY <1>1, <1>3 DEF AuditDiff
<1> QED
  BY <1>1, <1>2, <1>4

(* Every step keeps every variable within its table's rows. *)
LEMMA TypeStep == TypeOK /\ References /\ [Next]_vars => TypeOK'
<1> SUFFICES ASSUME TypeOK, References, [Next]_vars PROVE TypeOK'
  OBVIOUS
<1> USE SaleLedgerAssumption, IdleType
<1>1. ASSUME NEW w \in Workers, NEW s \in Sales, NEW price \in Prices,
             NEW p \in Products \cup {None}, NEW q \in Quantities \cup {1},
             CreateSale(w, s, price, p, q)
      PROVE TypeOK'
  <2>1. sale' \in [Sales -> SaleRow] /\ audit' \in [Sales -> AuditRow]
    BY <1>1 DEF TypeOK, CreateSale, SaleRow, SaleStatus, AuditRow
  <2>2. stock' \in [Products -> Nat]
    BY <1>1 DEF TypeOK, CreateSale, TakeStock, InStock
  <2>3. tx' \in [Workers -> Tx]
    BY <1>1 DEF TypeOK, CreateSale, Tx, PC
  <2> QED
    BY <1>1, <2>1, <2>2, <2>3 DEF TypeOK, CreateSale
<1>2. ASSUME NEW w \in Workers, PostCharge(w) PROVE TypeOK'
  <2>1. tx[w].sale \in Sales
    BY <1>2 DEF References, RefersToRows, PostCharge
  <2>2. ledger' \in [Sales -> LedgerRow]
    BY <1>2, <2>1, FieldTypes, PostType DEF EntryType, PostCharge
  <2>3. charges' \in [Sales -> Nat] /\ acked' \subseteq Sales \cup Requests
    BY <1>2, <2>1 DEF TypeOK, PostCharge
  <2> QED
    BY <1>2, <2>2, <2>3 DEF TypeOK, PostCharge, Finish
<1>3. ASSUME NEW w \in Workers, NEW s \in Sales, NEW version \in 1..MaxVersion,
             NEW status \in SaleStatus, NEW price \in Prices,
             UpdateSaleRead(w, s, version, status, price)
      PROVE TypeOK'
  <2>1. [Idle EXCEPT !.pc = "update", !.sale = s, !.version = version,
                     !.target = status, !.price = price, !.seen = sale[s]]
          \in Tx
    <3>1. sale[s] \in SaleRow /\ version \in Nat /\ price \in Nat
      BY RowTypes, SaleLedgerAssumption
    <3> QED
      BY <3>1 DEF Tx, PC
  <2> QED
    BY <1>3, <2>1, MoveType DEF UpdateSaleRead
<1>4. ASSUME NEW w \in Workers, UpdateSaleWrite(w) PROVE TypeOK'
  <2>1. tx[w].sale \in Sales /\ tx[w].price \in Nat
    BY <1>4, FieldTypes DEF References, RefersToRows, UpdateSaleWrite
  <2>2. sale' \in [Sales -> SaleRow] /\ audit' \in [Sales -> AuditRow]
    BY <1>4, <2>1, FieldTypes, UpdateType DEF UpdateSaleWrite
  <2>3. tx[w].seen.quantity \in Nat
    BY FieldTypes DEF SaleRow
  <2>4. stock' \in [Products -> Nat]
    BY <1>4, <2>3 DEF TypeOK, UpdateSaleWrite, Restock
  <2> QED
    BY <1>4, <2>2, <2>4 DEF TypeOK, UpdateSaleWrite, Finish
<1>5. ASSUME NEW w \in Workers,
             \/ VersionConflict(w) \/ ReversePaymentLate(w)
             \/ ApproveRefundLate(w) \/ Crash(w)
      PROVE TypeOK'
  BY <1>5, MoveType DEF VersionConflict, ReversePaymentLate, ApproveRefundLate,
                        Crash, Finish
<1>6. ASSUME NEW w \in Workers, NEW s \in Sales, NEW k \in Payments,
             NEW amount \in Amounts, RecordPaymentLock(w, s, k, amount)
      PROVE TypeOK'
  <2>1. [Idle EXCEPT !.pc = "pay", !.sale = s, !.pay = k, !.amount = amount,
                     !.seen = sale[s], !.balance = Balance(s)] \in Tx
    BY RowTypes DEF Tx, PC
  <2> QED
    BY <1>6, <2>1, MoveType DEF RecordPaymentLock
<1>7. ASSUME NEW w \in Workers, RecordPaymentCommit(w) PROVE TypeOK'
  <2>1. /\ tx[w].sale \in Sales /\ tx[w].pay \in Payments
        /\ tx[w].amount \in Nat
    BY <1>7, FieldTypes DEF References, RefersToRows, RecordPaymentCommit
  <2>2. payment' \in [Payments -> PaymentRow]
    BY <1>7, <2>1 DEF TypeOK, RecordPaymentCommit, PaymentRow
  <2>3. ledger' \in [Sales -> LedgerRow]
    BY <1>7, <2>1, PostType DEF EntryType, RecordPaymentCommit
  <2>4. sale' \in [Sales -> SaleRow] /\ audit' \in [Sales -> AuditRow]
    BY <1>7, <2>1, SetStatusType DEF TypeOK, RecordPaymentCommit, SaleStatus
  <2> QED
    BY <1>7, <2>2, <2>3, <2>4 DEF TypeOK, RecordPaymentCommit, Finish
<1>8. ASSUME NEW w \in Workers, NEW k \in Payments, ReversePaymentRead(w, k)
      PROVE TypeOK'
  <2>1. [Idle EXCEPT !.pc = "reverse", !.sale = payment[k].sale, !.pay = k,
                     !.amount = payment[k].amount] \in Tx
    BY RowTypes DEF Tx, PC
  <2> QED
    BY <1>8, <2>1, MoveType DEF ReversePaymentRead
<1>9. ASSUME NEW w \in Workers, ReversePaymentCommit(w) PROVE TypeOK'
  <2>1. /\ tx[w].sale \in Sales /\ tx[w].pay \in Payments
        /\ tx[w].amount \in Nat
    BY <1>9, FieldTypes DEF References, RefersToRows, ReversePaymentCommit
  <2>2. payment' \in [Payments -> PaymentRow]
    BY <1>9, <2>1 DEF TypeOK, ReversePaymentCommit, PaymentRow
  <2>3. ledger' \in [Sales -> LedgerRow]
    BY <1>9, <2>1, PostType DEF EntryType, ReversePaymentCommit
  <2>4. sale' \in [Sales -> SaleRow] /\ audit' \in [Sales -> AuditRow]
    BY <1>9, <2>1, SetStatusType DEF TypeOK, ReversePaymentCommit, SaleStatus
  <2> QED
    BY <1>9, <2>2, <2>3, <2>4 DEF TypeOK, ReversePaymentCommit, Finish
<1>10. ASSUME NEW r \in Requests, NEW s \in Sales, NEW amount \in Amounts,
              CreateRefundRequest(r, s, amount)
       PROVE TypeOK'
  BY <1>10 DEF TypeOK, CreateRefundRequest, NoRequest, RequestRow, histvars
<1>11. ASSUME NEW r \in Requests, NEW s \in Sales,
              NEW price \in Prices \cup {None},
              CreateTariffRequest(r, s, price)
       PROVE TypeOK'
  BY <1>11, RowTypes
     DEF TypeOK, CreateTariffRequest, NoRequest, RequestRow, histvars
<1>12. ASSUME NEW w \in Workers, NEW r \in Requests, ApproveRefundRead(w, r)
       PROVE TypeOK'
  <2>1. [Idle EXCEPT !.pc = "refund", !.sale = request[r].sale, !.req = r,
                     !.amount = request[r].amount] \in Tx
    BY RowTypes DEF Tx, PC
  <2> QED
    BY <1>12, <2>1, MoveType DEF ApproveRefundRead
<1>13. ASSUME NEW w \in Workers, ApproveRefundCommit(w) PROVE TypeOK'
  <2>1. /\ tx[w].sale \in Sales /\ tx[w].req \in Requests
        /\ tx[w].amount \in Nat
    BY <1>13, FieldTypes DEF References, RefersToRows, ApproveRefundCommit
  <2>2. request' \in [Requests -> RequestRow]
    BY <1>13, <2>1 DEF TypeOK, ApproveRefundCommit, RequestRow
  <2>3. ledger' \in [Sales -> LedgerRow]
    BY <1>13, <2>1, PostType DEF EntryType, ApproveRefundCommit
  <2>4. acked' \subseteq Sales \cup Requests
    BY <1>13, <2>1 DEF TypeOK, ApproveRefundCommit
  <2> QED
    BY <1>13, <2>2, <2>3, <2>4 DEF TypeOK, ApproveRefundCommit, Finish
<1>14. ASSUME NEW w \in Workers, NEW r \in Requests, ApproveTariff(w, r)
       PROVE TypeOK'
  <2>1. request' \in [Requests -> RequestRow]
    BY <1>14 DEF TypeOK, ApproveTariff, RequestRow
  <2>2. [Idle EXCEPT !.pc = "apply_read", !.sale = request[r].sale,
                     !.req = r, !.price = request[r].price,
                     !.version = request[r].version] \in Tx
    BY RowTypes DEF Tx, PC
  <2> QED
    BY <1>14, <2>1, <2>2 DEF TypeOK, ApproveTariff, histvars
<1>15. ASSUME NEW w \in Workers, ApplyTariffRead(w) PROVE TypeOK'
  <2>1. tx[w].sale \in Sales
    BY <1>15 DEF References, RefersToRows, ApplyTariffRead
  <2>2. sale[tx[w].sale] \in SaleRow /\ sale[tx[w].sale].price \in Nat
    BY <2>1, RowTypes
  <2>3. tx[w] \in Tx
    BY DEF TypeOK
  <2>4. \A row \in SaleRow, price \in Nat :
          [tx[w] EXCEPT !.pc = "apply", !.seen = row, !.price = price] \in Tx
    BY <2>3 DEF Tx, PC
  <2>5. tx' \in [Workers -> Tx]
    BY <1>15, <2>2, <2>4, FieldTypes DEF TypeOK, ApplyTariffRead
  <2> QED
    BY <1>15, <2>5 DEF TypeOK, ApplyTariffRead, dbvars, histvars
<1>16. ASSUME NEW w \in Workers, ApplyTariffWrite(w) PROVE TypeOK'
  <2>1. /\ tx[w].sale \in Sales /\ tx[w].req \in Requests
        /\ tx[w].price \in Nat /\ sale[tx[w].sale].status \in SaleStatus
        /\ tx[w].seen.status \in SaleStatus
    BY <1>16, FieldTypes, RowTypes
       DEF References, RefersToRows, ApplyTariffWrite, Exists, SaleRow
  <2>2. sale' \in [Sales -> SaleRow] /\ audit' \in [Sales -> AuditRow]
    BY <1>16, <2>1, UpdateType DEF ApplyTariffWrite
  <2> QED
    BY <1>16, <2>1, <2>2 DEF TypeOK, ApplyTariffWrite, Finish
<1>17. ASSUME NEW r \in Requests, RejectRequest(r) PROVE TypeOK'
  BY <1>17 DEF TypeOK, RejectRequest, RequestRow, histvars
<1>18. ASSUME NEW p \in Products, NEW delta \in {-1, 1}, AdjustStock(p, delta)
       PROVE TypeOK'
  BY <1>18 DEF TypeOK, AdjustStock
<1>19. CASE Replay
  BY <1>19 DEF TypeOK, Replay, ReplayCreateSale, ReplayApprove, dbvars
<1>20. CASE UNCHANGED vars
  BY <1>20 DEF TypeOK, vars
<1>21. CASE Desk
  BY <1>21, <1>10, <1>11, <1>17, <1>18 DEF Desk
<1>22. ASSUME NEW w \in Workers, Begin(w) PROVE TypeOK'
  BY <1>22, <1>1, <1>3, <1>6, <1>8, <1>12, <1>14 DEF Begin, Create
<1>23. ASSUME NEW w \in Workers, Continue(w) PROVE TypeOK'
  BY <1>23, <1>2, <1>4, <1>5, <1>7, <1>9, <1>13, <1>15, <1>16 DEF Continue
<1> QED
  BY <1>5, <1>19, <1>20, <1>21, <1>22, <1>23 DEF Next

-----------------------------------------------------------------------------
(* Who touches what *)

(* A step leaves a sale and its audit trail alone, or is one of five.      *)
LEMMA SaleStep ==
  ASSUME TypeOK, References, [Next]_vars, NEW s \in Sales
  PROVE  \/ sale'[s] = sale[s] /\ audit'[s] = audit[s]
         \/ \E w \in Workers, price \in Prices,
               p \in Products \cup {None}, q \in Quantities \cup {1} :
              CreateSale(w, s, price, p, q)
         \/ \E w \in Workers :
              /\ tx[w].sale = s
              /\ \/ UpdateSaleWrite(w)
                 \/ ApplyTariffWrite(w)
                 \/ RecordPaymentCommit(w) /\ SetStatus(s, "completed")
                      /\ tx[w].balance - tx[w].amount <= 0
                      /\ tx[w].seen.status = "active"
                 \/ ReversePaymentCommit(w) /\ SetStatus(s, "active")
                      /\ sale[s].status = "completed"
                      /\ Balance(s) + tx[w].amount > 0
<1> DEFINE Same == sale'[s] = sale[s] /\ audit'[s] = audit[s]
<1>1. ASSUME sale' = sale, audit' = audit PROVE Same
  BY <1>1
<1>2. CASE Replay \/ Desk \/ UNCHANGED vars
  BY <1>2, <1>1 DEF Replay, Desk, ReplayCreateSale, ReplayApprove,
       CreateRefundRequest, CreateTariffRequest, RejectRequest, AdjustStock,
       dbvars, histvars, vars
<1>3. ASSUME NEW w \in Workers, Begin(w), ~Create(w) PROVE Same
  BY <1>3, <1>1 DEF Begin, UpdateSaleRead, RecordPaymentLock,
       ReversePaymentRead, ApproveRefundRead, ApproveTariff, dbvars, histvars
<1>4. ASSUME NEW w \in Workers,
             \/ PostCharge(w) \/ VersionConflict(w) \/ ReversePaymentLate(w)
             \/ ApproveRefundCommit(w) \/ ApproveRefundLate(w)
             \/ ApplyTariffRead(w) \/ Crash(w)
      PROVE Same
  BY <1>4, <1>1 DEF PostCharge, VersionConflict, ReversePaymentLate,
       ApproveRefundCommit, ApproveRefundLate, ApplyTariffRead, Crash,
       dbvars, histvars
<1>5. ASSUME NEW w \in Workers, Create(w)
      PROVE  \/ Same
             \/ \E price \in Prices, p \in Products \cup {None},
                   q \in Quantities \cup {1} : CreateSale(w, s, price, p, q)
  <2>1. PICK t \in Sales, price \in Prices, p \in Products \cup {None},
             q \in Quantities \cup {1} : CreateSale(w, t, price, p, q)
    BY <1>5 DEF Create
  <2>2. t # s => Same
    BY <2>1 DEF CreateSale, TypeOK
  <2> QED
    BY <2>1, <2>2
<1>6. ASSUME NEW w \in Workers,
             \/ UpdateSaleWrite(w) \/ ApplyTariffWrite(w)
             \/ RecordPaymentCommit(w) \/ ReversePaymentCommit(w),
             tx[w].sale # s
      PROVE Same
  BY <1>6 DEF UpdateSaleWrite, ApplyTariffWrite, RecordPaymentCommit,
       ReversePaymentCommit, SetStatus, AuditDiff, TypeOK
<1>7. ASSUME NEW w \in Workers, RecordPaymentCommit(w), tx[w].sale = s
      PROVE  \/ Same
             \/ SetStatus(s, "completed")
                  /\ tx[w].balance - tx[w].amount <= 0
                  /\ tx[w].seen.status = "active"
  BY <1>7, <1>1 DEF RecordPaymentCommit
<1>8. ASSUME NEW w \in Workers, ReversePaymentCommit(w), tx[w].sale = s
      PROVE  \/ Same
             \/ SetStatus(s, "active") /\ sale[s].status = "completed"
                  /\ Balance(s) + tx[w].amount > 0
  BY <1>8, <1>1 DEF ReversePaymentCommit
<1>9. ASSUME NEW w \in Workers, Continue(w)
      PROVE  \/ Same
             \/ /\ tx[w].sale = s
                /\ \/ UpdateSaleWrite(w)
                   \/ ApplyTariffWrite(w)
                   \/ RecordPaymentCommit(w) /\ SetStatus(s, "completed")
                        /\ tx[w].balance - tx[w].amount <= 0
                        /\ tx[w].seen.status = "active"
                   \/ ReversePaymentCommit(w) /\ SetStatus(s, "active")
                        /\ sale[s].status = "completed"
                        /\ Balance(s) + tx[w].amount > 0
  BY <1>9, <1>4, <1>6, <1>7, <1>8 DEF Continue
<1> QED
  BY <1>2, <1>3, <1>4, <1>5, <1>9 DEF Next

(* A step adds nothing to a sale's ledger, or is one of four inserts.      *)
LEMMA LedgerStep ==
  ASSUME TypeOK, References, [Next]_vars, NEW s \in Sales
  PROVE  \/ ledger'[s] = ledger[s] /\ charges'[s] = charges[s]
         \/ \E w \in Workers :
              /\ tx[w].sale = s
              /\ \/ PostCharge(w) \/ RecordPaymentCommit(w)
                 \/ ReversePaymentCommit(w) \/ ApproveRefundCommit(w)
<1> DEFINE Same == ledger'[s] = ledger[s] /\ charges'[s] = charges[s]
<1>1. ASSUME ledger' = ledger, charges' = charges PROVE Same
  BY <1>1
<1>2. CASE Replay \/ Desk \/ UNCHANGED vars
  BY <1>2, <1>1 DEF Replay, Desk, ReplayCreateSale, ReplayApprove,
       CreateRefundRequest, CreateTariffRequest, RejectRequest, AdjustStock,
       dbvars, histvars, vars
<1>3. ASSUME NEW w \in Workers, Begin(w) PROVE Same
  BY <1>3, <1>1 DEF Begin, Create, CreateSale, UpdateSaleRead,
       RecordPaymentLock, ReversePaymentRead, ApproveRefundRead,
       ApproveTariff, dbvars, histvars
<1>4. ASSUME NEW w \in Workers,
             \/ VersionConflict(w) \/ ReversePaymentLate(w)
             \/ ApproveRefundLate(w) \/ UpdateSaleWrite(w)
             \/ ApplyTariffRead(w) \/ ApplyTariffWrite(w) \/ Crash(w)
      PROVE Same
  BY <1>4, <1>1 DEF VersionConflict, ReversePaymentLate, ApproveRefundLate,
       UpdateSaleWrite, ApplyTariffRead, ApplyTariffWrite, Crash,
       dbvars, histvars
<1>5. ASSUME NEW w \in Workers,
             \/ PostCharge(w) \/ RecordPaymentCommit(w)
             \/ ReversePaymentCommit(w) \/ ApproveRefundCommit(w),
             tx[w].sale # s
      PROVE Same
  BY <1>5 DEF PostCharge, RecordPaymentCommit, ReversePaymentCommit,
       ApproveRefundCommit, PostEntry, TypeOK, LedgerRow
<1> QED
  BY <1>2, <1>3, <1>4, <1>5 DEF Next, Continue

(* What an insert does to the balance. *)
LEMMA PostBalance ==
  ASSUME TypeOK, NEW s \in Sales, NEW type \in EntryType, NEW d \in Int,
         PostEntry(s, type, d)
  PROVE  /\ Balance(s)' = Balance(s) + d
         /\ \A e \in EntryType \ {type} : ledger'[s][e] = ledger[s][e]
         /\ ledger'[s][type] = ledger[s][type] + d
  BY DEF TypeOK, LedgerRow, EntryType, PostEntry, Balance

(* A worker that is not where it was has returned, begun or read a sale.   *)
LEMMA TxStep ==
  ASSUME TypeOK, [Next]_vars, NEW v \in Workers
  PROVE  \/ tx'[v] = tx[v]
         \/ tx'[v] = Idle
         \/ Begin(v)
         \/ ApplyTariffRead(v)
<1>1. CASE Replay \/ Desk \/ UNCHANGED vars
  BY <1>1 DEF Replay, Desk, ReplayCreateSale, ReplayApprove,
       CreateRefundRequest, CreateTariffRequest, RejectRequest, AdjustStock,
       dbvars, histvars, vars
<1>2. ASSUME NEW w \in Workers, Begin(w) \/ Continue(w) \/ Crash(w), w # v
      PROVE  tx'[v] = tx[v]
  <2>1. ASSUME NEW t, tx' = [tx EXCEPT ![w] = t] PROVE tx'[v] = tx[v]
    BY <2>1, <1>2 DEF TypeOK
  <2>2. CASE Begin(w)
    BY <2>1, <2>2 DEF Begin, Create, CreateSale, UpdateSaleRead,
         RecordPaymentLock, ReversePaymentRead, ApproveRefundRead,
         ApproveTariff
  <2>3. CASE ApplyTariffRead(w)
    BY <2>1, <2>3 DEF ApplyTariffRead
  <2> QED
    BY <1>2, <2>1, <2>2, <2>3 DEF Continue, PostCharge, UpdateSaleWrite,
         VersionConflict, RecordPaymentCommit, ReversePaymentCommit,
         ReversePaymentLate, ApproveRefundCommit, ApproveRefundLate,
         ApplyTariffWrite, Crash, Finish
<1>3. ASSUME Continue(v) \/ Crash(v), ~ApplyTariffRead(v) PROVE tx'[v] = Idle
  BY <1>3 DEF TypeOK, Continue, PostCharge, UpdateSaleWrite,
       VersionConflict, RecordPaymentCommit, ReversePaymentCommit,
       ReversePaymentLate, ApproveRefundCommit, ApproveRefundLate,
       ApplyTariffWrite, Crash, Finish
<1> QED
  BY <1>1, <1>2, <1>3 DEF Next

-----------------------------------------------------------------------------
(* The parts of the invariant, one lemma each *)

(* A sale that exists goes on existing, and a change raises its version. *)
LEMMA RowGrows ==
  ASSUME TypeOK, References, [Next]_vars, NEW s \in Sales, Exists(s)
  PROVE  /\ Exists(s)'
         /\ \/ sale'[s] = sale[s]
            \/ sale'[s].version > sale[s].version
<1>1. ASSUME NEW status \in SaleStatus, NEW price,
             sale' = [sale EXCEPT ![s] = Updated(@, status, price)]
      PROVE  Exists(s)' /\ sale'[s].version > sale[s].version
  <2>1. sale'[s] = Updated(sale[s], status, price)
    BY <1>1 DEF TypeOK
  <2>2. sale'[s].status = status /\ sale'[s].version = sale[s].version + 1
    BY <2>1 DEF TypeOK, Updated, SaleRow
  <2> QED
    BY <2>2, RowTypes DEF Exists, SaleStatus
<1>2. ASSUME NEW w \in Workers, UpdateSaleWrite(w), tx[w].sale = s
      PROVE  Exists(s)' /\ sale'[s].version > sale[s].version
  BY <1>1, <1>2, FieldTypes DEF UpdateSaleWrite
<1>3. ASSUME NEW w \in Workers, ApplyTariffWrite(w), tx[w].sale = s
      PROVE  Exists(s)' /\ sale'[s].version > sale[s].version
  BY <1>1, <1>3, RowTypes DEF ApplyTariffWrite, Exists
<1>4. ASSUME NEW status \in SaleStatus, SetStatus(s, status)
      PROVE  Exists(s)' /\ sale'[s].version > sale[s].version
  BY <1>1, <1>4 DEF SetStatus
<1>5. "completed" \in SaleStatus /\ "active" \in SaleStatus
  BY DEF SaleStatus
<1>6. ASSUME NEW w \in Workers, NEW price, NEW p, NEW q,
             CreateSale(w, s, price, p, q)
      PROVE  FALSE
  BY <1>6 DEF CreateSale, FirstUse
<1>7. sale'[s] = sale[s] => Exists(s)'
  BY DEF Exists
<1> QED
  BY <1>2, <1>3, <1>4, <1>5, <1>6, <1>7, SaleStep

(* What a request in flight refers to is there. *)
LEMMA WorkerStep ==
  ASSUME TypeOK, References, [Next]_vars, NEW v \in Workers
  PROVE  RefersToRows(v)'
<1>1. CASE tx'[v] = tx[v]
  <2>1. CASE tx[v].pc = "idle"
    BY <1>1, <2>1 DEF RefersToRows
  <2>2. CASE tx[v].pc # "idle"
    <3>1. PICK s \in Sales : tx[v].sale = s /\ Exists(s)
      BY <2>2 DEF References, RefersToRows
    <3>2. Exists(s)'
      BY <3>1, RowGrows
    <3> QED
      BY <1>1, <3>1, <3>2 DEF References, RefersToRows, Exists
  <2> QED
    BY <2>1, <2>2
<1>2. CASE tx'[v] = Idle
  BY <1>2 DEF Idle, RefersToRows
<1>3. ASSUME NEW s \in Sales, NEW price \in Prices,
             NEW p \in Products \cup {None}, NEW q \in Quantities \cup {1},
             CreateSale(v, s, price, p, q)
      PROVE  tx'[v].pc = "charge" /\ tx'[v].sale = s /\ Exists(s)'
  BY <1>3 DEF CreateSale, TypeOK, Idle, Exists
<1>4. ASSUME NEW s \in Sales, NEW version \in 1..MaxVersion,
             NEW status \in SaleStatus, NEW price \in Prices,
             UpdateSaleRead(v, s, version, status, price)
      PROVE  /\ tx'[v].pc = "update" /\ tx'[v].sale = s /\ Exists(s)
             /\ tx'[v].price # None /\ tx'[v].seen.status # "absent"
  BY <1>4, SaleLedgerAssumption DEF UpdateSaleRead, TypeOK, Idle, Exists
<1>5. ASSUME NEW s \in Sales, NEW k \in Payments, NEW amount \in Amounts,
             RecordPaymentLock(v, s, k, amount)
      PROVE  /\ tx'[v].pc = "pay" /\ tx'[v].sale = s /\ Exists(s)
             /\ tx'[v].pay = k
  BY <1>5 DEF RecordPaymentLock, TypeOK, Idle
<1>6. ASSUME NEW k \in Payments, ReversePaymentRead(v, k)
      PROVE  /\ tx'[v].pc = "reverse" /\ tx'[v].pay = k
             /\ tx'[v].sale \in Sales /\ Exists(tx'[v].sale)
  BY <1>6 DEF ReversePaymentRead, TypeOK, Idle, References, RefersToRows
<1>7. ASSUME NEW r \in Requests, ApproveRefundRead(v, r)
      PROVE  /\ tx'[v].pc = "refund" /\ tx'[v].req = r
             /\ tx'[v].sale \in Sales /\ Exists(tx'[v].sale)
  BY <1>7 DEF ApproveRefundRead, TypeOK, Idle, References, RefersToRows
<1>8. ASSUME NEW r \in Requests, ApproveTariff(v, r)
      PROVE  /\ tx'[v].pc = "apply_read" /\ tx'[v].req = r
             /\ tx'[v].sale \in Sales /\ Exists(tx'[v].sale)
  BY <1>8 DEF ApproveTariff, Pending, TypeOK, Idle, References, RefersToRows
<1>9. ASSUME ApplyTariffRead(v)
      PROVE  /\ tx'[v].pc = "apply" /\ tx'[v].req \in Requests
             /\ tx'[v].sale \in Sales /\ Exists(tx'[v].sale)
             /\ tx'[v].price # None /\ tx'[v].seen.status # "absent"
  <2>1. /\ tx[v].sale \in Sales /\ Exists(tx[v].sale) /\ tx[v].req \in Requests
        /\ tx[v] \in Tx /\ sale[tx[v].sale].price \in Nat
    BY <1>9, RowTypes DEF ApplyTariffRead, References, RefersToRows, TypeOK
  <2>2. tx'[v] = [tx[v] EXCEPT !.pc = "apply", !.seen = sale[tx[v].sale],
                    !.price = IF tx[v].price = None
                                THEN sale[tx[v].sale].price
                                ELSE tx[v].price]
    BY <1>9 DEF ApplyTariffRead, TypeOK
  <2> QED
    BY <2>1, <2>2, SaleLedgerAssumption DEF Tx, Exists
<1>10. ASSUME NEW s \in Sales, Exists(s), tx'[v].sale = s PROVE Exists(tx[v].sale)'
  <2>1. Exists(s)'
    BY <1>10, RowGrows
  <2> QED
    BY <1>10, <2>1 DEF Exists
<1>11. CASE Create(v)
  BY <1>3, <1>11 DEF Create, RefersToRows, Exists
<1>12. CASE Begin(v) /\ ~Create(v)
  BY <1>4, <1>5, <1>6, <1>7, <1>8, <1>10, <1>12 DEF Begin, RefersToRows
<1>13. CASE ApplyTariffRead(v)
  BY <1>9, <1>10, <1>13 DEF RefersToRows
<1> QED
  BY <1>1, <1>2, <1>11, <1>12, <1>13, TxStep

(* A step leaves the payments and their entries alone, or is one of two.   *)
LEMMA PaymentsStep ==
  ASSUME [Next]_vars
  PROVE  \/ payment' = payment
         \/ \E w \in Workers : RecordPaymentCommit(w) \/ ReversePaymentCommit(w)
<1>1. CASE Replay \/ Desk \/ UNCHANGED vars
  BY <1>1 DEF Replay, Desk, ReplayCreateSale, ReplayApprove,
       CreateRefundRequest, CreateTariffRequest, RejectRequest, AdjustStock,
       dbvars, vars
<1>2. ASSUME NEW w \in Workers, Begin(w)
      PROVE  payment' = payment
  BY <1>2 DEF Begin, Create, CreateSale, UpdateSaleRead,
       RecordPaymentLock, ReversePaymentRead, ApproveRefundRead,
       ApproveTariff, dbvars
<1>3. ASSUME NEW w \in Workers, Continue(w) \/ Crash(w),
             ~RecordPaymentCommit(w), ~ReversePaymentCommit(w)
      PROVE  payment' = payment
  BY <1>3 DEF Continue, PostCharge, UpdateSaleWrite, VersionConflict,
       ReversePaymentLate, ApproveRefundCommit, ApproveRefundLate,
       ApplyTariffRead, ApplyTariffWrite, Crash, dbvars
<1> QED
  BY <1>1, <1>2, <1>3 DEF Next

(* What recording and reversing a payment do to the row of a key.          *)
LEMMA PaymentRowStep ==
  ASSUME TypeOK, References, [Next]_vars, NEW k \in Payments
  PROVE  \/ payment'[k] = payment[k]
         \/ \E w \in Workers :
              /\ RecordPaymentCommit(w) /\ tx[w].pay = k
              /\ payment'[k].status = "recorded"
              /\ payment'[k].sale = tx[w].sale
              /\ payment'[k].amount = tx[w].amount
         \/ \E w \in Workers :
              /\ ReversePaymentCommit(w) /\ tx[w].pay = k
              /\ payment[k].status = "recorded"
              /\ payment'[k].status = "reversed"
              /\ payment'[k].sale = payment[k].sale
              /\ payment'[k].amount = payment[k].amount
<1>1. ASSUME NEW w \in Workers, RecordPaymentCommit(w)
      PROVE  IF tx[w].pay = k
               THEN /\ payment'[k].status = "recorded"
                    /\ payment'[k].sale = tx[w].sale
                    /\ payment'[k].amount = tx[w].amount
               ELSE payment'[k] = payment[k]
  BY <1>1 DEF RecordPaymentCommit, TypeOK
<1>2. ASSUME NEW w \in Workers, ReversePaymentCommit(w)
      PROVE  IF tx[w].pay = k
               THEN /\ payment[k].status = "recorded"
                    /\ payment'[k].status = "reversed"
                    /\ payment'[k].sale = payment[k].sale
                    /\ payment'[k].amount = payment[k].amount
               ELSE payment'[k] = payment[k]
  <2>1. /\ payment' = [payment EXCEPT ![tx[w].pay].status = "reversed"]
        /\ Unreversed(tx[w].pay)
    BY <1>2 DEF ReversePaymentCommit
  <2>2. payment[k] \in PaymentRow /\ payment \in [Payments -> PaymentRow]
    BY DEF TypeOK
  <2>3. [payment[k] EXCEPT !.status = "reversed"] =
          [status |-> "reversed", sale |-> payment[k].sale,
           amount |-> payment[k].amount]
    BY <2>2 DEF PaymentRow
  <2>4. tx[w].pay = k => /\ payment[k].status = "recorded"
                         /\ payment'[k] = [payment[k] EXCEPT !.status = "reversed"]
    BY <2>1, <2>2 DEF Unreversed
  <2>5. tx[w].pay # k => payment'[k] = payment[k]
    BY <2>1, <2>2
  <2> QED
    BY <2>3, <2>4, <2>5
<1> QED
  BY <1>1, <1>2, PaymentsStep

(* So is what a payment refers to ... *)
LEMMA PaymentStep ==
  ASSUME TypeOK, References, [Next]_vars, NEW k \in Payments,
         payment'[k].status # "absent"
  PROVE  \E s \in Sales : payment'[k].sale = s /\ Exists(s)
<1>1. CASE payment'[k] = payment[k]
  BY <1>1 DEF References
<1>2. ASSUME NEW w \in Workers, RecordPaymentCommit(w),
             payment'[k].sale = tx[w].sale
      PROVE  \E s \in Sales : payment'[k].sale = s /\ Exists(s)
  BY <1>2 DEF RecordPaymentCommit, References, RefersToRows
<1>3. CASE payment[k].status = "recorded" /\ payment'[k].sale = payment[k].sale
  BY <1>3 DEF References
<1> QED
  BY <1>1, <1>2, <1>3, PaymentRowStep

(* What a step may do to an adjustment request: file it, or decide it.     *)
LEMMA RequestRowStep ==
  ASSUME TypeOK, [Next]_vars, NEW r \in Requests
  PROVE  \/ request'[r] = request[r]
         \/ /\ request[r].status = "absent" /\ request'[r].status = "pending"
            /\ \E s \in Sales :
                 /\ Exists(s) /\ request'[r].sale = s
                 /\ request'[r].version <= sale[s].version
                 /\ \A q \in Requests \ {r} : request'[q] = request[q]
         \/ /\ request[r].status = "pending"
            /\ request'[r].type = request[r].type
            /\ request'[r].sale = request[r].sale
            /\ request'[r].amount = request[r].amount
            /\ request'[r].version = request[r].version
            /\ \/ request'[r].status = "rejected"
               \/ /\ request'[r].status = "approved"
                  /\ request[r].type = "tariff_change"
               \/ /\ request'[r].status = "approved"
                  /\ \E w \in Workers : ApproveRefundCommit(w) /\ tx[w].req = r
<1> DEFINE Same == request'[r] = request[r]
           Filed == /\ request[r].status = "absent"
                    /\ request'[r].status = "pending"
                    /\ \E s \in Sales :
                         /\ Exists(s) /\ request'[r].sale = s
                         /\ request'[r].version <= sale[s].version
                         /\ \A q \in Requests \ {r} : request'[q] = request[q]
           Decided(status) ==
             /\ request[r].status = "pending" /\ request'[r].status = status
             /\ request'[r].type = request[r].type
             /\ request'[r].sale = request[r].sale
             /\ request'[r].amount = request[r].amount
             /\ request'[r].version = request[r].version
<1>1. ASSUME NEW q, Pending(q), NEW status,
             request' = [request EXCEPT ![q].status = status]
      PROVE  IF q = r THEN Decided(status) ELSE Same
  <2>1. request \in [Requests -> RequestRow] /\ request[r] \in RequestRow
    BY DEF TypeOK
  <2> QED
    BY <1>1, <2>1 DEF Pending, RequestRow
<1>2. ASSUME NEW w \in Workers, ApproveRefundCommit(w)
      PROVE  Same \/ (Decided("approved") /\ tx[w].req = r)
  BY <1>1, <1>2 DEF ApproveRefundCommit
<1>3. ASSUME NEW w \in Workers, NEW q \in Requests, ApproveTariff(w, q)
      PROVE  \/ Same
             \/ Decided("approved") /\ request[r].type = "tariff_change"
  BY <1>1, <1>3 DEF ApproveTariff
<1>4. ASSUME NEW q \in Requests, RejectRequest(q)
      PROVE  Same \/ Decided("rejected")
  BY <1>1, <1>4 DEF RejectRequest
<1>5. ASSUME NEW q \in Requests, NEW s \in Sales, NEW amount \in Amounts,
             CreateRefundRequest(q, s, amount)
      PROVE  Same \/ Filed
  <2>1. CASE q = r
    BY <1>5, <2>1, RowTypes DEF CreateRefundRequest, NoRequest, TypeOK
  <2>2. CASE q # r
    BY <1>5, <2>2 DEF CreateRefundRequest, TypeOK
  <2> QED
    BY <2>1, <2>2
<1>6. ASSUME NEW q \in Requests, NEW s \in Sales,
             NEW price \in Prices \cup {None}, CreateTariffRequest(q, s, price)
      PROVE  Same \/ Filed
  <2>1. CASE q = r
    BY <1>6, <2>1, RowTypes DEF CreateTariffRequest, NoRequest, TypeOK
  <2>2. CASE q # r
    BY <1>6, <2>2 DEF CreateTariffRequest, TypeOK
  <2> QED
    BY <2>1, <2>2
<1>7. CASE Replay \/ UNCHANGED vars
  BY <1>7 DEF Replay, ReplayCreateSale, ReplayApprove, dbvars, vars
<1>8. CASE Desk
  BY <1>4, <1>5, <1>6, <1>8 DEF Desk, AdjustStock
<1>9. ASSUME NEW w \in Workers, Begin(w),
             ~ \E q \in Requests : ApproveTariff(w, q)
      PROVE  Same
  BY <1>9 DEF Begin, Create, CreateSale, UpdateSaleRead,
       RecordPaymentLock, ReversePaymentRead, ApproveRefundRead, dbvars
<1>10. ASSUME NEW w \in Workers, Continue(w) \/ Crash(w),
              ~ApproveRefundCommit(w)
       PROVE  Same
  BY <1>10 DEF Continue, PostCharge, UpdateSaleWrite, VersionConflict,
       RecordPaymentCommit, ReversePaymentCommit, ReversePaymentLate,
       ApproveRefundLate, ApplyTariffRead, ApplyTariffWrite, Crash, dbvars
<1>11. ASSUME NEW w \in Workers, Begin(w)
       PROVE  \/ Same
              \/ Decided("approved") /\ request[r].type = "tariff_change"
  BY <1>3, <1>9, <1>11
<1> QED
  BY <1>2, <1>7, <1>8, <1>10, <1>11, <1>4, <1>5, <1>6 DEF Next

(* ... and what an adjustment request refers to, as of a version it had. *)
LEMMA RequestStep ==
  ASSUME TypeOK, References, [Next]_vars, NEW r \in Requests,
         request'[r].status # "absent"
  PROVE  \E s \in Sales : /\ request'[r].sale = s /\ Exists(s)
                          /\ request'[r].version <= sale[s].version
<1>1. CASE /\ request[r].status # "absent" /\ request'[r].sale = request[r].sale
           /\ request'[r].version = request[r].version
  BY <1>1 DEF References
<1> QED
  BY <1>1, RequestRowStep

(* References survives every step. *)
LEMMA ReferencesStep ==
  TypeOK /\ References /\ [Next]_vars => References'
<1> SUFFICES ASSUME TypeOK, References, [Next]_vars PROVE References'
  OBVIOUS
<1>1. \A w \in Workers : RefersToRows(w)'
  BY WorkerStep
<1>2. ASSUME NEW k \in Payments, payment'[k].status # "absent"
      PROVE  payment'[k].sale \in Sales /\ Exists(payment[k].sale)'
  <2>1. PICK s \in Sales : payment'[k].sale = s /\ Exists(s)
    BY <1>2, PaymentStep
  <2>2. Exists(s)'
    BY <2>1, RowGrows
  <2> QED
    BY <2>1, <2>2 DEF Exists
<1>3. ASSUME NEW r \in Requests, request'[r].status # "absent"
      PROVE  /\ request'[r].sale \in Sales /\ Exists(request[r].sale)'
             /\ request'[r].version <= sale'[request'[r].sale].version
  <2>1. PICK s \in Sales : /\ request'[r].sale = s /\ Exists(s)
                           /\ request'[r].version <= sale[s].version
    BY <1>3, RequestStep
  <2>2. /\ Exists(s)'
        /\ \/ sale'[s] = sale[s]
           \/ sale'[s].version > sale[s].version
    BY <2>1, RowGrows
  <2>3. /\ sale[s].version \in Nat /\ sale'[s].version \in Nat
        /\ request'[r].version \in Nat
    <3>1. TypeOK'
      BY TypeStep
    <3> QED
      BY <3>1 DEF TypeOK, SaleRow, RequestRow
  <2>4. request'[r].version <= sale'[s].version
    BY <2>1, <2>2, <2>3
  <2> QED
    BY <2>1, <2>2, <2>4 DEF Exists
<1> QED
  BY <1>1, <1>2, <1>3 DEF References


(* The program counter tells how a worker began. *)
LEMMA BeginPc ==
  ASSUME TypeOK, NEW v \in Workers, Begin(v)
  PROVE  /\ tx'[v].pc # "apply"
         /\ tx'[v].pc = "pay" =>
              \E s \in Sales, k \in Payments, amount \in Amounts :
                RecordPaymentLock(v, s, k, amount)
         /\ tx'[v].pc = "charge" =>
              \E s \in Sales, price \in Prices, p \in Products \cup {None},
                 q \in Quantities \cup {1} : CreateSale(v, s, price, p, q)
         /\ tx'[v].pc = "update" =>
              \E s \in Sales, version \in 1..MaxVersion, status \in SaleStatus,
                 price \in Prices : UpdateSaleRead(v, s, version, status, price)
         /\ tx'[v].pc = "reverse" =>
              \E k \in Payments : ReversePaymentRead(v, k)
         /\ tx'[v].pc = "refund" =>
              \E r \in Requests : ApproveRefundRead(v, r)
         /\ tx'[v].pc = "apply_read" =>
              \E r \in Requests : ApproveTariff(v, r)
<1>1. ASSUME NEW s, NEW price, NEW p, NEW q, CreateSale(v, s, price, p, q)
      PROVE  tx'[v].pc = "charge"
  BY <1>1 DEF CreateSale, TypeOK, Idle
<1>2. ASSUME NEW s, NEW version, NEW status, NEW price,
             UpdateSaleRead(v, s, version, status, price)
      PROVE  tx'[v].pc = "update"
  BY <1>2 DEF UpdateSaleRead, TypeOK, Idle
<1>3. ASSUME NEW s, NEW k, NEW amount, RecordPaymentLock(v, s, k, amount)
      PROVE  tx'[v].pc = "pay"
  BY <1>3 DEF RecordPaymentLock, TypeOK, Idle
<1>4. ASSUME NEW k, ReversePaymentRead(v, k) PROVE tx'[v].pc = "reverse"
  BY <1>4 DEF ReversePaymentRead, TypeOK, Idle
<1>5. ASSUME NEW r, ApproveRefundRead(v, r) PROVE tx'[v].pc = "refund"
  BY <1>5 DEF ApproveRefundRead, TypeOK, Idle
<1>6. ASSUME NEW r, ApproveTariff(v, r) PROVE tx'[v].pc = "apply_read"
  BY <1>6 DEF ApproveTariff, TypeOK, Idle
<1> QED
  BY <1>1, <1>2, <1>3, <1>4, <1>5, <1>6 DEF Begin, Create

(* A worker that moves leaves the others where they were. *)
LEMMA OneMoves ==
  ASSUME TypeOK, NEW v \in Workers, NEW u \in Workers, u # v, NEW t,
         tx' = [tx EXCEPT ![v] = t]
  PROVE  tx'[u] = tx[u]
  BY DEF TypeOK

(* No one changes the row under a payment, or its ledger. *)
LEMMA LockedRowStays ==
  ASSUME LedgerInv, [Next]_vars, NEW v \in Workers, tx[v].pc = "pay",
         tx'[v].pc = "pay", NEW s \in Sales, tx[v].sale = s
  PROVE  sale'[s] = sale[s] /\ ledger'[s] = ledger[s]
<1> USE DEF LedgerInv
<1>1. RowLocked(s) /\ Exists(s)
  BY DEF RowLocked, References, RefersToRows
<1>2. ASSUME NEW w \in Workers, tx[w].sale = s, RecordPaymentCommit(w)
      PROVE  FALSE
  <2>1. w = v
    BY <1>2 DEF RecordPaymentCommit, HoldsRow
  <2> QED
    BY <1>2, <2>1 DEF RecordPaymentCommit, Finish, Idle, TypeOK
<1>3. ASSUME NEW w \in Workers, NEW price, NEW p, NEW q,
             CreateSale(w, s, price, p, q)
      PROVE  FALSE
  BY <1>1, <1>3 DEF CreateSale, FirstUse
<1>4. ASSUME NEW w \in Workers, tx[w].sale = s,
             \/ UpdateSaleWrite(w) \/ ApplyTariffWrite(w)
             \/ ReversePaymentCommit(w) \/ PostCharge(w)
             \/ ApproveRefundCommit(w)
      PROVE  FALSE
  BY <1>1, <1>4 DEF UpdateSaleWrite, ApplyTariffWrite, ReversePaymentCommit,
       PostCharge, ApproveRefundCommit
<1> QED
  BY <1>2, <1>3, <1>4, SaleStep, LedgerStep

(* HoldsRow survives every step. *)
LEMMA HoldsRowStep ==
  ASSUME LedgerInv, [Next]_vars, NEW v \in Workers
  PROVE  HoldsRow(v)'
<1> SUFFICES ASSUME tx'[v].pc = "pay"
             PROVE  /\ \A u \in Workers :
                         tx'[u].pc = "pay" /\ tx'[u].sale = tx'[v].sale => u = v
                    /\ tx'[v].seen = sale'[tx'[v].sale]
                    /\ tx'[v].seen.status \in {"active", "completed"}
                    /\ tx'[v].amount <= tx'[v].balance
                    /\ tx'[v].balance = Balance(tx[v].sale)'
  BY DEF HoldsRow
<1> USE DEF LedgerInv
<1>1. CASE tx'[v] = tx[v]
  <2>1. PICK s \in Sales : tx[v].sale = s /\ Exists(s)
    BY <1>1 DEF References, RefersToRows
  <2>2. sale'[s] = sale[s] /\ Balance(s)' = Balance(s)
    BY <1>1, <2>1, LockedRowStays DEF Balance
  <2>3. tx'[v].balance = Balance(s)'
    BY <1>1, <2>1, <2>2 DEF HoldsRow
  <2>4. ASSUME NEW u \in Workers, tx'[u].pc = "pay", tx'[u].sale = s
        PROVE  u = v
    <3>1. CASE tx'[u] = tx[u]
      BY <1>1, <2>1, <2>4, <3>1 DEF HoldsRow
    <3>2. CASE tx'[u] = Idle
      BY <2>4, <3>2 DEF Idle
    <3>3. CASE ApplyTariffRead(u)
      BY <2>4, <3>3 DEF ApplyTariffRead, TypeOK, Tx
    <3>4. CASE Begin(u)
      <4>1. PICK t \in Sales, k \in Payments, amount \in Amounts :
              RecordPaymentLock(u, t, k, amount)
        BY <2>4, <3>4, BeginPc
      <4>2. t = s
        BY <2>4, <4>1 DEF RecordPaymentLock, TypeOK, Idle
      <4> QED
        BY <1>1, <2>1, <4>1, <4>2 DEF RecordPaymentLock, RowLocked
    <3> QED
      BY <3>1, <3>2, <3>3, <3>4, TxStep
  <2> QED
    BY <1>1, <2>1, <2>2, <2>3, <2>4 DEF HoldsRow, Balance
<1>2. CASE Begin(v)
  <2>1. PICK s \in Sales, k \in Payments, amount \in Amounts :
          RecordPaymentLock(v, s, k, amount)
    BY <1>2, BeginPc
  <2>2. /\ tx'[v].sale = s /\ tx'[v].seen = sale[s]
        /\ tx'[v].amount = amount /\ tx'[v].balance = Balance(s)
        /\ sale' = sale /\ ledger' = ledger
    BY <2>1 DEF RecordPaymentLock, TypeOK, Idle, dbvars
  <2>3. Balance(s)' = Balance(s) /\ Balance(s) \in Int /\ amount \in Nat
    BY <2>2, RowTypes, SaleLedgerAssumption DEF Balance
  <2>4. sale[s].status \in {"active", "completed"}
    BY <2>1, RowTypes DEF RecordPaymentLock, Exists, SaleStatus
  <2>5. ASSUME NEW u \in Workers, tx'[u].pc = "pay", tx'[u].sale = s, u # v
        PROVE  FALSE
    <3>1. tx'[u] = tx[u]
      BY <2>1, <2>5, OneMoves DEF RecordPaymentLock
    <3> QED
      BY <2>1, <2>5, <3>1 DEF RecordPaymentLock, RowLocked
  <2>6. amount <= Balance(s)
    BY <2>1 DEF RecordPaymentLock
  <2> QED
    BY <2>2, <2>3, <2>4, <2>5, <2>6 DEF Balance
<1>3. CASE tx'[v] = Idle
  BY <1>3 DEF Idle
<1>4. CASE ApplyTariffRead(v)
  BY <1>4 DEF ApplyTariffRead, TypeOK, Tx
<1> QED
  BY <1>1, <1>2, <1>3, <1>4, TxStep


(* Fenced survives every step. *)
LEMMA FencedStep ==
  ASSUME LedgerInv, [Next]_vars, NEW v \in Workers
  PROVE  Fenced(v)'
<1> USE DEF LedgerInv
<1> DEFINE Guarded == {"update", "apply", "apply_read"}
<1>1. CASE tx'[v] = tx[v] /\ tx[v].pc \in Guarded
  <2>1. PICK s \in Sales : tx[v].sale = s /\ Exists(s)
    BY <1>1 DEF References, RefersToRows
  <2>2. /\ \/ sale'[s] = sale[s]
           \/ sale'[s].version > sale[s].version
        /\ sale[s].version \in Nat /\ sale'[s].version \in Nat
    <3>1. TypeOK'
      BY TypeStep
    <3>2. sale'[s].version \in Nat
      BY <3>1 DEF TypeOK, SaleRow
    <3> QED
      BY <2>1, <3>2, RowGrows, RowTypes
  <2>3. tx[v].version \in Nat /\ tx[v].seen.version \in Nat
    BY FieldTypes DEF SaleRow
  <2>4. Fenced(v)
    OBVIOUS
  <2> QED
    BY <1>1, <2>1, <2>2, <2>3, <2>4 DEF Fenced
<1>2. CASE tx'[v].pc \notin Guarded
  BY <1>2 DEF Fenced
<1>3. ASSUME NEW s \in Sales, NEW version \in 1..MaxVersion,
             NEW status \in SaleStatus, NEW price \in Prices,
             UpdateSaleRead(v, s, version, status, price)
      PROVE  Fenced(v)'
  <2>1. /\ tx'[v].pc = "update" /\ tx'[v].sale = s /\ tx'[v].seen = sale[s]
        /\ tx'[v].version = version /\ tx'[v].target = status
        /\ sale' = sale
    BY <1>3 DEF UpdateSaleRead, TypeOK, Idle, dbvars
  <2> QED
    BY <1>3, <2>1 DEF UpdateSaleRead, TransitionAllowed, Fenced
<1>4. ASSUME NEW r \in Requests, ApproveTariff(v, r) PROVE Fenced(v)'
  <2>1. /\ tx'[v].pc = "apply_read" /\ tx'[v].sale = request[r].sale
        /\ tx'[v].version = request[r].version /\ sale' = sale
    BY <1>4 DEF ApproveTariff, TypeOK, Idle
  <2> QED
    BY <1>4, <2>1 DEF ApproveTariff, Pending, References, Fenced
<1>5. CASE ApplyTariffRead(v)
  <2>1. /\ tx'[v].pc = "apply" /\ tx'[v].sale = tx[v].sale
        /\ tx'[v].seen = sale[tx[v].sale] /\ tx'[v].version = tx[v].version
        /\ sale' = sale
    BY <1>5 DEF ApplyTariffRead, TypeOK, Tx, dbvars
  <2>2. tx[v].version <= sale[tx[v].sale].version
    BY <1>5 DEF ApplyTariffRead, Fenced
  <2> QED
    BY <2>1, <2>2 DEF Fenced
<1>6. CASE Begin(v)
  BY <1>2, <1>3, <1>4, <1>6, BeginPc
<1>7. CASE tx'[v] = Idle
  BY <1>2, <1>7 DEF Idle
<1> QED
  BY <1>1, <1>2, <1>5, <1>6, <1>7, TxStep

(* The amounts of a step's inserts: a payment takes no more than the       *)
(* balance, everything else adds.                                          *)
LEMMA BalanceStep ==
  ASSUME LedgerInv, [Next]_vars, NEW s \in Sales
  PROVE  \/ ledger'[s] = ledger[s]
         \/ /\ Exists(s)
            /\ ledger'[s]["payment"] = ledger[s]["payment"]
            /\ Balance(s)' >= Balance(s)
         \/ /\ Exists(s)
            /\ \E w \in Workers :
                 /\ RecordPaymentCommit(w) /\ tx[w].sale = s
                 /\ Balance(s)' = Balance(s) - tx[w].amount
                 /\ tx[w].amount <= tx[w].balance
                 /\ tx[w].balance = Balance(s)
                 /\ tx[w].seen = sale[s]
                 /\ sale[s].status \in {"active", "completed"}
<1> USE DEF LedgerInv
<1>1. ASSUME NEW w \in Workers, tx[w].sale = s,
             \/ PostCharge(w) \/ ReversePaymentCommit(w)
             \/ ApproveRefundCommit(w)
      PROVE  /\ ledger'[s]["payment"] = ledger[s]["payment"]
             /\ Balance(s)' >= Balance(s)
  <2>1. PICK d \in Nat : \E type \in {"charge", "adjustment", "refund"} :
                           PostEntry(s, type, d)
    BY <1>1, FieldTypes
       DEF PostCharge, ReversePaymentCommit, ApproveRefundCommit
  <2>2. /\ Balance(s)' = Balance(s) + d
        /\ ledger'[s]["payment"] = ledger[s]["payment"]
    BY <2>1, PostBalance DEF EntryType
  <2> QED
    BY <2>1, <2>2, RowTypes
<1>2. ASSUME NEW w \in Workers, tx[w].sale = s, RecordPaymentCommit(w)
      PROVE  Balance(s)' = Balance(s) - tx[w].amount
  <2>1. PICK d \in Nat : d = tx[w].amount
    BY FieldTypes
  <2>2. PostEntry(s, "payment", -d)
    BY <1>2, <2>1 DEF RecordPaymentCommit
  <2>3. Balance(s)' = Balance(s) + (-d)
    BY <2>2, PostBalance DEF EntryType
  <2> QED
    BY <2>1, <2>3, RowTypes
<1>3. ASSUME NEW w \in Workers, tx[w].sale = s, RecordPaymentCommit(w)
      PROVE  /\ tx[w].amount <= tx[w].balance /\ tx[w].balance = Balance(s)
             /\ tx[w].seen = sale[s]
             /\ sale[s].status \in {"active", "completed"}
  BY <1>3 DEF RecordPaymentCommit, HoldsRow
<1>4. ASSUME NEW w \in Workers, tx[w].sale = s, tx[w].pc # "idle"
      PROVE  Exists(s)
  BY <1>4 DEF References, RefersToRows
<1>5. ASSUME NEW w \in Workers,
             \/ PostCharge(w) \/ RecordPaymentCommit(w)
             \/ ReversePaymentCommit(w) \/ ApproveRefundCommit(w)
      PROVE  tx[w].pc # "idle"
  BY <1>5 DEF PostCharge, RecordPaymentCommit, ReversePaymentCommit,
       ApproveRefundCommit
<1> QED
  BY <1>1, <1>2, <1>3, <1>4, <1>5, LedgerStep

(* A charge entry is posted by PostCharge alone. *)
LEMMA ChargesStep ==
  ASSUME TypeOK, References, [Next]_vars, NEW s \in Sales
  PROVE  \/ charges'[s] = charges[s]
         \/ /\ charges'[s] = charges[s] + 1
            /\ \E w \in Workers : PostCharge(w) /\ tx[w].sale = s
<1>1. ASSUME NEW w \in Workers, tx[w].sale = s,
             \/ RecordPaymentCommit(w) \/ ReversePaymentCommit(w)
             \/ ApproveRefundCommit(w)
      PROVE  charges'[s] = charges[s]
  BY <1>1 DEF RecordPaymentCommit, ReversePaymentCommit, ApproveRefundCommit
<1>2. ASSUME NEW w \in Workers, tx[w].sale = s, PostCharge(w)
      PROVE  charges'[s] = charges[s] + 1
  BY <1>2 DEF PostCharge, TypeOK
<1> QED
  BY <1>1, <1>2, LedgerStep

(* WillCharge survives every step. *)
LEMMA WillChargeStep ==
  ASSUME LedgerInv, [Next]_vars, NEW v \in Workers
  PROVE  WillCharge(v)'
<1> SUFFICES ASSUME tx'[v].pc = "charge"
             PROVE  /\ charges'[tx'[v].sale] = 0
                    /\ \A u \in Workers :
                         tx'[u].pc = "charge" /\ tx'[u].sale = tx'[v].sale
                           => u = v
  BY DEF WillCharge
<1> USE DEF LedgerInv
<1>1. ASSUME NEW s \in Sales, NEW u \in Workers, Exists(s),
             tx'[u].pc = "charge", tx'[u].sale = s
      PROVE  tx'[u] = tx[u]
  <2>1. CASE tx'[u] = Idle
    BY <1>1, <2>1 DEF Idle
  <2>2. CASE ApplyTariffRead(u)
    BY <1>1, <2>2 DEF ApplyTariffRead, TypeOK, Tx
  <2>3. CASE Begin(u)
    <3>1. PICK t \in Sales, price \in Prices, p \in Products \cup {None},
               q \in Quantities \cup {1} : CreateSale(u, t, price, p, q)
      BY <1>1, <2>3, BeginPc
    <3>2. t = s
      BY <1>1, <3>1 DEF CreateSale, TypeOK, Idle
    <3> QED
      BY <1>1, <3>1, <3>2 DEF CreateSale, FirstUse
  <2> QED
    BY <2>1, <2>2, <2>3, TxStep
<1>2. CASE tx'[v] = tx[v]
  <2>1. PICK s \in Sales : tx[v].sale = s /\ Exists(s)
    BY <1>2 DEF References, RefersToRows
  <2>2. ASSUME NEW w \in Workers, PostCharge(w), tx[w].sale = s
        PROVE  FALSE
    <3>1. w = v
      BY <1>2, <2>1, <2>2 DEF PostCharge, WillCharge
    <3> QED
      BY <2>2, <3>1 DEF PostCharge, Finish, Idle, TypeOK
  <2>3. charges'[s] = 0
    BY <1>2, <2>1, <2>2, ChargesStep DEF WillCharge
  <2>4. ASSUME NEW u \in Workers, tx'[u].pc = "charge", tx'[u].sale = s
        PROVE  u = v
    BY <1>1, <1>2, <2>1, <2>4 DEF WillCharge
  <2> QED
    BY <1>2, <2>1, <2>3, <2>4
<1>3. CASE Begin(v)
  <2>1. PICK s \in Sales, price \in Prices, p \in Products \cup {None},
             q \in Quantities \cup {1} : CreateSale(v, s, price, p, q)
    BY <1>3, BeginPc
  <2>2. tx'[v].sale = s /\ charges' = charges /\ ~Exists(s)
    BY <2>1 DEF CreateSale, FirstUse, TypeOK, Idle
  <2>3. charges'[s] = 0
    BY <2>2 DEF NothingPosted
  <2>4. ASSUME NEW u \in Workers, tx'[u].pc = "charge", tx'[u].sale = s, u # v
        PROVE  FALSE
    <3>1. tx'[u] = tx[u]
      BY <2>1, <2>4, OneMoves DEF CreateSale
    <3> QED
      BY <2>2, <2>4, <3>1 DEF References, RefersToRows
  <2> QED
    BY <2>2, <2>3, <2>4
<1>4. CASE tx'[v] = Idle
  BY <1>4 DEF Idle
<1>5. CASE ApplyTariffRead(v)
  BY <1>5 DEF ApplyTariffRead, TypeOK, Tx
<1> QED
  BY <1>2, <1>3, <1>4, <1>5, TxStep

(* NothingPosted survives every step. *)
LEMMA NothingPostedStep ==
  ASSUME LedgerInv, [Next]_vars, NEW s \in Sales
  PROVE  NothingPosted(s)'
<1> USE DEF LedgerInv
<1>1. CASE Exists(s)
  BY <1>1, RowGrows DEF NothingPosted
<1>2. CASE ~Exists(s)
  <2>1. ASSUME NEW w \in Workers, tx[w].sale = s, PostCharge(w)
        PROVE  FALSE
    BY <1>2, <2>1 DEF PostCharge, References, RefersToRows
  <2> QED
    BY <1>2, <2>1, ChargesStep, BalanceStep DEF NothingPosted
<1> QED
  BY <1>1, <1>2


(* KnowsEntry survives every step. *)
LEMMA KnowsEntryStep ==
  ASSUME LedgerInv, [Next]_vars, NEW v \in Workers
  PROVE  KnowsEntry(v)'
<1> USE DEF LedgerInv
<1>1. ASSUME NEW k \in Payments, NEW w \in Workers,
             tx[w].pc = "pay", tx[w].pay = k
      PROVE  /\ payment[k].status = "absent"
             /\ \A u \in Workers : tx[u].pc = "pay" /\ tx[u].pay = k => u = w
  BY <1>1 DEF KnowsEntry
<1>2. ASSUME NEW k \in Payments, tx[v].pc = "pay", tx[v].pay = k,
             tx'[v] = tx[v]
      PROVE  /\ payment'[k].status = "absent"
             /\ \A u \in Workers : tx'[u].pc = "pay" /\ tx'[u].pay = k => u = v
  <2>1. ASSUME NEW w \in Workers, RecordPaymentCommit(w), tx[w].pay = k
        PROVE  FALSE
    <3>1. w = v
      BY <1>1, <1>2, <2>1 DEF RecordPaymentCommit
    <3> QED
      BY <1>2, <2>1, <3>1 DEF RecordPaymentCommit, Finish, Idle, TypeOK
  <2>2. payment'[k] = payment[k]
    BY <1>1, <1>2, <2>1, PaymentRowStep
  <2>3. ASSUME NEW u \in Workers, tx'[u].pc = "pay", tx'[u].pay = k
        PROVE  u = v
    <3>1. CASE tx'[u] = tx[u]
      BY <1>1, <1>2, <2>3, <3>1
    <3>2. CASE tx'[u] = Idle
      BY <2>3, <3>2 DEF Idle
    <3>3. CASE ApplyTariffRead(u)
      BY <2>3, <3>3 DEF ApplyTariffRead, TypeOK, Tx
    <3>4. CASE Begin(u)
      <4>1. PICK s \in Sales, l \in Payments, amount \in Amounts :
              RecordPaymentLock(u, s, l, amount)
        BY <2>3, <3>4, BeginPc
      <4>2. l = k
        BY <2>3, <4>1 DEF RecordPaymentLock, TypeOK, Idle
      <4> QED
        BY <1>2, <4>1, <4>2 DEF RecordPaymentLock, KeyInFlight
    <3> QED
      BY <3>1, <3>2, <3>3, <3>4, TxStep
  <2> QED
    BY <1>1, <1>2, <2>2, <2>3
<1>3. ASSUME NEW k \in Payments, payment[k].status # "absent"
      PROVE  /\ payment'[k].status # "absent"
             /\ payment'[k].sale = payment[k].sale
             /\ payment'[k].amount = payment[k].amount
  <2>1. ASSUME NEW w \in Workers, RecordPaymentCommit(w), tx[w].pay = k
        PROVE  FALSE
    BY <1>1, <1>3, <2>1 DEF RecordPaymentCommit
  <2> QED
    BY <1>3, <2>1, PaymentRowStep
<1>4. ASSUME NEW r \in Requests, request[r].status # "absent"
      PROVE  /\ request'[r].status # "absent"
             /\ request'[r].type = request[r].type
             /\ request'[r].sale = request[r].sale
             /\ request'[r].amount = request[r].amount
  BY <1>4, RequestRowStep
<1>5. CASE tx'[v] = tx[v]
  <2>1. CASE tx[v].pc = "pay"
    BY <1>2, <1>5, <2>1 DEF KnowsEntry, References, RefersToRows
  <2>2. CASE tx[v].pc = "reverse"
    BY <1>3, <1>5, <2>2 DEF KnowsEntry, References, RefersToRows
  <2>3. CASE tx[v].pc = "refund"
    BY <1>4, <1>5, <2>3 DEF KnowsEntry, References, RefersToRows
  <2> QED
    BY <1>5, <2>1, <2>2, <2>3 DEF KnowsEntry
<1>6. CASE tx'[v].pc \notin {"pay", "reverse", "refund"}
  BY <1>6 DEF KnowsEntry
<1>7. ASSUME NEW s \in Sales, NEW k \in Payments, NEW amount \in Amounts,
             RecordPaymentLock(v, s, k, amount)
      PROVE  KnowsEntry(v)'
  <2>1. /\ tx'[v].pc = "pay" /\ tx'[v].pay = k /\ payment' = payment
        /\ payment[k].status = "absent"
    BY <1>7 DEF RecordPaymentLock, TypeOK, Idle, dbvars
  <2>2. ASSUME NEW u \in Workers, tx'[u].pc = "pay", tx'[u].pay = k, u # v
        PROVE  FALSE
    <3>1. tx'[u] = tx[u]
      BY <1>7, <2>2, OneMoves DEF RecordPaymentLock
    <3> QED
      BY <1>7, <2>2, <3>1 DEF RecordPaymentLock, KeyInFlight
  <2> QED
    BY <2>1, <2>2 DEF KnowsEntry
<1>8. ASSUME NEW k \in Payments, ReversePaymentRead(v, k)
      PROVE  KnowsEntry(v)'
  <2>1. /\ tx'[v].pc = "reverse" /\ tx'[v].pay = k /\ payment' = payment
        /\ tx'[v].sale = payment[k].sale /\ tx'[v].amount = payment[k].amount
        /\ payment[k].status = "recorded"
    BY <1>8 DEF ReversePaymentRead, TypeOK, Idle, dbvars
  <2> QED
    BY <2>1 DEF KnowsEntry
<1>9. ASSUME NEW r \in Requests, ApproveRefundRead(v, r)
      PROVE  KnowsEntry(v)'
  <2>1. /\ tx'[v].pc = "refund" /\ tx'[v].req = r /\ request' = request
        /\ tx'[v].sale = request[r].sale /\ tx'[v].amount = request[r].amount
        /\ request[r].status = "pending" /\ request[r].type = "refund"
    BY <1>9 DEF ApproveRefundRead, TypeOK, Idle, dbvars
  <2> QED
    BY <2>1 DEF KnowsEntry
<1>10. CASE Begin(v)
  BY <1>6, <1>7, <1>8, <1>9, <1>10, BeginPc
<1>11. CASE tx'[v] = Idle
  BY <1>6, <1>11 DEF Idle
<1>12. CASE ApplyTariffRead(v)
  <2>1. tx'[v].pc = "apply"
    BY <1>12 DEF ApplyTariffRead, TypeOK, Tx
  <2> QED
    BY <1>6, <2>1
<1> QED
  BY <1>5, <1>10, <1>11, <1>12, TxStep

(* A table that gains one row at most stays finite. *)
LEMMA OneMoreRow ==
  ASSUME NEW S, IsFiniteSet(S), NEW T, NEW x, T \subseteq S \cup {x}
  PROVE  IsFiniteSet(T)
  BY FS_AddElement, FS_Subset

(* FiniteTables survives every step: one action inserts one row. *)
LEMMA FiniteTablesStep == LedgerInv /\ [Next]_vars => FiniteTables'
<1> SUFFICES ASSUME LedgerInv, [Next]_vars PROVE FiniteTables'
  OBVIOUS
<1> USE DEF LedgerInv
<1>1. \E x : \A s \in Sales : Exists(s)' => Exists(s) \/ s = x
  <2>1. ASSUME NEW w \in Workers, NEW t \in Sales, NEW price, NEW p, NEW q,
               CreateSale(w, t, price, p, q)
        PROVE  \A s \in Sales : Exists(s)' => Exists(s) \/ s = t
    BY <2>1 DEF CreateSale, Exists, TypeOK
  <2>2. ASSUME NEW s \in Sales, ~Exists(s), Exists(s)'
        PROVE  \E w \in Workers, price \in Prices,
                  p \in Products \cup {None}, q \in Quantities \cup {1} :
                 CreateSale(w, s, price, p, q)
    <3>1. ASSUME NEW w \in Workers, tx[w].sale = s, tx[w].pc # "idle"
          PROVE  FALSE
      BY <2>2, <3>1 DEF References, RefersToRows
    <3>2. ASSUME NEW w \in Workers, tx[w].sale = s,
                 \/ UpdateSaleWrite(w) \/ ApplyTariffWrite(w)
                 \/ RecordPaymentCommit(w) \/ ReversePaymentCommit(w)
          PROVE  FALSE
      BY <3>1, <3>2 DEF UpdateSaleWrite, ApplyTariffWrite,
           RecordPaymentCommit, ReversePaymentCommit
    <3>3. sale'[s] # sale[s]
      BY <2>2 DEF Exists
    <3> QED
      BY <3>2, <3>3, SaleStep
  <2> QED
    BY <2>1, <2>2
<1>2. \E x : \A k \in Payments :
        payment'[k].status # "absent" => payment[k].status # "absent" \/ k = x
  <2>1. CASE payment' = payment
    BY <2>1
  <2>2. ASSUME NEW w \in Workers, RecordPaymentCommit(w)
        PROVE  \A k \in Payments : k # tx[w].pay => payment'[k] = payment[k]
    BY <2>2 DEF RecordPaymentCommit, TypeOK
  <2>3. ASSUME NEW w \in Workers, ReversePaymentCommit(w)
        PROVE  \A k \in Payments :
                 payment'[k].status # "absent" => payment[k].status # "absent"
    BY <2>3 DEF ReversePaymentCommit, Unreversed, TypeOK
  <2> QED
    BY <2>1, <2>2, <2>3, PaymentsStep
<1>3. \E x : \A r \in Requests :
        request'[r].status # "absent" => request[r].status # "absent" \/ r = x
  BY RequestRowStep
<1> DEFINE paid == {k \in Payments : payment[k].status # "absent"}
           filed == {r \in Requests : request[r].status # "absent"}
<1>4. IsFiniteSet({s \in Sales : Exists(s)'})
  BY <1>1, OneMoreRow DEF FiniteTables
<1>5. IsFiniteSet({k \in Payments : payment'[k].status # "absent"})
  <2>1. PICK x : {k \in Payments : payment'[k].status # "absent"}
                   \subseteq paid \cup {x}
    BY <1>2
  <2>2. IsFiniteSet(paid)
    BY DEF FiniteTables
  <2> QED
    BY <2>1, <2>2, OneMoreRow
<1>6. IsFiniteSet({r \in Requests : request'[r].status # "absent"})
  <2>1. PICK x : {r \in Requests : request'[r].status # "absent"}
                   \subseteq filed \cup {x}
    BY <1>3
  <2>2. IsFiniteSet(filed)
    BY DEF FiniteTables
  <2> QED
    BY <2>1, <2>2, OneMoreRow
<1> QED
  BY <1>4, <1>5, <1>6 DEF FiniteTables

-----------------------------------------------------------------------------
(* The properties *)

(* No step makes a balance negative. *)
LEMMA BalanceNeverNegativeStep ==
  LedgerInv /\ [Next]_vars => BalanceNeverNegative'
<1> SUFFICES ASSUME LedgerInv, [Next]_vars, NEW s \in Sales
             PROVE  Balance(s)' >= 0
  BY DEF BalanceNeverNegative
<1> USE DEF LedgerInv
<1>1. Balance(s) \in Int /\ Balance(s) >= 0
  BY RowTypes DEF BalanceNeverNegative
<1>2. CASE ledger'[s] = ledger[s]
  BY <1>1, <1>2 DEF Balance
<1>3. CASE Balance(s)' >= Balance(s)
  <2>1. Balance(s)' \in Int
    BY TypeStep DEF TypeOK, LedgerRow, EntryType, Balance
  <2> QED
    BY <1>1, <1>3, <2>1
<1>4. ASSUME NEW w \in Workers, Balance(s)' = Balance(s) - tx[w].amount,
             tx[w].amount <= tx[w].balance, tx[w].balance = Balance(s)
      PROVE  Balance(s)' >= 0
  BY <1>1, <1>4, FieldTypes
<1> QED
  BY <1>2, <1>3, <1>4, BalanceStep

(* What a write through the version check stores is based on the row. *)
LEMMA WriteSeesRow ==
  ASSUME LedgerInv, NEW w \in Workers, NEW s \in Sales, tx[w].sale = s,
         tx[w].pc \in {"update", "apply"}, sale[s].version = tx[w].version
  PROVE  tx[w].seen = sale[s]
<1>1. /\ tx[w].version <= tx[w].seen.version
      /\ \/ tx[w].seen = sale[s]
         \/ tx[w].seen.version < sale[s].version
  BY DEF LedgerInv, Fenced
<1>2. /\ tx[w].version \in Nat /\ tx[w].seen.version \in Nat
      /\ sale[s].version \in Nat
  BY FieldTypes, RowTypes DEF LedgerInv, SaleRow
<1> QED
  BY <1>1, <1>2

(* The five ways a sale's status and price change, spelled out. *)
LEMMA StatusStep ==
  ASSUME LedgerInv, [Next]_vars, NEW s \in Sales, Exists(s)
  PROVE  \/ sale'[s] = sale[s] /\ audit'[s] = audit[s]
         \/ /\ sale[s].status \in Terminal => sale'[s].status = sale[s].status
            /\ sale'[s].status = "active" => sale[s].status = "active"
            /\ ledger'[s] = ledger[s]
            /\ audit[s] = [status |-> sale[s].status, price |-> sale[s].price]
                 => audit'[s] = [status |-> sale'[s].status,
                                 price |-> sale'[s].price]
         \/ /\ sale[s].status = "active" /\ sale'[s].status = "completed"
            /\ sale'[s].price = sale[s].price
            /\ audit'[s] = [audit[s] EXCEPT !.status = "completed"]
         \/ /\ sale[s].status = "completed" /\ sale'[s].status = "active"
            /\ sale'[s].price = sale[s].price
            /\ audit'[s] = [audit[s] EXCEPT !.status = "active"]
            /\ Balance(s)' > 0
<1> USE DEF LedgerInv
<1>1. ASSUME NEW status, NEW price
      PROVE  /\ Updated(sale[s], status, price).status = status
             /\ Updated(sale[s], status, price).price = price
  BY RowTypes DEF Updated, SaleRow
<1>2. ASSUME NEW w \in Workers, tx[w].sale = s,
             UpdateSaleWrite(w) \/ ApplyTariffWrite(w)
      PROVE  tx[w].seen = sale[s]
  BY <1>2, WriteSeesRow DEF UpdateSaleWrite, ApplyTariffWrite, VersionMatches
<1>3. ASSUME NEW status, NEW price
      PROVE  AuditDiff(s, sale[s], status, price)[s] =
               [status |-> IF sale[s].status # status THEN status
                                                      ELSE audit[s].status,
                price |-> IF sale[s].price # price THEN price
                                                   ELSE audit[s].price]
  BY DEF AuditDiff, TypeOK
<1>4. ASSUME NEW w \in Workers, tx[w].sale = s, UpdateSaleWrite(w)
      PROVE  /\ sale[s].status \in Terminal => sale'[s].status = sale[s].status
             /\ sale'[s].status = "active" => sale[s].status = "active"
             /\ ledger'[s] = ledger[s]
             /\ audit[s] = [status |-> sale[s].status, price |-> sale[s].price]
                 => audit'[s] = [status |-> sale'[s].status,
                                 price |-> sale'[s].price]
  <2>1. sale'[s] = Updated(sale[s], tx[w].target, tx[w].price)
    BY <1>4 DEF UpdateSaleWrite, TypeOK
  <2>2. sale'[s].status = tx[w].target /\ sale'[s].price = tx[w].price
    BY <1>1, <2>1
  <2>3. sale[s].status \in Terminal => tx[w].target = sale[s].status
    BY <1>2, <1>4 DEF UpdateSaleWrite, Fenced
  <2>4. audit' = AuditDiff(s, sale[s], tx[w].target, tx[w].price)
    BY <1>2, <1>4 DEF UpdateSaleWrite
  <2>5. sale[s].status \in SaleStatus
    BY RowTypes DEF Exists
  <2> QED
    BY <1>3, <1>4, <2>2, <2>3, <2>4, <2>5
       DEF UpdateSaleWrite, Terminal, SaleStatus
<1>5. ASSUME NEW w \in Workers, tx[w].sale = s, ApplyTariffWrite(w)
      PROVE  /\ sale'[s].status = sale[s].status
             /\ ledger'[s] = ledger[s]
             /\ audit[s] = [status |-> sale[s].status, price |-> sale[s].price]
                 => audit'[s] = [status |-> sale'[s].status,
                                 price |-> sale'[s].price]
  <2>1. sale'[s] = Updated(sale[s], sale[s].status, tx[w].price)
    BY <1>5 DEF ApplyTariffWrite, TypeOK
  <2>2. sale'[s].status = sale[s].status /\ sale'[s].price = tx[w].price
    BY <1>1, <2>1
  <2>3. audit' = AuditDiff(s, sale[s], sale[s].status, tx[w].price)
    BY <1>2, <1>5 DEF ApplyTariffWrite
  <2> QED
    BY <1>3, <1>5, <2>2, <2>3 DEF ApplyTariffWrite
<1>6. ASSUME NEW status, SetStatus(s, status)
      PROVE  /\ sale'[s].status = status /\ sale'[s].price = sale[s].price
             /\ audit'[s] = [audit[s] EXCEPT !.status = status]
  <2>1. sale'[s] = Updated(sale[s], status, sale[s].price)
    BY <1>6 DEF SetStatus, TypeOK
  <2> QED
    BY <1>1, <1>6, <2>1 DEF SetStatus, TypeOK
<1>7. ASSUME NEW w \in Workers, tx[w].sale = s, RecordPaymentCommit(w),
             tx[w].seen.status = "active"
      PROVE  sale[s].status = "active"
  BY <1>7 DEF RecordPaymentCommit, HoldsRow
<1>8. ASSUME NEW w \in Workers, tx[w].sale = s, ReversePaymentCommit(w),
             Balance(s) + tx[w].amount > 0
      PROVE  Balance(s)' > 0
  <2>1. PICK d \in Nat : d = tx[w].amount
    BY FieldTypes
  <2>2. PostEntry(s, "adjustment", d)
    BY <1>8, <2>1 DEF ReversePaymentCommit
  <2>3. Balance(s)' = Balance(s) + d
    BY <2>2, PostBalance DEF EntryType
  <2> QED
    BY <1>8, <2>1, <2>3
<1>9. ASSUME NEW w \in Workers, NEW price, NEW p, NEW q,
             CreateSale(w, s, price, p, q)
      PROVE  FALSE
  BY <1>9 DEF CreateSale, FirstUse
<1> QED
  BY <1>4, <1>5, <1>6, <1>7, <1>8, <1>9, SaleStep


(* No step leaves a partly paid sale active with nothing owed. *)
LEMMA OwedWhileActiveStep ==
  LedgerInv /\ [Next]_vars => OwedWhileActive'
<1> SUFFICES ASSUME LedgerInv, [Next]_vars, NEW s \in Sales,
                    sale'[s].status = "active", ledger'[s]["payment"] < 0
             PROVE  Balance(s)' > 0
  BY DEF OwedWhileActive
<1> USE DEF LedgerInv
<1>1. Exists(s)
  <2>1. CASE ~Exists(s)
    <3>1. ledger'[s] = ledger[s]
      BY <2>1, BalanceStep
    <3>2. ledger[s]["payment"] = 0
      BY <2>1 DEF NothingPosted, NoEntries, EntryType
    <3> QED
      BY <3>1, <3>2
  <2> QED
    BY <2>1
<1>2. Balance(s) \in Int /\ Balance(s)' \in Int
  BY RowTypes, TypeStep DEF TypeOK, LedgerRow, EntryType, Balance
<1>3. \/ sale[s].status = "active"
      \/ Balance(s)' > 0
  BY <1>1, StatusStep
<1>4. CASE ledger'[s] = ledger[s]
  <2>1. Balance(s)' = Balance(s)
    BY <1>4 DEF Balance
  <2> QED
    BY <1>2, <1>3, <1>4, <2>1 DEF OwedWhileActive
<1>5. CASE /\ ledger'[s]["payment"] = ledger[s]["payment"]
           /\ Balance(s)' >= Balance(s)
  BY <1>2, <1>3, <1>5 DEF OwedWhileActive
<1>6. ASSUME NEW w \in Workers, RecordPaymentCommit(w), tx[w].sale = s,
             Balance(s)' = Balance(s) - tx[w].amount,
             tx[w].balance = Balance(s), tx[w].seen = sale[s]
      PROVE  Balance(s)' > 0
  <2>1. ASSUME SetStatus(s, "completed") PROVE FALSE
    <3>1. sale'[s] = Updated(sale[s], "completed", sale[s].price)
      BY <2>1 DEF SetStatus, TypeOK
    <3> QED
      BY <3>1, RowTypes DEF Updated, SaleRow
  <2>2. /\ ~(tx[w].balance - tx[w].amount <= 0 /\ tx[w].seen.status = "active")
        /\ sale' = sale
    BY <1>6, <2>1 DEF RecordPaymentCommit
  <2>3. tx[w].balance - tx[w].amount > 0
    BY <1>6, <2>2, FieldTypes
  <2> QED
    BY <1>2, <1>6, <2>3, FieldTypes
<1> QED
  BY <1>4, <1>5, <1>6, BalanceStep

(* Every change of a sale's status or price is in its audit trail. *)
LEMMA AuditTrailReplaysStep ==
  LedgerInv /\ [Next]_vars => AuditTrailReplays'
<1> SUFFICES ASSUME LedgerInv, [Next]_vars, NEW s \in Sales, Exists(s)'
             PROVE  audit'[s] = [status |-> sale'[s].status,
                                 price |-> sale'[s].price]
  BY DEF AuditTrailReplays
<1> USE DEF LedgerInv
<1>1. CASE Exists(s)
  <2>1. audit[s] = [status |-> sale[s].status, price |-> sale[s].price]
    BY <1>1 DEF AuditTrailReplays
  <2>2. \A status : [audit[s] EXCEPT !.status = status] =
                      [status |-> status, price |-> sale[s].price]
    BY <2>1
  <2>3. CASE sale'[s] = sale[s] /\ audit'[s] = audit[s]
    BY <2>1, <2>3
  <2>4. ASSUME audit[s] = [status |-> sale[s].status, price |-> sale[s].price]
                 => audit'[s] = [status |-> sale'[s].status,
                                 price |-> sale'[s].price]
        PROVE  audit'[s] = [status |-> sale'[s].status,
                            price |-> sale'[s].price]
    BY <2>1, <2>4
  <2>5. ASSUME NEW status, sale'[s].status = status,
               sale'[s].price = sale[s].price,
               audit'[s] = [audit[s] EXCEPT !.status = status]
        PROVE  audit'[s] = [status |-> sale'[s].status,
                            price |-> sale'[s].price]
    BY <2>2, <2>5
  <2> QED
    BY <1>1, <2>3, <2>4, <2>5, StatusStep
<1>2. CASE ~Exists(s)
  <2>1. ASSUME NEW w \in Workers, NEW price, NEW p, NEW q,
               CreateSale(w, s, price, p, q)
        PROVE  audit'[s] = [status |-> sale'[s].status,
                            price |-> sale'[s].price]
    BY <2>1 DEF CreateSale, TypeOK
  <2>2. sale'[s] # sale[s]
    BY <1>2 DEF Exists
  <2>3. ASSUME NEW w \in Workers, tx[w].sale = s, tx[w].pc # "idle"
        PROVE  FALSE
    BY <1>2, <2>3 DEF References, RefersToRows
  <2>4. ASSUME NEW w \in Workers, tx[w].sale = s,
               \/ UpdateSaleWrite(w) \/ ApplyTariffWrite(w)
               \/ RecordPaymentCommit(w) \/ ReversePaymentCommit(w)
        PROVE  FALSE
    BY <2>3, <2>4 DEF UpdateSaleWrite, ApplyTariffWrite,
         RecordPaymentCommit, ReversePaymentCommit
  <2> QED
    BY <2>1, <2>2, <2>4, SaleStep
<1> QED
  BY <1>1, <1>2

(* No step charges a sale that has its charge. *)
LEMMA ChargedAtMostOnceStep ==
  LedgerInv /\ [Next]_vars => ChargedAtMostOnce'
<1> SUFFICES ASSUME LedgerInv, [Next]_vars, NEW s \in Sales
             PROVE  charges'[s] <= 1
  BY DEF ChargedAtMostOnce
<1>1. ASSUME NEW w \in Workers, PostCharge(w), tx[w].sale = s
      PROVE  charges[s] = 0
  BY <1>1 DEF LedgerInv, PostCharge, WillCharge
<1> QED
  BY <1>1, ChargesStep DEF LedgerInv, ChargedAtMostOnce

(* The invariant holds at the start: nobody is in flight, nothing exists. *)
LEMMA LedgerInvInit == Init => LedgerInv
<1> SUFFICES ASSUME Init PROVE LedgerInv
  OBVIOUS
<1>1. TypeOK
  BY TypeInit
<1>2. /\ \A w \in Workers : tx[w].pc = "idle"
      /\ \A s \in Sales : ~Exists(s) /\ sale[s].status = "absent"
                            /\ ledger[s] = NoEntries /\ charges[s] = 0
      /\ \A k \in Payments : payment[k].status = "absent"
      /\ \A r \in Requests : request[r].status = "absent"
  BY DEF Init, Idle, Exists, NoSale, NoPayment, NoRequest
<1>3. References
  BY <1>2 DEF References, RefersToRows
<1>4. \A w \in Workers :
        HoldsRow(w) /\ Fenced(w) /\ WillCharge(w) /\ KnowsEntry(w)
  BY <1>2 DEF HoldsRow, Fenced, WillCharge, KnowsEntry
<1>5. BalanceNeverNegative
  BY <1>2 DEF BalanceNeverNegative, Balance, NoEntries, EntryType
<1>6. FiniteTables
  <2>1. /\ {s \in Sales : Exists(s)} = {}
        /\ {k \in Payments : payment[k].status # "absent"} = {}
        /\ {r \in Requests : request[r].status # "absent"} = {}
    BY <1>2
  <2> QED
    BY <2>1, FS_EmptySet DEF FiniteTables
<1> QED
  BY <1>1, <1>2, <1>3, <1>4, <1>5, <1>6
     DEF LedgerInv, NothingPosted, OwedWhileActive, AuditTrailReplays,
         ChargedAtMostOnce

(* The invariant survives every step. *)
LEMMA LedgerInvStep == LedgerInv /\ [Next]_vars => LedgerInv'
<1> SUFFICES ASSUME LedgerInv, [Next]_vars PROVE LedgerInv'
  OBVIOUS
<1>1. TypeOK' /\ References'
  BY TypeStep, ReferencesStep DEF LedgerInv
<1>2. \A w \in Workers :
        HoldsRow(w)' /\ Fenced(w)' /\ WillCharge(w)' /\ KnowsEntry(w)'
  BY HoldsRowStep, FencedStep, WillChargeStep, KnowsEntryStep
<1>3. \A s \in Sales : NothingPosted(s)'
  BY NothingPostedStep
<1> QED
  BY <1>1, <1>2, <1>3, FiniteTablesStep, BalanceNeverNegativeStep,
     OwedWhileActiveStep, AuditTrailReplaysStep, ChargedAtMostOnceStep
     DEF LedgerInv

(* LedgerInv, the inductive invariant, always holds. *)
THEOREM LedgerCorrect == Spec => []LedgerInv
  BY LedgerInvInit, LedgerInvStep, PTL DEF Spec

(* Every variable holds rows of its table. *)
THEOREM TypeCorrect == Spec => []TypeOK
<1>1. LedgerInv => TypeOK
  BY DEF LedgerInv
<1> QED
  BY <1>1, LedgerCorrect, PTL

(* No interleaving takes more for a sale than it was charged. *)
THEOREM NeverOverpaid == Spec => []BalanceNeverNegative
<1>1. LedgerInv => BalanceNeverNegative
  BY DEF LedgerInv
<1> QED
  BY <1>1, LedgerCorrect, PTL

(* An active sale some payment was taken for is still owed for. *)
THEOREM ActiveMeansOwed == Spec => []OwedWhileActive
<1>1. LedgerInv => OwedWhileActive
  BY DEF LedgerInv
<1> QED
  BY <1>1, LedgerCorrect, PTL

(* sale_changes replayed from the created row gives the row. *)
THEOREM AuditTrailComplete == Spec => []AuditTrailReplays
<1>1. LedgerInv => AuditTrailReplays
  BY DEF LedgerInv
<1> QED
  BY <1>1, LedgerCorrect, PTL

(* However often POST /sales is repeated, a sale is charged at most once. *)
THEOREM NeverChargedTwice == Spec => []ChargedAtMostOnce
<1>1. LedgerInv => ChargedAtMostOnce
  BY DEF LedgerInv
<1> QED
  BY <1>1, LedgerCorrect, PTL

-----------------------------------------------------------------------------
(* What the tables add up to *)

Units(p) == Total([s \in SoldOf(p) |-> sale[s].quantity], SoldOf(p))

UnitsConserved == \A p \in Products : supplied[p] = stock[p] + Units(p)

(* The sum of StockConserved is a Total. *)
LEMMA StockAsTotals == StockConserved <=> UnitsConserved
<1>1. ASSUME NEW p
      PROVE  MapThenSumSet(LAMBDA s : sale[s].quantity, SoldOf(p)) = Units(p)
  BY DEF Units, Total, MapThenSumSet, MapThenFoldSet
<1> QED
  BY <1>1 DEF StockConserved, UnitsConserved

InForce(s) == sale[s].status \in {"active", "completed"}

UnitsStay ==
  \A s \in Sales : /\ InForce(s)' <=> InForce(s)
                   /\ InForce(s) => /\ sale'[s].product = sale[s].product
                                    /\ sale'[s].quantity = sale[s].quantity

(* A step creates a sale, cancels one, or leaves the units of every sale   *)
(* where they are.                                                         *)
LEMMA UnitsStep ==
  ASSUME LedgerInv, [Next]_vars
  PROVE  \/ \E w \in Workers, s \in Sales, price \in Prices,
               p \in Products \cup {None}, q \in Quantities \cup {1} :
              CreateSale(w, s, price, p, q)
         \/ \E w \in Workers : /\ UpdateSaleWrite(w) /\ InForce(tx[w].sale)
                              /\ tx[w].target = "cancelled"
         \/ /\ UnitsStay
            /\ \/ stock' = stock /\ supplied' = supplied
               \/ \E p \in Products, delta \in {-1, 1} : AdjustStock(p, delta)
<1> USE DEF LedgerInv
<1> DEFINE Creates == \E w \in Workers, s \in Sales, price \in Prices,
                         p \in Products \cup {None},
                         q \in Quantities \cup {1} :
                        CreateSale(w, s, price, p, q)
           Cancels == \E w \in Workers : /\ UpdateSaleWrite(w)
                                        /\ InForce(tx[w].sale)
                                        /\ tx[w].target = "cancelled"
<1>1. ASSUME NEW w \in Workers, UpdateSaleWrite(w)
      PROVE  /\ tx[w].sale \in Sales /\ Exists(tx[w].sale)
             /\ tx[w].seen = sale[tx[w].sale]
             /\ ~InForce(tx[w].sale) => tx[w].target = "cancelled"
  <2>1. tx[w].sale \in Sales /\ Exists(tx[w].sale)
    BY <1>1 DEF UpdateSaleWrite, References, RefersToRows
  <2>2. tx[w].seen = sale[tx[w].sale]
    BY <1>1, <2>1, WriteSeesRow DEF UpdateSaleWrite, VersionMatches
  <2>3. ~InForce(tx[w].sale) => sale[tx[w].sale].status = "cancelled"
    BY <2>1, RowTypes DEF InForce, Exists, SaleStatus
  <2> QED
    BY <1>1, <2>1, <2>2, <2>3 DEF UpdateSaleWrite, Fenced, Terminal
<1>2. ASSUME NEW w \in Workers, UpdateSaleWrite(w), ~Cancels
      PROVE  stock' = stock /\ supplied' = supplied
  <2>1. CASE InForce(tx[w].sale)
    BY <1>2, <2>1 DEF UpdateSaleWrite, Restock
  <2>2. CASE ~InForce(tx[w].sale)
    <3>1. tx[w].seen.status = "cancelled"
      BY <1>1, <1>2, <2>2, RowTypes DEF InForce, Exists, SaleStatus
    <3> QED
      BY <1>2, <3>1 DEF UpdateSaleWrite, Restock
  <2> QED
    BY <2>1, <2>2
<1>3. ASSUME ~Creates, ~Cancels
      PROVE  \/ stock' = stock /\ supplied' = supplied
             \/ \E p \in Products, delta \in {-1, 1} : AdjustStock(p, delta)
  <2>1. CASE Replay \/ Desk \/ UNCHANGED vars
    BY <2>1 DEF Replay, Desk, ReplayCreateSale, ReplayApprove,
         CreateRefundRequest, CreateTariffRequest, RejectRequest,
         dbvars, histvars, vars
  <2>2. ASSUME NEW w \in Workers, Begin(w)
        PROVE  stock' = stock /\ supplied' = supplied
    <3>1. ~Create(w)
      BY <1>3 DEF Create
    <3> QED
      BY <2>2, <3>1 DEF Begin, UpdateSaleRead, RecordPaymentLock,
           ReversePaymentRead, ApproveRefundRead, ApproveTariff,
           dbvars, histvars
  <2>3. ASSUME NEW w \in Workers, Continue(w) \/ Crash(w), ~UpdateSaleWrite(w)
        PROVE  stock' = stock /\ supplied' = supplied
    BY <2>3 DEF Continue, PostCharge, VersionConflict, RecordPaymentCommit,
         ReversePaymentCommit, ReversePaymentLate, ApproveRefundCommit,
         ApproveRefundLate, ApplyTariffRead, ApplyTariffWrite, Crash,
         dbvars, histvars
  <2> QED
    BY <1>2, <1>3, <2>1, <2>2, <2>3 DEF Next
<1>4. ASSUME ~Creates, ~Cancels, NEW s \in Sales
      PROVE  /\ InForce(s)' <=> InForce(s)
             /\ InForce(s) => /\ sale'[s].product = sale[s].product
                              /\ sale'[s].quantity = sale[s].quantity
  <2>1. ASSUME NEW status, NEW price,
               sale' = [sale EXCEPT ![s] = Updated(@, status, price)]
        PROVE  /\ sale'[s].status = status
               /\ sale'[s].product = sale[s].product
               /\ sale'[s].quantity = sale[s].quantity
    BY <2>1 DEF Updated, TypeOK, SaleRow
  <2>2. CASE sale'[s] = sale[s]
    BY <2>2 DEF InForce
  <2>3. ASSUME NEW w \in Workers, UpdateSaleWrite(w), tx[w].sale = s
        PROVE  /\ InForce(s)' <=> InForce(s)
               /\ sale'[s].product = sale[s].product
               /\ sale'[s].quantity = sale[s].quantity
    <3>1. /\ sale'[s].status = tx[w].target
          /\ sale'[s].product = sale[s].product
          /\ sale'[s].quantity = sale[s].quantity
      BY <2>1, <2>3 DEF UpdateSaleWrite
    <3>2. InForce(s) => tx[w].target \in {"active", "completed"}
      BY <1>4, <2>3, FieldTypes DEF SaleStatus
    <3>3. ~InForce(s) => tx[w].target = "cancelled"
      BY <1>1, <2>3
    <3> QED
      BY <3>1, <3>2, <3>3 DEF InForce
  <2>4. ASSUME NEW w \in Workers, ApplyTariffWrite(w), tx[w].sale = s
        PROVE  /\ InForce(s)' <=> InForce(s)
               /\ sale'[s].product = sale[s].product
               /\ sale'[s].quantity = sale[s].quantity
    BY <2>1, <2>4 DEF ApplyTariffWrite, TypeOK, InForce
  <2>5. ASSUME NEW status \in {"active", "completed"}, SetStatus(s, status),
               InForce(s)
        PROVE  /\ InForce(s)'
               /\ sale'[s].product = sale[s].product
               /\ sale'[s].quantity = sale[s].quantity
    BY <2>1, <2>5 DEF SetStatus, TypeOK, InForce
  <2>6. ASSUME NEW w \in Workers, RecordPaymentCommit(w), tx[w].sale = s
        PROVE  InForce(s)
    BY <2>6 DEF RecordPaymentCommit, HoldsRow, InForce
  <2> QED
    BY <1>4, <2>2, <2>3, <2>4, <2>5, <2>6, SaleStep DEF InForce
<1> QED
  BY <1>3, <1>4 DEF UnitsStay

(* Units stay conserved. *)
LEMMA UnitsConservedStep ==
  LedgerInv /\ UnitsConserved /\ [Next]_vars => UnitsConserved'
<1> SUFFICES ASSUME LedgerInv, UnitsConserved, [Next]_vars, NEW p \in Products
             PROVE  supplied'[p] = stock'[p] + Units(p)'
  BY DEF UnitsConserved
<1> USE DEF LedgerInv
<1> DEFINE U == SoldOf(p)
           f == [s \in U |-> sale[s].quantity]
           V == {s \in Sales : /\ sale'[s].status \in {"active", "completed"}
                               /\ sale'[s].product = p}
           g == [s \in V |-> sale'[s].quantity]
<1>1. supplied[p] = stock[p] + Total(f, U)
  BY DEF UnitsConserved, Units
<1>2. Units(p)' = Total(g, V)
  BY DEF Units, SoldOf
<1>3. U \subseteq Sales /\ IsFiniteSet(U)
  <2>1. U \subseteq {s \in Sales : Exists(s)}
    BY DEF SoldOf, Exists
  <2> QED
    BY <2>1, FS_Subset DEF FiniteTables
<1>4. \A s \in U : f[s] = sale[s].quantity /\ f[s] \in Int
  BY DEF SoldOf, TypeOK, SaleRow
<1>5. \A s \in V : g[s] = sale'[s].quantity
  OBVIOUS
<1>6. Total(f, U) \in Int /\ stock[p] \in Int /\ supplied[p] \in Int
  BY <1>3, <1>4, TotalInt DEF TypeOK
<1>7. ASSUME V = U, \A s \in U : sale'[s].quantity = sale[s].quantity
      PROVE  Total(g, V) = Total(f, U)
  <2>1. \A s \in U : g[s] = f[s]
    BY <1>4, <1>5, <1>7
  <2> HIDE DEF f, g, U, V
  <2> QED
    BY <1>3, <1>7, <2>1, TotalSame
<1>8. ASSUME NEW w \in Workers, NEW s \in Sales, NEW price \in Prices,
             NEW o \in Products \cup {None}, NEW q \in Quantities \cup {1},
             CreateSale(w, s, price, o, q)
      PROVE  supplied'[p] = stock'[p] + Total(g, V)
  <2>1. /\ sale' = [sale EXCEPT ![s] =
                      [status |-> "active", version |-> 1, price |-> price,
                       product |-> o, quantity |-> q]]
        /\ TakeStock(o, q) /\ ~Exists(s) /\ supplied' = supplied
    BY <1>8 DEF CreateSale, FirstUse
  <2>2. /\ sale'[s].status = "active" /\ sale'[s].product = o
        /\ sale'[s].quantity = q
        /\ \A t \in Sales \ {s} : sale'[t] = sale[t]
    BY <2>1 DEF TypeOK
  <2>3. s \notin U /\ q \in Nat
    BY <2>1, SaleLedgerAssumption DEF SoldOf, Exists
  <2>4. CASE o = p
    <3>1. V = U \cup {s}
      BY <2>2, <2>3, <2>4 DEF SoldOf
    <3>2. g[s] = q /\ \A t \in U : g[t] = f[t]
      BY <1>3, <1>4, <1>5, <2>2, <2>3, <3>1
    <3>3. Total(g, V) = Total(f, U) + q
      <4> HIDE DEF f, g, U, V
      <4>1. \A t \in U : f[t] \in Int /\ g[t] = f[t]
        BY <1>4, <3>2
      <4>2. Total(g, U \cup {s}) = Total(f, U) + g[s]
        BY <1>3, <2>3, <3>2, <4>1, TotalGrows
      <4> QED
        BY <3>1, <3>2, <4>2
    <3>4. stock'[p] = stock[p] - q
      BY <2>1, <2>4, SaleLedgerAssumption DEF TakeStock, TypeOK
    <3> HIDE DEF f, g, U, V
    <3> QED
      BY <1>1, <1>6, <2>1, <2>3, <3>3, <3>4
  <2>5. CASE o # p
    <3>1. V = U /\ \A t \in U : sale'[t].quantity = sale[t].quantity
      BY <2>2, <2>3, <2>5 DEF SoldOf
    <3>2. stock'[p] = stock[p]
      BY <2>1, <2>5 DEF TakeStock, TypeOK
    <3> QED
      BY <1>1, <1>7, <2>1, <3>1, <3>2
  <2> QED
    BY <2>4, <2>5
<1>9. ASSUME NEW w \in Workers, UpdateSaleWrite(w), InForce(tx[w].sale),
             tx[w].target = "cancelled"
      PROVE  supplied'[p] = stock'[p] + Total(g, V)
  <2>1. PICK s \in Sales : s = tx[w].sale
    BY <1>9 DEF UpdateSaleWrite, References, RefersToRows
  <2>2. tx[w].seen = sale[s]
    BY <1>9, <2>1, WriteSeesRow DEF UpdateSaleWrite, VersionMatches
  <2>3. sale' = [sale EXCEPT ![s] = Updated(@, "cancelled", tx[w].price)]
    BY <1>9, <2>1 DEF UpdateSaleWrite
  <2>4. /\ sale'[s].status = "cancelled"
        /\ \A t \in Sales \ {s} : sale'[t] = sale[t]
    BY <2>3 DEF Updated, TypeOK, SaleRow
  <2>5. /\ supplied' = supplied
        /\ stock' = IF sale[s].product # None
                      THEN [stock EXCEPT ![sale[s].product] =
                              @ + sale[s].quantity]
                      ELSE stock
    BY <1>9, <2>1, <2>2 DEF UpdateSaleWrite, Restock, InForce
  <2>6. CASE sale[s].product = p
    <3>1. s \in U /\ V = U \ {s}
      BY <1>9, <2>1, <2>4, <2>6 DEF SoldOf, InForce
    <3>2. f[s] = sale[s].quantity /\ sale[s].quantity \in Nat
      BY <1>4, <3>1 DEF TypeOK, SaleRow
    <3>3. \A t \in U \ {s} : g[t] = f[t]
      BY <1>3, <1>4, <1>5, <2>4, <3>1
    <3>4. Total(g, V) = Total(f, U) - sale[s].quantity
      <4> HIDE DEF f, g, U, V
      <4>1. \A t \in U : f[t] \in Int
        BY <1>4
      <4>2. Total(g, U \ {s}) = Total(f, U) - f[s]
        BY <1>3, <3>1, <3>3, <4>1, TotalShrinks
      <4> QED
        BY <3>1, <3>2, <4>2
    <3>5. stock'[p] = stock[p] + sale[s].quantity
      BY <2>5, <2>6, SaleLedgerAssumption DEF TypeOK
    <3> HIDE DEF f, g, U, V
    <3> QED
      BY <1>1, <1>6, <2>5, <3>2, <3>4, <3>5
  <2>7. CASE sale[s].product # p
    <3>1. V = U /\ \A t \in U : sale'[t].quantity = sale[t].quantity
      BY <2>4, <2>7 DEF SoldOf
    <3>2. stock'[p] = stock[p]
      BY <2>5, <2>7 DEF TypeOK
    <3> QED
      BY <1>1, <1>7, <2>5, <3>1, <3>2
  <2> QED
    BY <2>6, <2>7
<1>10. ASSUME UnitsStay
       PROVE  Total(g, V) = Total(f, U)
  <2>1. V = U /\ \A s \in U : sale'[s].quantity = sale[s].quantity
    BY <1>10 DEF UnitsStay, SoldOf, InForce
  <2> QED
    BY <1>7, <2>1
<1>11. ASSUME NEW o \in Products, NEW delta \in {-1, 1}, AdjustStock(o, delta),
              Total(g, V) = Total(f, U)
       PROVE  supplied'[p] = stock'[p] + Total(g, V)
  <2>1. \/ stock'[p] = stock[p] /\ supplied'[p] = supplied[p]
        \/ stock'[p] = stock[p] + delta /\ supplied'[p] = supplied[p] + delta
    BY <1>11 DEF AdjustStock, TypeOK
  <2> HIDE DEF f, g, U, V
  <2> QED
    BY <1>1, <1>6, <1>11, <2>1
<1>12. ASSUME stock' = stock, supplied' = supplied, Total(g, V) = Total(f, U)
       PROVE  supplied'[p] = stock'[p] + Total(g, V)
  BY <1>1, <1>12
<1>13. supplied'[p] = stock'[p] + Total(g, V)
  <2> HIDE DEF f, g, U, V
  <2>1. CASE \E w \in Workers, s \in Sales, price \in Prices,
                o \in Products \cup {None}, q \in Quantities \cup {1} :
               CreateSale(w, s, price, o, q)
    BY <1>8, <2>1
  <2>2. CASE \E w \in Workers : /\ UpdateSaleWrite(w) /\ InForce(tx[w].sale)
                              /\ tx[w].target = "cancelled"
    BY <1>9, <2>2
  <2>3. CASE /\ UnitsStay
             /\ \/ stock' = stock /\ supplied' = supplied
                \/ \E o \in Products, delta \in {-1, 1} : AdjustStock(o, delta)
    <3>1. Total(g, V) = Total(f, U)
      BY <1>10, <2>3
    <3> QED
      BY <1>11, <1>12, <2>3, <3>1
  <2> QED
    BY <2>1, <2>2, <2>3, UnitsStep
<1> QED
  BY <1>2, <1>13

(* Units are neither lost nor made by any interleaving of sales,           *)
(* cancellations and warehouse corrections.                                *)
THEOREM StockIsConserved == Spec => []StockConserved
<1>1. Init => UnitsConserved
  <2> SUFFICES ASSUME Init PROVE UnitsConserved
    OBVIOUS
  <2>1. \A p \in Products : SoldOf(p) = {}
    BY DEF Init, NoSale, SoldOf
  <2>2. \A p \in Products : Units(p) = 0
    BY <2>1, TotalOfNone DEF Units
  <2>3. \A p \in Products : stock[p] \in Nat /\ supplied[p] = stock[p]
    BY SaleLedgerAssumption DEF Init
  <2> QED
    BY <2>2, <2>3 DEF UnitsConserved
<1> QED
  BY <1>1, LedgerCorrect, UnitsConservedStep, StockAsTotals, PTL DEF Spec

Paid(s, T) == Total([k \in PaymentsOf(s, T) |-> payment[k].amount],
                    PaymentsOf(s, T))

PaymentsPosted ==
  \A s \in Sales :
    /\ -ledger[s]["payment"] = Paid(s, {"recorded", "reversed"})
    /\ ledger[s]["adjustment"] = Paid(s, {"reversed"})

(* The sums of PaymentsPostedOnce are Totals. *)
LEMMA PaymentsAsTotals == PaymentsPostedOnce <=> PaymentsPosted
<1>1. ASSUME NEW s, NEW T
      PROVE  MapThenSumSet(LAMBDA k : payment[k].amount, PaymentsOf(s, T))
               = Paid(s, T)
  BY DEF Paid, Total, MapThenSumSet, MapThenFoldSet
<1> QED
  BY <1>1 DEF PaymentsPostedOnce, PaymentsPosted

(* A sale has finitely many payments, each of a whole amount. *)
LEMMA PaymentsFinite ==
  ASSUME TypeOK, FiniteTables, NEW s, NEW T, "absent" \notin T
  PROVE  /\ IsFiniteSet(PaymentsOf(s, T)) /\ Paid(s, T) \in Nat
         /\ \A k \in PaymentsOf(s, T) : payment[k].amount \in Nat
<1> DEFINE P == PaymentsOf(s, T)
           f == [k \in P |-> payment[k].amount]
<1>1. IsFiniteSet(P)
  <2>1. P \subseteq {k \in Payments : payment[k].status # "absent"}
    BY DEF PaymentsOf
  <2> QED
    BY <2>1, FS_Subset DEF FiniteTables
<1>2. \A k \in P : f[k] = payment[k].amount /\ f[k] \in Nat
  BY DEF PaymentsOf, TypeOK, PaymentRow
<1>3. Total(f, P) \in Nat
  <2> HIDE DEF P, f
  <2> QED
    BY <1>1, <1>2, TotalNat
<1> QED
  BY <1>1, <1>2, <1>3 DEF Paid

(* The same payments make the same sum ... *)
LEMMA PaidStays ==
  ASSUME TypeOK, FiniteTables, NEW s, NEW T, "absent" \notin T,
         PaymentsOf(s, T)' = PaymentsOf(s, T),
         \A k \in PaymentsOf(s, T) : payment'[k].amount = payment[k].amount
  PROVE  Paid(s, T)' = Paid(s, T)
<1> DEFINE P == PaymentsOf(s, T)
           f == [k \in P |-> payment[k].amount]
           g == [k \in P |-> payment'[k].amount]
<1>1. IsFiniteSet(P)
  BY PaymentsFinite
<1>2. \A k \in P : f[k] = g[k]
  OBVIOUS
<1>3. Total(f, P) = Total(g, P)
  <2> HIDE DEF P, f, g
  <2> QED
    BY <1>1, <1>2, TotalSame
<1> QED
  BY <1>3 DEF Paid

(* ... and one more adds its amount. *)
LEMMA PaidGrows ==
  ASSUME TypeOK, FiniteTables, NEW s, NEW T, "absent" \notin T,
         NEW k, k \notin PaymentsOf(s, T), payment'[k].amount \in Nat,
         PaymentsOf(s, T)' = PaymentsOf(s, T) \cup {k},
         \A l \in PaymentsOf(s, T) : payment'[l].amount = payment[l].amount
  PROVE  Paid(s, T)' = Paid(s, T) + payment'[k].amount
<1> DEFINE P == PaymentsOf(s, T)
           f == [l \in P |-> payment[l].amount]
           g == [l \in P \cup {k} |-> payment'[l].amount]
<1>1. IsFiniteSet(P) /\ k \notin P
  BY PaymentsFinite
<1>2. \A l \in P : f[l] \in Int /\ g[l] = f[l]
  BY PaymentsFinite
<1>3. g[k] = payment'[k].amount /\ g[k] \in Int
  OBVIOUS
<1>4. Total(g, P \cup {k}) = Total(f, P) + g[k]
  <2> HIDE DEF P, f, g
  <2> QED
    BY <1>1, <1>2, <1>3, TotalGrows
<1> QED
  BY <1>3, <1>4 DEF Paid

(* The entries of a sale still are those of its payments after a step. *)
LEMMA PaymentsPostedStep ==
  LedgerInv /\ PaymentsPosted /\ [Next]_vars => PaymentsPosted'
<1> SUFFICES ASSUME LedgerInv, PaymentsPosted, [Next]_vars, NEW s \in Sales
             PROVE  /\ -ledger'[s]["payment"] =
                         Paid(s, {"recorded", "reversed"})'
                    /\ ledger'[s]["adjustment"] = Paid(s, {"reversed"})'
  BY DEF PaymentsPosted
<1> USE DEF LedgerInv
<1> DEFINE Any == {"recorded", "reversed"}
           Back == {"reversed"}
           Posted == /\ -ledger'[s]["payment"] = Paid(s, Any)'
                     /\ ledger'[s]["adjustment"] = Paid(s, Back)'
<1>1. /\ -ledger[s]["payment"] = Paid(s, Any)
      /\ ledger[s]["adjustment"] = Paid(s, Back)
      /\ ledger[s]["payment"] \in Int /\ ledger[s]["adjustment"] \in Int
  BY RowTypes DEF PaymentsPosted, EntryType
<1>2. ASSUME ledger'[s]["payment"] = ledger[s]["payment"],
             ledger'[s]["adjustment"] = ledger[s]["adjustment"],
             \A T \in {Any, Back} :
               /\ PaymentsOf(s, T)' = PaymentsOf(s, T)
               /\ \A k \in PaymentsOf(s, T) :
                    payment'[k].amount = payment[k].amount
      PROVE  Posted
  <2>1. Paid(s, Any)' = Paid(s, Any)
    BY <1>2, PaidStays
  <2>2. Paid(s, Back)' = Paid(s, Back)
    BY <1>2, PaidStays
  <2> QED
    BY <1>1, <1>2, <2>1, <2>2
<1>3. ASSUME NEW w \in Workers, RecordPaymentCommit(w) PROVE Posted
  <2>1. PICK k \in Payments : k = tx[w].pay
    BY <1>3 DEF RecordPaymentCommit, References, RefersToRows
  <2>2. PICK a \in Nat : a = tx[w].amount
    BY FieldTypes
  <2>3. /\ payment[k].status = "absent"
        /\ payment'[k].status = "recorded" /\ payment'[k].sale = tx[w].sale
        /\ payment'[k].amount = a
        /\ \A l \in Payments \ {k} : payment'[l] = payment[l]
    BY <1>3, <2>1, <2>2 DEF RecordPaymentCommit, KnowsEntry, TypeOK
  <2>4. PostEntry(tx[w].sale, "payment", -a)
    BY <1>3, <2>2 DEF RecordPaymentCommit
  <2>5. k \notin PaymentsOf(s, Any) /\ k \notin PaymentsOf(s, Back)
    BY <2>3 DEF PaymentsOf
  <2>6. PaymentsOf(s, Back)' = PaymentsOf(s, Back)
    BY <2>3, <2>5 DEF PaymentsOf
  <2>7. \A l \in PaymentsOf(s, Any) \cup PaymentsOf(s, Back) :
          payment'[l].amount = payment[l].amount
    BY <2>3, <2>5 DEF PaymentsOf
  <2>8. CASE tx[w].sale = s
    <3>1. PaymentsOf(s, Any)' = PaymentsOf(s, Any) \cup {k}
      BY <2>3, <2>5, <2>8 DEF PaymentsOf
    <3>2. Paid(s, Any)' = Paid(s, Any) + a
      BY <2>3, <2>5, <2>7, <3>1, PaidGrows
    <3>3. Paid(s, Back)' = Paid(s, Back)
      BY <2>6, <2>7, PaidStays
    <3>4. /\ ledger'[s]["payment"] = ledger[s]["payment"] + (-a)
          /\ ledger'[s]["adjustment"] = ledger[s]["adjustment"]
      BY <2>4, <2>8, PostBalance DEF EntryType
    <3> QED
      BY <1>1, <3>2, <3>3, <3>4
  <2>9. CASE tx[w].sale # s
    <3>1. PaymentsOf(s, Any)' = PaymentsOf(s, Any)
      BY <2>3, <2>5, <2>9 DEF PaymentsOf
    <3>2. ledger'[s] = ledger[s]
      BY <2>4, <2>9 DEF PostEntry, TypeOK
    <3> QED
      BY <1>2, <2>6, <2>7, <3>1, <3>2
  <2> QED
    BY <2>8, <2>9
<1>4. ASSUME NEW w \in Workers, ReversePaymentCommit(w) PROVE Posted
  <2>1. PICK k \in Payments : k = tx[w].pay
    BY <1>4 DEF ReversePaymentCommit, References, RefersToRows
  <2>2. PICK a \in Nat : a = tx[w].amount
    BY FieldTypes
  <2>3. /\ payment[k].status = "recorded" /\ payment[k].sale = tx[w].sale
        /\ payment[k].amount = a
    BY <1>4, <2>1, <2>2 DEF ReversePaymentCommit, Unreversed, KnowsEntry
  <2>4. /\ payment'[k].status = "reversed"
        /\ payment'[k].sale = payment[k].sale
        /\ payment'[k].amount = payment[k].amount
        /\ \A l \in Payments \ {k} : payment'[l] = payment[l]
    BY <1>4, <2>1 DEF ReversePaymentCommit, TypeOK, PaymentRow
  <2>5. PostEntry(tx[w].sale, "adjustment", a)
    BY <1>4, <2>2 DEF ReversePaymentCommit
  <2>6. PaymentsOf(s, Any)' = PaymentsOf(s, Any)
    BY <2>3, <2>4 DEF PaymentsOf
  <2>7. \A l \in PaymentsOf(s, Any) \cup PaymentsOf(s, Back) :
          payment'[l].amount = payment[l].amount
    BY <2>4 DEF PaymentsOf
  <2>8. k \notin PaymentsOf(s, Back)
    BY <2>3 DEF PaymentsOf
  <2>9. CASE tx[w].sale = s
    <3>1. PaymentsOf(s, Back)' = PaymentsOf(s, Back) \cup {k}
      BY <2>3, <2>4, <2>9 DEF PaymentsOf
    <3>2. Paid(s, Back)' = Paid(s, Back) + a
      BY <2>3, <2>4, <2>7, <2>8, <3>1, PaidGrows
    <3>3. Paid(s, Any)' = Paid(s, Any)
      BY <2>6, <2>7, PaidStays
    <3>4. /\ ledger'[s]["payment"] = ledger[s]["payment"]
          /\ ledger'[s]["adjustment"] = ledger[s]["adjustment"] + a
      BY <2>5, <2>9, PostBalance DEF EntryType
    <3> QED
      BY <1>1, <3>2, <3>3, <3>4
  <2>10. CASE tx[w].sale # s
    <3>1. PaymentsOf(s, Back)' = PaymentsOf(s, Back)
      BY <2>3, <2>4, <2>10 DEF PaymentsOf
    <3>2. ledger'[s] = ledger[s]
      BY <2>5, <2>10 DEF PostEntry, TypeOK
    <3> QED
      BY <1>2, <2>6, <2>7, <3>1, <3>2
  <2> QED
    BY <2>9, <2>10
<1>5. CASE /\ ~ \E w \in Workers : RecordPaymentCommit(w) \/ ReversePaymentCommit(w)
           /\ payment' = payment
  <2>1. ASSUME NEW w \in Workers, tx[w].sale = s,
               PostCharge(w) \/ ApproveRefundCommit(w)
        PROVE  /\ ledger'[s]["payment"] = ledger[s]["payment"]
               /\ ledger'[s]["adjustment"] = ledger[s]["adjustment"]
    <3>1. PICK a \in Nat, type \in {"charge", "refund"} : PostEntry(s, type, a)
      BY <2>1, FieldTypes DEF PostCharge, ApproveRefundCommit
    <3> QED
      BY <3>1, PostBalance DEF EntryType
  <2>2. /\ ledger'[s]["payment"] = ledger[s]["payment"]
        /\ ledger'[s]["adjustment"] = ledger[s]["adjustment"]
    BY <1>5, <2>1, LedgerStep
  <2>3. \A T : PaymentsOf(s, T)' = PaymentsOf(s, T)
    BY <1>5 DEF PaymentsOf
  <2> QED
    BY <1>2, <1>5, <2>2, <2>3
<1> QED
  BY <1>3, <1>4, <1>5, PaymentsStep

(* Each payment key is posted once and each reversal undone once, whatever *)
(* retries and reversals run against each other.                           *)
THEOREM PaymentsArePostedOnce == Spec => []PaymentsPostedOnce
<1>1. Init => PaymentsPosted
  <2> SUFFICES ASSUME Init, NEW s \in Sales
               PROVE  /\ -ledger[s]["payment"] =
                           Paid(s, {"recorded", "reversed"})
                      /\ ledger[s]["adjustment"] = Paid(s, {"reversed"})
    BY DEF PaymentsPosted
  <2>1. \A T : "absent" \notin T => PaymentsOf(s, T) = {}
    BY DEF Init, NoPayment, PaymentsOf
  <2>2. \A T : "absent" \notin T => Paid(s, T) = 0
    BY <2>1, TotalOfNone DEF Paid
  <2>3. ledger[s]["payment"] = 0 /\ ledger[s]["adjustment"] = 0
    BY DEF Init, NoEntries, EntryType
  <2> QED
    BY <2>2, <2>3
<1> QED
  BY <1>1, LedgerCorrect, PaymentsPostedStep, PaymentsAsTotals, PTL DEF Spec

Refunded(s) == Total([r \in RefundsOf(s) |-> request[r].amount], RefundsOf(s))

RefundsPosted == \A s \in Sales : ledger[s]["refund"] = Refunded(s)

(* The sum of RefundsPostedOnce is a Total. *)
LEMMA RefundsAsTotals == RefundsPostedOnce <=> RefundsPosted
<1>1. ASSUME NEW s
      PROVE  MapThenSumSet(LAMBDA r : request[r].amount, RefundsOf(s))
               = Refunded(s)
  BY DEF Refunded, Total, MapThenSumSet, MapThenFoldSet
<1> QED
  BY <1>1 DEF RefundsPostedOnce, RefundsPosted

(* The refund entries of a sale still are its approved requests. *)
LEMMA RefundsPostedStep ==
  LedgerInv /\ RefundsPosted /\ [Next]_vars => RefundsPosted'
<1> SUFFICES ASSUME LedgerInv, RefundsPosted, [Next]_vars, NEW s \in Sales
             PROVE  ledger'[s]["refund"] = Refunded(s)'
  BY DEF RefundsPosted
<1> USE DEF LedgerInv
<1> DEFINE R == RefundsOf(s)
           f == [r \in R |-> request[r].amount]
           Q == {r \in Requests : /\ request'[r].type = "refund"
                                  /\ request'[r].status = "approved"
                                  /\ request'[r].sale = s}
           g == [r \in Q |-> request'[r].amount]
<1>1. /\ ledger[s]["refund"] = Total(f, R) /\ ledger[s]["refund"] \in Int
      /\ Refunded(s)' = Total(g, Q)
  BY RowTypes DEF RefundsPosted, Refunded, RefundsOf, EntryType
<1>2. IsFiniteSet(R)
  <2>1. R \subseteq {r \in Requests : request[r].status # "absent"}
    BY DEF RefundsOf
  <2> QED
    BY <2>1, FS_Subset DEF FiniteTables
<1>3. \A r \in R : r \in Requests /\ f[r] = request[r].amount /\ f[r] \in Int
  BY DEF RefundsOf, TypeOK, RequestRow
<1>4. \A r \in Q : g[r] = request'[r].amount
  OBVIOUS
<1>5. \A r \in R : r \in Q /\ request'[r].amount = request[r].amount
  BY RequestRowStep DEF RefundsOf
<1>6. CASE \E w \in Workers : ApproveRefundCommit(w) /\ tx[w].sale = s
  <2>1. PICK w \in Workers : ApproveRefundCommit(w) /\ tx[w].sale = s
    BY <1>6
  <2>2. PICK q \in Requests : q = tx[w].req
    BY <2>1 DEF ApproveRefundCommit, References, RefersToRows
  <2>3. PICK a \in Nat : a = tx[w].amount
    BY FieldTypes
  <2>4. /\ request[q].status = "pending" /\ request[q].type = "refund"
        /\ request[q].sale = s /\ request[q].amount = a
    BY <2>1, <2>2, <2>3 DEF ApproveRefundCommit, Pending, KnowsEntry
  <2>5. /\ request'[q].status = "approved" /\ request'[q].type = "refund"
        /\ request'[q].sale = s /\ request'[q].amount = a
        /\ \A r \in Requests \ {q} : request'[r] = request[r]
    BY <2>1, <2>2, <2>4 DEF ApproveRefundCommit, TypeOK, RequestRow
  <2>6. q \notin R /\ Q = R \cup {q}
    BY <2>4, <2>5 DEF RefundsOf
  <2>7. g[q] = a /\ \A r \in R : g[r] = f[r]
    BY <1>3, <1>4, <1>5, <2>5, <2>6
  <2>8. ledger'[s]["refund"] = ledger[s]["refund"] + a
    <3>1. PostEntry(s, "refund", a)
      BY <2>1, <2>3 DEF ApproveRefundCommit
    <3> QED
      BY <3>1, PostBalance DEF EntryType
  <2>9. Total(g, R \cup {q}) = Total(f, R) + g[q]
    <3>1. \A r \in R : f[r] \in Int /\ g[r] = f[r]
      BY <1>3, <2>7
    <3> HIDE DEF R, Q, f, g
    <3> QED
      BY <1>2, <2>6, <2>7, <3>1, TotalGrows
  <2> HIDE DEF R, Q, f, g
  <2> QED
    BY <1>1, <2>6, <2>7, <2>8, <2>9
<1>7. CASE ~ \E w \in Workers : ApproveRefundCommit(w) /\ tx[w].sale = s
  <2>1. Q = R
    <3>1. ASSUME NEW r \in Requests, r \in Q, r \notin R PROVE FALSE
      <4>1. PICK w \in Workers : ApproveRefundCommit(w) /\ tx[w].req = r
        BY <3>1, RequestRowStep DEF RefundsOf
      <4>2. request[r].sale = tx[w].sale
        BY <4>1 DEF ApproveRefundCommit, KnowsEntry
      <4>3. request'[r].sale = request[r].sale
        BY <4>1, RequestRowStep DEF ApproveRefundCommit, Pending
      <4> QED
        BY <1>7, <3>1, <4>1, <4>2, <4>3
    <3> QED
      BY <1>5, <3>1 DEF RefundsOf
  <2>2. ASSUME NEW w \in Workers, tx[w].sale = s,
               \/ PostCharge(w) \/ RecordPaymentCommit(w)
               \/ ReversePaymentCommit(w)
        PROVE  ledger'[s]["refund"] = ledger[s]["refund"]
    <3>1. PICK a \in Int, type \in {"charge", "payment", "adjustment"} :
            PostEntry(s, type, a)
      BY <2>2, FieldTypes
         DEF PostCharge, RecordPaymentCommit, ReversePaymentCommit
    <3> QED
      BY <3>1, PostBalance DEF EntryType
  <2>3. ledger'[s]["refund"] = ledger[s]["refund"]
    BY <1>7, <2>2, LedgerStep
  <2>4. \A r \in R : f[r] = g[r]
    BY <1>3, <1>4, <1>5
  <2>5. Total(f, R) = Total(g, R)
    <3> HIDE DEF R, Q, f, g
    <3> QED
      BY <1>2, <2>4, TotalSame
  <2> HIDE DEF R, Q, f, g
  <2> QED
    BY <1>1, <2>1, <2>3, <2>5
<1> QED
  BY <1>6, <1>7

(* Two reviewers who approve one refund together post it once. *)
THEOREM RefundsArePostedOnce == Spec => []RefundsPostedOnce
<1>1. Init => RefundsPosted
  <2> SUFFICES ASSUME Init, NEW s \in Sales
               PROVE  ledger[s]["refund"] = Refunded(s)
    BY DEF RefundsPosted
  <2>1. RefundsOf(s) = {}
    BY DEF Init, NoRequest, RefundsOf
  <2>2. Refunded(s) = 0
    BY <2>1, TotalOfNone DEF Refunded
  <2> QED
    BY <2>2 DEF Init, NoEntries, EntryType
<1> QED
  BY <1>1, LedgerCorrect, RefundsPostedStep, RefundsAsTotals, PTL DEF Spec

-----------------------------------------------------------------------------
(* What no step may do *)

(* A cancelled sale stays cancelled. *)
THEOREM CancelledForEver == Spec => CancelledIsFinal
<1>1. LedgerInv /\ [Next]_vars =>
        [\A s \in Sales :
           sale[s].status = "cancelled" => sale'[s].status = "cancelled"]_vars
  <2> SUFFICES ASSUME LedgerInv, [Next]_vars, NEW s \in Sales,
                      sale[s].status = "cancelled"
               PROVE  sale'[s].status = "cancelled"
    OBVIOUS
  <2>1. Exists(s)
    BY DEF Exists
  <2> QED
    BY <2>1, StatusStep DEF Terminal
<1> QED
  BY <1>1, LedgerCorrect, PTL DEF Spec, CancelledIsFinal

(* A completed sale becomes active again only, and only into debt. *)
THEOREM ReopenedIntoDebt == Spec => ReopensOnlyIntoDebt
<1>1. LedgerInv /\ [Next]_vars =>
        [\A s \in Sales :
           sale[s].status = "completed" /\ sale'[s].status # "completed"
             => sale'[s].status = "active" /\ Balance(s)' > 0]_vars
  <2> SUFFICES ASSUME LedgerInv, [Next]_vars, NEW s \in Sales,
                      sale[s].status = "completed",
                      sale'[s].status # "completed"
               PROVE  sale'[s].status = "active" /\ Balance(s)' > 0
    OBVIOUS
  <2>1. Exists(s)
    BY DEF Exists
  <2> QED
    BY <2>1, StatusStep DEF Terminal
<1> QED
  BY <1>1, LedgerCorrect, PTL DEF Spec, ReopensOnlyIntoDebt

(* No payment is recorded for a cancelled sale. *)
THEOREM CancelledTakesNoPayment == Spec => NoPaymentOnCancelled
<1>1. LedgerInv /\ [Next]_vars =>
        [\A s \in Sales :
           ledger'[s]["payment"] # ledger[s]["payment"]
             => sale[s].status # "cancelled"]_vars
  <2> SUFFICES ASSUME LedgerInv, [Next]_vars, NEW s \in Sales,
                      ledger'[s]["payment"] # ledger[s]["payment"]
               PROVE  sale[s].status # "cancelled"
    OBVIOUS
  <2> QED
    BY BalanceStep
<1> QED
  BY <1>1, LedgerCorrect, PTL DEF Spec, NoPaymentOnCancelled
=============================================================================
