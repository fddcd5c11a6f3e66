----------------------------- MODULE SaleLedger -----------------------------
(***************************************************************************)
(* The sales contracts of one tenant, the append-only ledger behind their  *)
(* balances, and the product stock they draw on: modules/sales,            *)
(* modules/finance (payments, reversals, adjustment requests) and the      *)
(* stock operations of modules/products.                                   *)
(*                                                                         *)
(* A worker is one HTTP request in flight.  Every `tenant_connection`      *)
(* block of the code is one READ COMMITTED transaction.  A block whose     *)
(* outcome depends on something it read without a lock is two actions      *)
(* here, ...Read and ...Write (or ...Commit), with any other worker free   *)
(* to commit in between; a block whose reads are locked, or whose early    *)
(* commit point gives the same outcome, is one action.  A call that        *)
(* returns an error leaves the database as it was and is not an action.    *)
(*                                                                         *)
(* The ledger is read by the code through SUM(amount) only, per sale and   *)
(* per entry type, so ledger[s] holds these sums, signed as in the table:  *)
(* a charge, a refund and an adjustment are positive, a payment negative.  *)
(***************************************************************************)
EXTENDS Integers, FiniteSetsExt

CONSTANTS
  Sales,         \* idempotency keys of POST /sales: a key names its sale
  Payments,      \* idempotency keys of POST /finance/payments
  Requests,      \* idempotency keys of POST /finance/adjustment-requests
  Products,
  Workers,       \* HTTP requests that may be in flight at once
  Prices,        \* price_amount values (ge=0)
  Amounts,       \* payment and refund amounts (gt=0)
  Quantities,    \* quantity of a product sale (ge=1)
  MaxVersion,    \* bound: no PATCH is started on a sale of this version
  MaxStock,      \* bound: the warehouse receives goods up to this stock
  None

ASSUME SaleLedgerAssumption ==
  /\ Prices \subseteq Nat
  /\ Amounts \subseteq Nat \ {0}
  /\ Quantities \subseteq Nat \ {0}
  /\ MaxVersion \in Nat
  /\ MaxStock \in Nat
  /\ None \notin Nat \cup Sales \cup Payments \cup Requests \cup Products

VARIABLES
  sale,      \* sale[s]: the row of table sales
  stock,     \* stock[p]: products.stock_quantity
  ledger,    \* ledger[s]: SUM(amount) of ledger_entries by entry type
  payment,   \* payment[k]: the row of table sale_payments
  request,   \* request[r]: the row of table adjustment_requests
  tx,        \* tx[w]: where worker w is and what it has read
  (* History, for the properties only. *)
  audit,     \* audit[s]: what replaying table sale_changes of s yields
  charges,   \* charges[s]: number of charge entries of s
  supplied,  \* supplied[p]: units of p ever put in or taken out by hand
  acked,     \* sales and requests some client was told are done
  applied    \* tariff requests whose change reached the sale

dbvars   == <<sale, stock, ledger, payment, request>>
histvars == <<audit, charges, supplied, acked, applied>>
vars     == <<sale, stock, ledger, payment, request, tx,
              audit, charges, supplied, acked, applied>>

-----------------------------------------------------------------------------
(* Rows *)

SaleStatus == {"active", "completed", "cancelled"}
Terminal   == {"completed", "cancelled"}

SaleRow == [status: SaleStatus \cup {"absent"}, version: Nat, price: Nat,
            product: Products \cup {None}, quantity: Nat]
NoSale  == [status |-> "absent", version |-> 0, price |-> 0,
            product |-> None, quantity |-> 0]

EntryType == {"charge", "payment", "refund", "adjustment"}
LedgerRow == [EntryType -> Int]
NoEntries == [e \in EntryType |-> 0]

PaymentRow == [status: {"absent", "recorded", "reversed"},
               sale: Sales \cup {None}, amount: Nat]
NoPayment  == [status |-> "absent", sale |-> None, amount |-> 0]

(* price = None is a tariff change of the deadline alone; version is the   *)
(* payload's sale_version_at_request.  The row's own version column leaves *)
(* 1 exactly when status leaves "pending", so status stands for both.      *)
RequestRow == [status: {"absent", "pending", "approved", "rejected"},
               type: {"refund", "tariff_change"}, sale: Sales \cup {None},
               amount: Nat, price: Nat \cup {None}, version: Nat]
NoRequest  == [status |-> "absent", type |-> "refund", sale |-> None,
               amount |-> 0, price |-> None, version |-> 0]

AuditRow == [status: SaleStatus, price: Nat]

(* A request in flight: its program counter, the rows it names, the values *)
(* its caller sent (amount, price, target status, expected version) and    *)
(* what it has read so far (the sale row, the ledger balance).             *)
PC == {"idle", "charge", "update", "pay", "reverse", "refund",
       "apply_read", "apply"}
Tx == [pc: PC, sale: Sales \cup {None}, pay: Payments \cup {None},
       req: Requests \cup {None}, amount: Nat, price: Nat \cup {None},
       target: SaleStatus, version: Nat, seen: SaleRow, balance: Int]
Idle == [pc |-> "idle", sale |-> None, pay |-> None, req |-> None,
         amount |-> 0, price |-> None, target |-> "active", version |-> 0,
         seen |-> NoSale, balance |-> 0]

-----------------------------------------------------------------------------
(* Queries *)

Exists(s) == sale[s].status # "absent"

Balance(s) == ledger[s]["charge"] + ledger[s]["payment"]
                + ledger[s]["refund"] + ledger[s]["adjustment"]

NetCollected(s) ==
  -(ledger[s]["payment"] + ledger[s]["refund"] + ledger[s]["adjustment"])

(* Mutant: a plain SELECT instead.                                         *)
RowLockedNever(s) == FALSE

(* SELECT ... FOR UPDATE of record_payment: an UPDATE of the row, another  *)
(* FOR UPDATE, and an INSERT whose foreign key names the row (it shares    *)
(* the key) wait until the holder commits or rolls back.                   *)
RowLocked(s) == \E w \in Workers : tx[w].pc = "pay" /\ tx[w].sale = s

(* An INSERT ... ON CONFLICT waits for an uncommitted row of its key.      *)
KeyInFlight(k) == \E w \in Workers : tx[w].pc = "pay" /\ tx[w].pay = k

(* ON CONFLICT (tenant_id, idempotency_key) DO NOTHING: only the first     *)
(* insert of a key makes a row.  Mutant: every one does.                   *)
FirstUseAlways(s) == TRUE
FirstUse(s) == ~Exists(s)

(* UPDATE products ... WHERE stock_quantity >= :quantity.                  *)
(* Mutant: without the condition.                                          *)
InStockAlways(p, q) == TRUE
InStock(p, q) == stock[p] >= q

(* UPDATE sales ... WHERE version = :expected_version.                     *)
(* Mutant: without the condition.                                          *)
VersionMatchesAlways(w) == TRUE
VersionMatches(w) == sale[tx[w].sale].version = tx[w].version

(* A PATCH keeps a terminal status.  Mutant: any transition.               *)
TransitionAllowedAlways(s, status) == TRUE
TransitionAllowed(s, status) ==
  sale[s].status \in Terminal => status = sale[s].status

(* UPDATE sale_payments ... WHERE reversed_at IS NULL.                     *)
(* Mutant: without the condition.                                          *)
UnreversedAlways(k) == TRUE
Unreversed(k) == payment[k].status = "recorded"

(* UPDATE adjustment_requests ... WHERE status = 'pending' AND version.    *)
(* Mutant: without the condition.                                          *)
PendingAlways(r) == TRUE
Pending(r) == request[r].status = "pending"

(* Every UPDATE of sales sets version = version + 1.                       *)
Updated(row, status, price) ==
  [row EXCEPT !.status = status, !.price = price,
              !.version = row.version + 1]

(* The sale_changes row of a diff against the row that was read.           *)
AuditDiff(s, seen, status, price) ==
  [audit EXCEPT ![s] =
     [status |-> IF seen.status # status THEN status ELSE @.status,
      price  |-> IF seen.price # price THEN price ELSE @.price]]

(* The INSERT into ledger_entries. *)
PostEntry(s, type, amount) ==
  ledger' = [ledger EXCEPT ![s][type] = @ + amount]

Finish(w) == tx' = [tx EXCEPT ![w] = Idle]

-----------------------------------------------------------------------------
Init ==
  /\ sale = [s \in Sales |-> NoSale]
  /\ stock \in [Products -> 0..MaxStock]
  /\ ledger = [s \in Sales |-> NoEntries]
  /\ payment = [k \in Payments |-> NoPayment]
  /\ request = [r \in Requests |-> NoRequest]
  /\ tx = [w \in Workers |-> Idle]
  /\ audit = [s \in Sales |-> [status |-> "active", price |-> 0]]
  /\ charges = [s \in Sales |-> 0]
  /\ supplied = stock
  /\ acked = {}
  /\ applied = {}

-----------------------------------------------------------------------------
(* POST /sales: the sale in one transaction, its charge in a second one.   *)

TakeStock(p, q) ==
  IF p = None
    THEN stock' = stock
    ELSE /\ InStock(p, q)
         /\ stock' = [stock EXCEPT ![p] = @ - q]

CreateSale(w, s, price, p, q) ==
  /\ tx[w].pc = "idle"
  /\ FirstUse(s)
  /\ TakeStock(p, q)
  /\ sale' = [sale EXCEPT ![s] =
       [status |-> "active", version |-> 1, price |-> price,
        product |-> p, quantity |-> q]]
  /\ audit' = [audit EXCEPT ![s] = [status |-> "active", price |-> price]]
  /\ tx' = [tx EXCEPT ![w] =
       [Idle EXCEPT !.pc = "charge", !.sale = s, !.amount = price]]
  /\ UNCHANGED <<ledger, payment, request, charges, supplied, acked, applied>>

(* The key is taken and its row still equals what this call sends: the     *)
(* caller gets the sale back with is_new = False and 201.                  *)
ReplayCreateSale(s, price, p, q) ==
  /\ Exists(s)
  /\ sale[s].price = price /\ sale[s].product = p /\ sale[s].quantity = q
  /\ acked' = acked \cup {s}
  /\ UNCHANGED <<dbvars, tx, audit, charges, supplied, applied>>

PostCharge(w) ==
  LET s == tx[w].sale IN
  /\ tx[w].pc = "charge"
  /\ ~RowLocked(s)
  /\ PostEntry(s, "charge", tx[w].amount)
  /\ charges' = [charges EXCEPT ![s] = @ + 1]
  /\ acked' = acked \cup {s}
  /\ Finish(w)
  /\ UNCHANGED <<sale, stock, payment, request, audit, supplied, applied>>

-----------------------------------------------------------------------------
(* PATCH /sales/{id}: an unlocked read, then UPDATE ... WHERE version.     *)
(* The caller names a version it has been shown, so none from the future.  *)

UpdateSaleRead(w, s, version, status, price) ==
  /\ tx[w].pc = "idle"
  /\ Exists(s)
  /\ sale[s].version < MaxVersion
  /\ version <= sale[s].version
  /\ TransitionAllowed(s, status)
  /\ tx' = [tx EXCEPT ![w] =
       [Idle EXCEPT !.pc = "update", !.sale = s, !.version = version,
                    !.target = status, !.price = price, !.seen = sale[s]]]
  /\ UNCHANGED <<dbvars, histvars>>

(* Mutant: a sale cancelled again is restocked again.                      *)
RestockEveryTime(seen, target) ==
  IF target = "cancelled" /\ seen.product # None
    THEN stock' = [stock EXCEPT ![seen.product] = @ + seen.quantity]
    ELSE stock' = stock

Restock(seen, target) ==
  IF target = "cancelled" /\ seen.status # "cancelled" /\ seen.product # None
    THEN stock' = [stock EXCEPT ![seen.product] = @ + seen.quantity]
    ELSE stock' = stock

UpdateSaleWrite(w) ==
  LET s == tx[w].sale IN
  /\ tx[w].pc = "update"
  /\ ~RowLocked(s)
  /\ VersionMatches(w)
  /\ sale' = [sale EXCEPT ![s] = Updated(@, tx[w].target, tx[w].price)]
  /\ Restock(tx[w].seen, tx[w].target)
  /\ audit' = AuditDiff(s, tx[w].seen, tx[w].target, tx[w].price)
  /\ Finish(w)
  /\ UNCHANGED <<ledger, payment, request, charges, supplied, acked, applied>>

(* Mutant: the UPDATE that found no row is tried again as it was.          *)
VersionConflictRetried(w) ==
  /\ tx[w].pc \in {"update", "apply"}
  /\ ~VersionMatches(w)
  /\ UNCHANGED vars

(* SaleVersionConflictError, of PATCH and of apply_tariff_change alike.    *)
VersionConflict(w) ==
  /\ tx[w].pc \in {"update", "apply"}
  /\ ~RowLocked(tx[w].sale)
  /\ ~VersionMatches(w)
  /\ Finish(w)
  /\ UNCHANGED <<dbvars, histvars>>

-----------------------------------------------------------------------------
(* POST /finance/payments: one transaction that holds the sale row from    *)
(* its first statement, reads the balance it checks under that lock and    *)
(* writes afterwards what follows from the balance and the row it read.    *)

RecordPaymentLock(w, s, k, amount) ==
  /\ tx[w].pc = "idle"
  /\ Exists(s)
  /\ ~RowLocked(s)
  /\ sale[s].status # "cancelled"
  /\ payment[k].status = "absent" /\ ~KeyInFlight(k)
  /\ amount <= Balance(s)
  /\ tx' = [tx EXCEPT ![w] =
       [Idle EXCEPT !.pc = "pay", !.sale = s, !.pay = k, !.amount = amount,
                    !.seen = sale[s], !.balance = Balance(s)]]
  /\ UNCHANGED <<dbvars, histvars>>

(* mark_sale_completed and mark_sale_active (their WHERE status is in the  *)
(* callers' conditions): a status change and its sale_changes row.         *)
SetStatus(s, status) ==
  /\ sale' = [sale EXCEPT ![s] = Updated(@, status, @.price)]
  /\ audit' = [audit EXCEPT ![s].status = status]

RecordPaymentCommit(w) ==
  LET s == tx[w].sale
      k == tx[w].pay
  IN
  /\ tx[w].pc = "pay"
  /\ payment' = [payment EXCEPT ![k] =
       [status |-> "recorded", sale |-> s, amount |-> tx[w].amount]]
  /\ PostEntry(s, "payment", -tx[w].amount)
  /\ IF /\ tx[w].balance - tx[w].amount <= 0
        /\ tx[w].seen.status = "active" /\ sale[s].status = "active"
       THEN SetStatus(s, "completed")
       ELSE UNCHANGED <<sale, audit>>
  /\ Finish(w)
  /\ UNCHANGED <<stock, request, charges, supplied, acked, applied>>

(* POST /finance/payments/{id}/reverse: the payment is read unlocked, then *)
(* the sale is locked and everything else happens in that transaction.     *)
ReversePaymentRead(w, k) ==
  /\ tx[w].pc = "idle"
  /\ payment[k].status = "recorded"
  /\ tx' = [tx EXCEPT ![w] =
       [Idle EXCEPT !.pc = "reverse", !.sale = payment[k].sale, !.pay = k,
                    !.amount = payment[k].amount]]
  /\ UNCHANGED <<dbvars, histvars>>

ReversePaymentCommit(w) ==
  LET s == tx[w].sale
      k == tx[w].pay
  IN
  /\ tx[w].pc = "reverse"
  /\ ~RowLocked(s)
  /\ Unreversed(k)
  /\ payment' = [payment EXCEPT ![k].status = "reversed"]
  /\ PostEntry(s, "adjustment", tx[w].amount)
  /\ IF sale[s].status = "completed" /\ Balance(s) + tx[w].amount > 0
       THEN SetStatus(s, "active")
       ELSE UNCHANGED <<sale, audit>>
  /\ Finish(w)
  /\ UNCHANGED <<stock, request, charges, supplied, acked, applied>>

(* mark_payment_reversed finds no unreversed row: someone else was first.  *)
ReversePaymentLate(w) ==
  /\ tx[w].pc = "reverse"
  /\ ~RowLocked(tx[w].sale)
  /\ ~Unreversed(tx[w].pay)
  /\ Finish(w)
  /\ UNCHANGED <<dbvars, histvars>>

-----------------------------------------------------------------------------
(* Adjustment requests: filed by one user, reviewed by another.            *)

CreateRefundRequest(r, s, amount) ==
  /\ request[r].status = "absent"
  /\ Exists(s)
  /\ amount <= NetCollected(s)
  /\ request' = [request EXCEPT ![r] =
       [NoRequest EXCEPT !.status = "pending", !.sale = s,
                         !.amount = amount]]
  /\ UNCHANGED <<sale, stock, ledger, payment, tx, histvars>>

CreateTariffRequest(r, s, price) ==
  /\ request[r].status = "absent"
  /\ Exists(s)
  /\ request' = [request EXCEPT ![r] =
       [NoRequest EXCEPT !.status = "pending", !.type = "tariff_change",
                         !.sale = s, !.price = price,
                         !.version = sale[s].version]]
  /\ UNCHANGED <<sale, stock, ledger, payment, tx, histvars>>

(* Approving a refund reads the request and the collected amount without   *)
(* a lock on the sale; the guarded UPDATE of the request comes after.      *)
ApproveRefundRead(w, r) ==
  /\ tx[w].pc = "idle"
  /\ request[r].status = "pending" /\ request[r].type = "refund"
  /\ request[r].amount <= NetCollected(request[r].sale)
  /\ tx' = [tx EXCEPT ![w] =
       [Idle EXCEPT !.pc = "refund", !.sale = request[r].sale, !.req = r,
                    !.amount = request[r].amount]]
  /\ UNCHANGED <<dbvars, histvars>>

ApproveRefundCommit(w) ==
  LET r == tx[w].req IN
  /\ tx[w].pc = "refund"
  /\ ~RowLocked(tx[w].sale)
  /\ Pending(r)
  /\ request' = [request EXCEPT ![r].status = "approved"]
  /\ PostEntry(tx[w].sale, "refund", tx[w].amount)
  /\ acked' = acked \cup {r}
  /\ Finish(w)
  /\ UNCHANGED <<sale, stock, payment, audit, charges, supplied, applied>>

ApproveRefundLate(w) ==
  /\ tx[w].pc = "refund"
  /\ ~Pending(tx[w].req)
  /\ Finish(w)
  /\ UNCHANGED <<dbvars, histvars>>

(* Approving a tariff change flips the request in one transaction and      *)
(* calls sales.apply_tariff_change in another.                             *)
ApproveTariff(w, r) ==
  /\ tx[w].pc = "idle"
  /\ Pending(r) /\ request[r].type = "tariff_change"
  /\ request' = [request EXCEPT ![r].status = "approved"]
  /\ tx' = [tx EXCEPT ![w] =
       [Idle EXCEPT !.pc = "apply_read", !.sale = request[r].sale,
                    !.req = r, !.price = request[r].price,
                    !.version = request[r].version]]
  /\ UNCHANGED <<sale, stock, ledger, payment, histvars>>

ApplyTariffRead(w) ==
  LET row == sale[tx[w].sale] IN
  /\ tx[w].pc = "apply_read"
  /\ tx' = [tx EXCEPT ![w] =
       [@ EXCEPT !.pc = "apply", !.seen = row,
                 !.price = IF tx[w].price = None THEN row.price
                                                 ELSE tx[w].price]]
  /\ UNCHANGED <<dbvars, histvars>>

ApplyTariffWrite(w) ==
  LET s == tx[w].sale IN
  /\ tx[w].pc = "apply"
  /\ ~RowLocked(s)
  /\ VersionMatches(w)
  /\ sale' = [sale EXCEPT ![s] = Updated(@, @.status, tx[w].price)]
  /\ audit' = AuditDiff(s, tx[w].seen, tx[w].seen.status, tx[w].price)
  /\ applied' = applied \cup {tx[w].req}
  /\ acked' = acked \cup {tx[w].req}
  /\ Finish(w)
  /\ UNCHANGED <<stock, ledger, payment, request, charges, supplied>>

(* The same review repeated with its key: 200 and the approved request.    *)
ReplayApprove(r) ==
  /\ request[r].status = "approved"
  /\ acked' = acked \cup {r}
  /\ UNCHANGED <<dbvars, tx, audit, charges, supplied, applied>>

RejectRequest(r) ==
  /\ Pending(r)
  /\ request' = [request EXCEPT ![r].status = "rejected"]
  /\ UNCHANGED <<sale, stock, ledger, payment, tx, histvars>>

-----------------------------------------------------------------------------
(* The warehouse, and the process that dies under a request.               *)

AdjustStock(p, delta) ==
  /\ stock[p] + delta \in 0..MaxStock
  /\ stock' = [stock EXCEPT ![p] = @ + delta]
  /\ supplied' = [supplied EXCEPT ![p] = @ + delta]
  /\ UNCHANGED <<sale, ledger, payment, request, tx,
                 audit, charges, acked, applied>>

(* The open transaction is rolled back; what was committed stays.          *)
Crash(w) ==
  /\ tx[w].pc # "idle"
  /\ Finish(w)
  /\ UNCHANGED <<dbvars, histvars>>

-----------------------------------------------------------------------------
Create(w) ==
  \E s \in Sales, price \in Prices :
    \/ CreateSale(w, s, price, None, 1)
    \/ \E p \in Products, q \in Quantities : CreateSale(w, s, price, p, q)

Replay ==
  \/ \E s \in Sales, price \in Prices :
       \/ ReplayCreateSale(s, price, None, 1)
       \/ \E p \in Products, q \in Quantities :
            ReplayCreateSale(s, price, p, q)
  \/ \E r \in Requests : ReplayApprove(r)

Begin(w) ==
  \/ Create(w)
  \/ \E s \in Sales, version \in 1..MaxVersion, status \in SaleStatus,
        price \in Prices : UpdateSaleRead(w, s, version, status, price)
  \/ \E s \in Sales, k \in Payments, amount \in Amounts :
       RecordPaymentLock(w, s, k, amount)
  \/ \E k \in Payments : ReversePaymentRead(w, k)
  \/ \E r \in Requests : ApproveRefundRead(w, r) \/ ApproveTariff(w, r)

Continue(w) ==
  \/ PostCharge(w)
  \/ UpdateSaleWrite(w) \/ VersionConflict(w)
  \/ RecordPaymentCommit(w)
  \/ ReversePaymentCommit(w) \/ ReversePaymentLate(w)
  \/ ApproveRefundCommit(w) \/ ApproveRefundLate(w)
  \/ ApplyTariffRead(w) \/ ApplyTariffWrite(w)

Desk ==
  \/ \E r \in Requests, s \in Sales :
       \/ \E amount \in Amounts : CreateRefundRequest(r, s, amount)
       \/ \E price \in Prices \cup {None} : CreateTariffRequest(r, s, price)
  \/ \E r \in Requests : RejectRequest(r)
  \/ \E p \in Products, delta \in {-1, 1} : AdjustStock(p, delta)

Next ==
  \/ Replay
  \/ Desk
  \/ \E w \in Workers : Begin(w) \/ Continue(w) \/ Crash(w)

Spec == Init /\ [][Next]_vars

(* A row lock is granted in the order of its queue and the event loop runs *)
(* every coroutine whose await is over, so a handler that can go on again  *)
(* and again does go on.                                                   *)
Fairness == \A w \in Workers : SF_vars(Continue(w))

FairSpec == Spec /\ Fairness

-----------------------------------------------------------------------------
(* Invariants *)

(* Every variable holds rows of its table. *)
TypeOK ==
  /\ sale \in [Sales -> SaleRow]
  /\ stock \in [Products -> Nat]
  /\ ledger \in [Sales -> LedgerRow]
  /\ payment \in [Payments -> PaymentRow]
  /\ request \in [Requests -> RequestRow]
  /\ tx \in [Workers -> Tx]
  /\ audit \in [Sales -> AuditRow]
  /\ charges \in [Sales -> Nat]
  /\ supplied \in [Products -> Int]
  /\ acked \subseteq Sales \cup Requests
  /\ applied \subseteq Requests

(* No interleaving of payments, reversals, refunds and charges takes more  *)
(* for a sale than it was charged: record_payment checks the amount        *)
(* against a balance read under the row lock.                              *)
BalanceNeverNegative == \A s \in Sales : Balance(s) >= 0

(* A sale some payment was taken for and that is still active is still     *)
(* owed for: the payment that settles it completes it, and a reversal      *)
(* reopens it only into debt.                                              *)
OwedWhileActive ==
  \A s \in Sales :
    sale[s].status = "active" /\ ledger[s]["payment"] < 0 => Balance(s) > 0

(* Replaying sale_changes from the created row yields the row, although    *)
(* update_sale and apply_tariff_change compute the diff from a row they    *)
(* read without a lock before their UPDATE.                                *)
AuditTrailReplays ==
  \A s \in Sales : Exists(s) =>
    audit[s] = [status |-> sale[s].status, price |-> sale[s].price]

SoldOf(p) == {s \in Sales : /\ sale[s].status \in {"active", "completed"}
                            /\ sale[s].product = p}

PaymentsOf(s, status) == {k \in Payments : /\ payment[k].sale = s
                                           /\ payment[k].status \in status}

RefundsOf(s) == {r \in Requests : /\ request[r].type = "refund"
                                  /\ request[r].status = "approved"
                                  /\ request[r].sale = s}

(* Units are neither lost nor made: what was supplied is on the shelf or   *)
(* in a sale that is not cancelled (stock taken with the insert, given     *)
(* back once, by the write that cancels).                                  *)
StockConserved ==
  \A p \in Products :
    supplied[p] =
      stock[p] + MapThenSumSet(LAMBDA s : sale[s].quantity, SoldOf(p))

(* The payment and adjustment entries of a sale are those of its payment   *)
(* rows: each key posted once, each reversed payment undone once.          *)
PaymentsPostedOnce ==
  \A s \in Sales :
    /\ -ledger[s]["payment"] =
         MapThenSumSet(LAMBDA k : payment[k].amount,
                       PaymentsOf(s, {"recorded", "reversed"}))
    /\ ledger[s]["adjustment"] =
         MapThenSumSet(LAMBDA k : payment[k].amount,
                       PaymentsOf(s, {"reversed"}))

(* The refund entries of a sale are its approved refund requests, each     *)
(* posted once although two reviewers may approve one request together.    *)
RefundsPostedOnce ==
  \A s \in Sales :
    ledger[s]["refund"] =
      MapThenSumSet(LAMBDA r : request[r].amount, RefundsOf(s))

(* However often POST /sales is repeated with one key, the sale is charged *)
(* at most once.                                                           *)
ChargedAtMostOnce == \A s \in Sales : charges[s] <= 1

-----------------------------------------------------------------------------
(* What makes them inductive: facts about requests in flight. *)

(* Whatever a request in flight, a payment or an adjustment request names  *)
(* is there; a write that is due has read a row and stores a price.        *)
RefersToRows(w) ==
  /\ tx[w].pc # "idle" => tx[w].sale \in Sales /\ Exists(tx[w].sale)
  /\ tx[w].pc \in {"pay", "reverse"} => tx[w].pay \in Payments
  /\ tx[w].pc \in {"refund", "apply_read", "apply"} => tx[w].req \in Requests
  /\ tx[w].pc \in {"update", "apply"}
       => tx[w].price # None /\ tx[w].seen.status # "absent"

References ==
  /\ \A w \in Workers : RefersToRows(w)
  /\ \A k \in Payments : payment[k].status # "absent" =>
       payment[k].sale \in Sales /\ Exists(payment[k].sale)
  /\ \A r \in Requests : request[r].status # "absent" =>
       /\ request[r].sale \in Sales /\ Exists(request[r].sale)
       /\ request[r].version <= sale[request[r].sale].version

(* Nobody else has the row a payment holds: it is as it was read, not      *)
(* cancelled, and its balance is the one checked.                          *)
HoldsRow(w) ==
  tx[w].pc = "pay" =>
    /\ \A v \in Workers : tx[v].pc = "pay" /\ tx[v].sale = tx[w].sale => v = w
    /\ tx[w].seen = sale[tx[w].sale]
    /\ tx[w].seen.status \in {"active", "completed"}
    /\ tx[w].amount <= tx[w].balance
    /\ tx[w].balance = Balance(tx[w].sale)

(* A write that will be let through by its version has read the row it     *)
(* replaces, and a PATCH that read a terminal status keeps it.             *)
Fenced(w) ==
  /\ tx[w].pc \in {"update", "apply"} =>
       /\ tx[w].version <= tx[w].seen.version
       /\ \/ tx[w].seen = sale[tx[w].sale]
          \/ tx[w].seen.version < sale[tx[w].sale].version
  /\ tx[w].pc = "update" /\ tx[w].seen.status \in Terminal
       => tx[w].target = tx[w].seen.status
  /\ tx[w].pc = "apply_read" => tx[w].version <= sale[tx[w].sale].version

(* A sale is charged by the one request that created it, later.            *)
WillCharge(w) ==
  tx[w].pc = "charge" =>
    /\ charges[tx[w].sale] = 0
    /\ \A v \in Workers :
         tx[v].pc = "charge" /\ tx[v].sale = tx[w].sale => v = w

(* The row of a payment's key is still to come, and from no one else; what *)
(* is reversed or refunded is the row as it stands.                        *)
KnowsEntry(w) ==
  /\ tx[w].pc = "pay" =>
       /\ payment[tx[w].pay].status = "absent"
       /\ \A v \in Workers : tx[v].pc = "pay" /\ tx[v].pay = tx[w].pay => v = w
  /\ tx[w].pc = "reverse" =>
       /\ payment[tx[w].pay].status # "absent"
       /\ payment[tx[w].pay].sale = tx[w].sale
       /\ payment[tx[w].pay].amount = tx[w].amount
  /\ tx[w].pc = "refund" =>
       /\ request[tx[w].req].status # "absent"
       /\ request[tx[w].req].type = "refund"
       /\ request[tx[w].req].sale = tx[w].sale
       /\ request[tx[w].req].amount = tx[w].amount

(* Whatever keys there may be, so far the tables have finitely many rows.  *)
FiniteTables ==
  /\ IsFiniteSet({s \in Sales : Exists(s)})
  /\ IsFiniteSet({k \in Payments : payment[k].status # "absent"})
  /\ IsFiniteSet({r \in Requests : request[r].status # "absent"})

NothingPosted(s) == ~Exists(s) => charges[s] = 0 /\ ledger[s] = NoEntries

LedgerInv ==
  /\ TypeOK /\ References /\ FiniteTables
  /\ \A w \in Workers :
       HoldsRow(w) /\ Fenced(w) /\ WillCharge(w) /\ KnowsEntry(w)
  /\ \A s \in Sales : NothingPosted(s)
  /\ BalanceNeverNegative /\ OwedWhileActive
  /\ AuditTrailReplays /\ ChargedAtMostOnce

-----------------------------------------------------------------------------
(* Action properties *)

(* "cancelled" is for ever: neither a PATCH that read the sale before the  *)
(* cancellation nor a payment or reversal under way brings it back.        *)
CancelledIsFinal ==
  [][\A s \in Sales :
       sale[s].status = "cancelled" => sale'[s].status = "cancelled"]_vars

(* A completed sale becomes active again only, and only into debt: the     *)
(* reversal that reopens it leaves something owed.                         *)
ReopensOnlyIntoDebt ==
  [][\A s \in Sales :
       sale[s].status = "completed" /\ sale'[s].status # "completed"
         => sale'[s].status = "active" /\ Balance(s)' > 0]_vars

(* No payment lands on a cancelled sale, not even one that was being       *)
(* recorded while the sale was cancelled.                                  *)
NoPaymentOnCancelled ==
  [][\A s \in Sales :
       ledger'[s]["payment"] # ledger[s]["payment"]
         => sale[s].status # "cancelled"]_vars

-----------------------------------------------------------------------------
(* Liveness *)

(* No request waits for ever for a row lock or for a version that has      *)
(* passed.                                                                 *)
HandlersReturn ==
  \A w \in Workers : tx[w].pc # "idle" ~> tx[w].pc = "idle"

-----------------------------------------------------------------------------
(* What docs and comments say and the code does not do *)

(* sales/service.py, create_sale: a replay need not post the charge "since *)
(* it already happened on the first call".                                 *)
AckedSaleIsCharged ==
  \A s \in acked \cap Sales :
    \/ charges[s] = 1
    \/ \E w \in Workers : tx[w].pc = "charge" /\ tx[w].sale = s

(* No process dies, and a review is repeated only when its first call has  *)
(* been answered, by a 200 or by the 409 of a moved version.               *)
InApply(r) ==
  \E w \in Workers : tx[w].pc \in {"apply_read", "apply"} /\ tx[w].req = r

NextAnswered ==
  \/ Desk
  \/ \E w \in Workers : Begin(w) \/ Continue(w)
  \/ \E r \in Requests : ~InApply(r) /\ ReplayApprove(r)

AnsweredSpec == Init /\ [][NextAnswered]_vars

(* finance/service.py, approve_adjustment_request: when the version moved  *)
(* "the caller gets a 409 requiring manual reconciliation"; one who got a  *)
(* 200 has the change.                                                     *)
AckedTariffApplied ==
  \A r \in acked \cap Requests :
    request[r].type = "tariff_change" => r \in applied

(* finance/router.py, of an approval: it answers 409 when the "Refund      *)
(* amount exceeds the net amount collected on this sale".  So the refunds  *)
(* posted are within what was collected, even if no payment is reversed.   *)
RefundWithinCollected ==
  [][\A s \in Sales :
       ledger'[s].refund # ledger[s].refund /\ ledger[s].adjustment = 0 =>
         NetCollected(s)' >= 0]_vars
=============================================================================
