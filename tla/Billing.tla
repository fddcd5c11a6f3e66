------------------------------ MODULE Billing ------------------------------
(***************************************************************************)
(* The platform's own billing of one tenant (modules/billing): the period  *)
(* of its subscription, the invoices that extend it, the callbacks by      *)
(* which Payme and Click settle or cancel them, and the dunning runs that  *)
(* take the tenant's status down when a period is over.                    *)
(*                                                                         *)
(* A worker is a handler that spans several transactions, or whose write   *)
(* depends on what it read without a lock; every other handler is one      *)
(* action.  Providers repeat, delay and reorder their calls: a callback is *)
(* enabled whenever its arguments are known to the provider, and an answer *)
(* that was sent may have been lost.                                       *)
(***************************************************************************)
EXTENDS Integers

CONSTANTS
  Payments,      \* idempotency keys of invoices: a key names its row
  Provider,      \* Provider[k]: "payme", "click" or "manual"
  ByHand,        \* invoices an administrator may mark as paid
  Txns,          \* Payme's transaction ids
  Order,         \* Order[t]: the payment in the account of transaction t
  ClickTxn,      \* what Click's click_trans_id becomes in the row
  Workers,
  Serial,        \* invoices about whose transactions Payme calls one at a time
  PlanDays,      \* billing_period_months of the plan, in days
  TrialDays,
  PastDueDays,   \* billing_past_due_grace_days
  GraceDays,     \* billing_grace_suspend_days
  Starts,        \* days on which an administrator may let a period begin
  MaxTime,       \* bound on the days that pass
  None

ASSUME BillingAssumption ==
  /\ Provider \in [Payments -> {"payme", "click", "manual"}]
  /\ ByHand \subseteq Payments
  /\ Order \in [Txns -> Payments]
  /\ Serial \subseteq Payments
  /\ PlanDays \in Nat /\ TrialDays \in Nat /\ Starts \subseteq Int
  /\ PastDueDays \in Nat /\ GraceDays \in Nat /\ MaxTime \in Nat
  /\ ClickTxn \notin Txns /\ None \notin Txns \cup Payments \cup Int
  /\ ClickTxn # None

VARIABLES
  now,        \* the day
  status,     \* tenants.status
  trialEnd,   \* tenants.trial_ends_at
  period,     \* tenant_subscriptions: current_period_start and _end
  payment,    \* payment[k]: the row of subscription_payments
  ref,        \* ref[t]: subscription_payment_provider_refs
  tx,         \* tx[w]: where worker w is and what it has read
  (* History, for the properties only. *)
  granted,    \* granted[k]: how often k's period was given to the tenant
  created,    \* transactions whose CreateTransaction was answered 200
  performed,  \* payments whose settlement was confirmed to the provider
  moved,      \* dunning runs under which a period was paid for or chosen
  behind      \* work that was under way when the account was last closed

dbvars   == <<status, trialEnd, period, payment, ref>>
histvars == <<granted, created, performed, moved, behind>>
vars     == <<now, status, trialEnd, period, payment, ref, tx,
              granted, created, performed, moved, behind>>

-----------------------------------------------------------------------------
(* Rows *)

TenantStatus == {"trial", "active", "past_due", "grace", "suspended",
                 "cancelled"}

Period   == [start: Int, end: Int]
NoPeriod == [start |-> None, end |-> None]
From(start, days) == [start |-> start, end |-> start + days]

(* state is provider_state, which Payme reads: 1 created, 2 performed, -1  *)
(* cancelled, -2 cancelled after it was performed.                         *)
PaymentRow == [status: {"absent", "pending", "paid", "cancelled"},
               start: Int, end: Int,
               txn: Txns \cup {ClickTxn, None}, state: {0, 1, 2, -1, -2}]
NoPayment  == [status |-> "absent", start |-> 0, end |-> 0,
               txn |-> None, state |-> 0]
Row(s, p, txn, state) ==
  [status |-> s, start |-> p.start, end |-> p.end,
   txn |-> txn, state |-> state]
Invoice(p) == Row("pending", p, None, 0)

(* A worker: the transaction and the provider_state it is about to write,  *)
(* the payment whose row a settlement has locked or a prepare has read, or *)
(* what a dunning run is about to set and when it listed the tenant; and   *)
(* the tenant's status as a settlement or a run has read it.               *)
PC == {"idle", "create", "create_ref", "cancel", "prepare",
       "settle", "perform", "complete", "look", "advance"}
Tx == [pc: PC, txn: Txns \cup {None}, pay: Payments \cup {None},
       state: {0, -1, -2},
       listed: TenantStatus, asof: Nat, target: TenantStatus]
Idle == [pc |-> "idle", txn |-> None, pay |-> None, state |-> 0,
         listed |-> "trial", asof |-> 0, target |-> "trial"]
ForTxn(pc, t, state) ==
  [pc |-> pc, txn |-> t, pay |-> None, state |-> state,
   listed |-> "trial", asof |-> 0, target |-> "trial"]
ForPayment(pc, k, t, listed) ==
  [pc |-> pc, txn |-> t, pay |-> k, state |-> 0,
   listed |-> listed, asof |-> 0, target |-> "trial"]
Dunning(pc, listed, asof, target) ==
  [pc |-> pc, txn |-> None, pay |-> None, state |-> 0,
   listed |-> listed, asof |-> asof, target |-> target]

Finish(w) == tx' = [tx EXCEPT ![w] = Idle]

-----------------------------------------------------------------------------
(* Guards of the queries *)

(* UPDATE subscription_payments ... WHERE status = 'pending'.              *)
(* Mutant: without the condition.                                          *)
PayableAlways(k) == payment[k].status # "absent"
Payable(k) == payment[k].status = "pending"

(* ... WHERE status IN ('pending', 'paid').                                *)
Cancellable(k) == payment[k].status \in {"pending", "paid"}

(* ... WHERE provider_transaction_id IS NULL.  Mutant: without it.         *)
UnboundAlways(k) == TRUE
Unbound(k) == payment[k].txn = None

(* _apply_successful_payment leaves the status s of a tenant that it read  *)
(* as cancelled.  Mutant: it does not ask.                                 *)
ReactivatedAlways(read, s) == "active"
Reactivated(read, s) == IF read = "cancelled" THEN s ELSE "active"

(* What _payme_cancel_transaction will store, from the status it reads.    *)
(* Mutant: one code for both.                                              *)
CancelStateSame(s) == -1
CancelState(s) == IF s = "paid" THEN -2 ELSE -1

(* The rung of run_dunning that a status listed on day d leads to when the *)
(* period ended on day e.  Mutant: the first threshold for both rungs.     *)
RungEarly(s, d, e) ==
  IF s = "active" THEN "past_due"
  ELSE IF s = "past_due" /\ d - e >= PastDueDays THEN "grace"
  ELSE IF s = "grace" /\ d - e >= PastDueDays THEN "suspended"
  ELSE s
Rung(s, d, e) ==
  IF s = "active" THEN "past_due"
  ELSE IF s = "past_due" /\ d - e >= PastDueDays THEN "grace"
  ELSE IF s = "grace" /\ d - e >= PastDueDays + GraceDays THEN "suspended"
  ELSE s

(* Whether Payme may call about t now. *)
Callable(t) ==
  Order[t] \in Serial => \A w \in Workers : tx[w].txn # t

(* Dunning runs, and settlements, that are under way. *)
Runs     == {w \in Workers : tx[w].pc \in {"look", "advance"}}
Settling == {"settle", "perform", "complete"}
Settlers == {w \in Workers : tx[w].pc \in Settling}

(* A settlement holds the row it has marked, and the subscription's, until *)
(* it commits.                                                             *)
RowLocked(k) == \E w \in Settlers : tx[w].pay = k

(* Whoever has finished is behind no more. *)
StillBehind == behind' = {w \in behind : tx'[w].pc # "idle"}

-----------------------------------------------------------------------------
(* A new tenant is on trial, with the trial plan's period if there is such *)
(* a plan, or exempted from expiry (NULL).                                 *)
Init ==
  /\ now = 0
  /\ status = "trial"
  /\ trialEnd \in {TrialDays, None}
  /\ period \in {From(0, TrialDays), NoPeriod}
  /\ payment = [k \in Payments |-> NoPayment]
  /\ ref = [t \in Txns |-> None]
  /\ tx = [w \in Workers |-> Idle]
  /\ granted = [k \in Payments |-> 0]
  /\ created = {}
  /\ performed = {}
  /\ moved = {}
  /\ behind = {}

Tick ==
  /\ now < MaxTime
  /\ now' = now + 1
  /\ UNCHANGED <<dbvars, tx, histvars>>

-----------------------------------------------------------------------------
(* The subscription and its invoices *)

(* The operator closes the account: no endpoint does, 'cancelled' is set   *)
(* in the table of tenants, and the code reads it there.                   *)
CloseAccount ==
  /\ status # "cancelled"
  /\ status' = "cancelled"
  /\ behind' = behind \cup Runs \cup Settlers
  /\ UNCHANGED <<now, trialEnd, period, payment, ref, tx,
                 granted, created, performed, moved>>

(* select_own_subscription begins the plan now, assign_subscription on any *)
(* day of the administrator's choice.                                      *)
ChoosePlan(start) ==
  /\ Settlers = {}
  /\ period' = From(start, PlanDays)
  /\ moved' = moved \cup Runs
  /\ UNCHANGED <<now, status, trialEnd, payment, ref, tx,
                 granted, created, performed, behind>>

(* POST /billing/payments/initiate: the period after the current one. *)
InitiatePayment(k) ==
  /\ Provider[k] \in {"payme", "click"}
  /\ payment[k].status = "absent"
  /\ period # NoPeriod
  /\ payment' = [payment EXCEPT ![k] = Invoice(From(period.end, PlanDays))]
  /\ UNCHANGED <<now, status, trialEnd, period, ref, tx, histvars>>

(* POST /platform/v1/tenants/{id}/invoices: the period the administrator   *)
(* names, by default the current one.                                      *)
CreateManualInvoice(k, p) ==
  /\ Provider[k] = "manual"
  /\ payment[k].status = "absent"
  /\ period # NoPeriod
  /\ payment' = [payment EXCEPT ![k] = Invoice(p)]
  /\ UNCHANGED <<now, status, trialEnd, period, ref, tx, histvars>>

(* provider_state = COALESCE(:provider_state, provider_state).             *)
Marked(row, s, state) ==
  Row(s, row, row.txn, IF state = 0 THEN row.state ELSE state)

(* One transaction settles an invoice: it marks the payment, extends the   *)
(* subscription and reads the tenant, ...                                  *)
Settle(w, pc, k, t) ==
  /\ tx[w].pc = "idle" /\ Settlers = {}
  /\ Payable(k)
  /\ tx' = [tx EXCEPT ![w] = ForPayment(pc, k, t, status)]
  /\ UNCHANGED <<now, dbvars, histvars>>

(* ... then writes the tenant's status by what it read, and commits.  A    *)
(* provider's callback is answered.                                        *)
SettleCommit(w) ==
  LET k == tx[w].pay IN
  /\ w \in Settlers
  /\ payment' = [payment EXCEPT ![k] =
       Marked(payment[k], "paid", IF tx[w].pc = "perform" THEN 2 ELSE 0)]
  /\ period' = [start |-> payment[k].start, end |-> payment[k].end]
  /\ status' = Reactivated(tx[w].listed, status)
  /\ granted' = [granted EXCEPT ![k] = @ + 1]
  /\ performed' = IF tx[w].pc = "settle" THEN performed
                                         ELSE performed \cup {k}
  /\ moved' = moved \cup Runs
  /\ Finish(w) /\ StillBehind
  /\ UNCHANGED <<now, trialEnd, ref, created>>

Void(k, state) ==
  /\ Cancellable(k) /\ ~RowLocked(k)
  /\ payment' = [payment EXCEPT ![k] = Marked(payment[k], "cancelled", state)]

(* POST .../invoices/{id}/mark-paid, of any provider's invoice. *)
MarkInvoicePaid(w, k) ==
  /\ k \in ByHand
  /\ Settle(w, "settle", k, None)

-----------------------------------------------------------------------------
(* Payme *)

(* A transaction whose reference is known: the answer is sent again. *)
RepeatCreateTransaction(t) ==
  /\ ref[t] # None
  /\ created' = created \cup {t}
  /\ UNCHANGED <<now, dbvars, tx, granted, performed, moved, behind>>

(* No reference; the payment is read without a lock. *)
CreateTransactionRead(w, t) ==
  /\ tx[w].pc = "idle" /\ Callable(t)
  /\ ref[t] = None
  /\ Provider[Order[t]] = "payme" /\ payment[Order[t]].status = "pending"
  /\ tx' = [tx EXCEPT ![w] = ForTxn("create", t, 0)]
  /\ UNCHANGED <<now, dbvars, histvars>>

(* set_subscription_payment_provider_transaction, then commit. *)
CreateTransactionStore(w) ==
  LET k == Order[tx[w].txn] IN
  /\ tx[w].pc = "create"
  /\ Unbound(k) /\ ~RowLocked(k)
  /\ payment' = [payment EXCEPT ![k] =
       Row(payment[k].status, payment[k], tx[w].txn, 1)]
  /\ tx' = [tx EXCEPT ![w] = ForTxn("create_ref", tx[w].txn, 0)]
  /\ UNCHANGED <<now, status, trialEnd, period, ref, histvars>>

CreateTransactionTaken(w) ==
  /\ tx[w].pc = "create"
  /\ ~Unbound(Order[tx[w].txn])
  /\ Finish(w)
  /\ UNCHANGED <<now, dbvars, histvars>>

(* The reference, in a statement of its own. *)
CreateTransactionRef(w) ==
  LET t == tx[w].txn IN
  /\ tx[w].pc = "create_ref"
  /\ ref' = [ref EXCEPT ![t] = Order[t]]
  /\ created' = created \cup {t}
  /\ Finish(w)
  /\ UNCHANGED <<now, status, trialEnd, period, payment,
                 granted, performed, moved, behind>>

(* The payment a transaction id leads to: by its reference to the tenant,  *)
(* by its id to the row.                                                   *)
Found(t) == ref[t] # None /\ payment[Order[t]].txn = t

PerformTransaction(w, t) ==
  /\ Callable(t) /\ Found(t)
  /\ Settle(w, "perform", Order[t], t)

RepeatPerformTransaction(t) ==
  /\ Callable(t) /\ Found(t)
  /\ payment[Order[t]].status = "paid"
  /\ performed' = performed \cup {Order[t]}
  /\ UNCHANGED <<now, dbvars, tx, granted, created, moved, behind>>

(* The code of the cancellation depends on the status read here, ... *)
CancelTransactionRead(w, t) ==
  LET k == Order[t] IN
  /\ tx[w].pc = "idle" /\ Callable(t) /\ Found(t)
  /\ payment[k].status # "cancelled"
  /\ tx' = [tx EXCEPT ![w] =
       ForTxn("cancel", t, CancelState(payment[k].status))]
  /\ UNCHANGED <<now, dbvars, histvars>>

(* ... and is written to whatever row is there by then.  The tenant keeps  *)
(* the period and the status that a cancelled payment gave it.             *)
CancelTransactionWrite(w) ==
  /\ tx[w].pc = "cancel"
  /\ Void(Order[tx[w].txn], tx[w].state)
  /\ Finish(w)
  /\ UNCHANGED <<now, status, trialEnd, period, ref, histvars>>

CancelTransactionLate(w) ==
  /\ tx[w].pc = "cancel"
  /\ ~Cancellable(Order[tx[w].txn])
  /\ Finish(w)
  /\ UNCHANGED <<now, dbvars, histvars>>

-----------------------------------------------------------------------------
(* Click *)

(* The status is read without a lock, ... *)
ClickPrepareRead(w, k) ==
  /\ tx[w].pc = "idle"
  /\ Provider[k] = "click" /\ payment[k].status = "pending"
  /\ tx' = [tx EXCEPT ![w] = ForPayment("prepare", k, None, "trial")]
  /\ UNCHANGED <<now, dbvars, histvars>>

(* ... and a row that has no transaction gets Click's, whatever its status *)
(* is by then.                                                             *)
ClickPrepareBind(w) ==
  LET k == tx[w].pay IN
  /\ tx[w].pc = "prepare"
  /\ Unbound(k) /\ ~RowLocked(k)
  /\ payment' = [payment EXCEPT ![k] =
       Row(payment[k].status, payment[k], ClickTxn, payment[k].state)]
  /\ Finish(w)
  /\ UNCHANGED <<now, status, trialEnd, period, ref, histvars>>

ClickPrepareBound(w) ==
  /\ tx[w].pc = "prepare"
  /\ ~Unbound(tx[w].pay)
  /\ Finish(w)
  /\ UNCHANGED <<now, dbvars, histvars>>

ClickComplete(w, k) ==
  /\ Provider[k] = "click"
  /\ Settle(w, "complete", k, None)

RepeatClickComplete(k) ==
  /\ Provider[k] = "click" /\ payment[k].status = "paid"
  /\ performed' = performed \cup {k}
  /\ UNCHANGED <<now, dbvars, tx, granted, created, moved, behind>>

(* A completion that reports an error, whatever came before it. *)
ClickCompleteError(k) ==
  /\ Provider[k] = "click"
  /\ Void(k, 0)
  /\ UNCHANGED <<now, status, trialEnd, period, ref, tx, histvars>>

-----------------------------------------------------------------------------
(* Dunning: the tenants are listed once, then advanced one by one by the   *)
(* status that was listed and the time of the listing.                     *)

DunningList(w) ==
  /\ tx[w].pc = "idle"
  /\ tx' = [tx EXCEPT ![w] =
       IF status = "trial"
         THEN Dunning("advance", status, now, "suspended")
         ELSE Dunning("look", status, now, status)]
  /\ \/ status = "trial" /\ trialEnd # None /\ trialEnd < now
     \/ status \in {"active", "past_due", "grace"}
  /\ UNCHANGED <<now, dbvars, histvars>>

DunningLook(w) ==
  LET rung == Rung(tx[w].listed, tx[w].asof, period.end)
      due  == period # NoPeriod /\ period.end < tx[w].asof
                /\ rung # tx[w].listed
  IN
  /\ tx[w].pc = "look"
  /\ tx' = [tx EXCEPT ![w] =
       IF due THEN Dunning("advance", tx[w].listed, tx[w].asof, rung)
              ELSE Idle]
  /\ moved' = moved \ {w} /\ StillBehind
  /\ UNCHANGED <<now, dbvars, granted, created, performed>>

(* update_tenant_status, whatever the status has become. *)
DunningAdvance(w) ==
  /\ tx[w].pc = "advance"
  /\ status' = tx[w].target
  /\ moved' = moved \ {w}
  /\ Finish(w) /\ StillBehind
  /\ UNCHANGED <<now, trialEnd, period, payment, ref,
                 granted, created, performed>>

(* The process dies: what was committed stays, a transaction that was open *)
(* is rolled back.                                                         *)
Crash(w) ==
  /\ tx[w].pc # "idle"
  /\ moved' = moved \ {w}
  /\ Finish(w) /\ StillBehind
  /\ UNCHANGED <<now, dbvars, granted, created, performed>>

-----------------------------------------------------------------------------
Desk ==
  \/ Tick \/ CloseAccount
  \/ \E start \in Starts \cup {now} : ChoosePlan(start)
  \/ \E w \in Workers, k \in Payments : MarkInvoicePaid(w, k)
  \/ \E k \in Payments :
       \/ InitiatePayment(k)
       \/ \E p \in {period} \cup {From(s, PlanDays) : s \in Starts} :
            CreateManualInvoice(k, p)

Payme ==
  \/ \E t \in Txns :
       RepeatCreateTransaction(t) \/ RepeatPerformTransaction(t)
  \/ \E w \in Workers, t \in Txns :
       \/ CreateTransactionRead(w, t) \/ PerformTransaction(w, t)
       \/ CancelTransactionRead(w, t)
  \/ \E w \in Workers :
       \/ CreateTransactionStore(w) \/ CreateTransactionTaken(w)
       \/ CreateTransactionRef(w)
       \/ CancelTransactionWrite(w) \/ CancelTransactionLate(w)

Click ==
  \/ \E w \in Workers, k \in Payments :
       ClickPrepareRead(w, k) \/ ClickComplete(w, k)
  \/ \E w \in Workers : ClickPrepareBind(w) \/ ClickPrepareBound(w)
  \/ \E k \in Payments : RepeatClickComplete(k) \/ ClickCompleteError(k)

Dun ==
  \E w \in Workers : DunningList(w) \/ DunningLook(w) \/ DunningAdvance(w)

Next ==
  \/ Desk \/ Payme \/ Click \/ Dun
  \/ \E w \in Workers : SettleCommit(w) \/ Crash(w)

Spec == Init /\ [][Next]_vars

-----------------------------------------------------------------------------
(* Invariants *)

TypeOK ==
  /\ now \in Nat
  /\ status \in TenantStatus
  /\ trialEnd \in Int \cup {None}
  /\ period \in Period \cup {NoPeriod}
  /\ payment \in [Payments -> PaymentRow]
  /\ ref \in [Txns -> Payments \cup {None}]
  /\ tx \in [Workers -> Tx]
  /\ granted \in [Payments -> Nat]
  /\ created \subseteq Txns
  /\ performed \subseteq Payments
  /\ moved \subseteq Workers
  /\ behind \subseteq Workers

(* A transaction whose creation Payme was told of is found when Payme      *)
(* performs, cancels or checks it, for ever: neither a rival transaction   *)
(* of the same order nor a repeated or crashed call takes it away.         *)
CreatedIsFound == \A t \in created : Found(t)

(* A provider that was told "paid" has brought the tenant a period, once:  *)
(* no success is answered for an invoice that was voided before.           *)
ConfirmedWasGranted == \A k \in performed : granted[k] = 1

(* What a dunning run is about to do is due by the day of its listing.     *)
OverBy(w, days) ==
  period # NoPeriod /\ tx[w].asof - period.end >= days

Due(w) ==
  IF tx[w].listed = "trial"
    THEN trialEnd # None /\ trialEnd < tx[w].asof
    ELSE /\ tx[w].target = "past_due" => OverBy(w, 1)
         /\ tx[w].target = "grace" => OverBy(w, PastDueDays)
         /\ tx[w].target = "suspended" => OverBy(w, PastDueDays + GraceDays)

(* A dunning run suspends no tenant whose trial was not over when it was   *)
(* listed, and takes none down a rung earlier than config.py says, unless  *)
(* the period was moved since the run looked at it.                        *)
AdvanceIsDue ==
  \A w \in Workers \ moved : tx[w].pc = "advance" => Due(w)

-----------------------------------------------------------------------------
(* What makes them inductive. *)

(* A payment bound to a Payme transaction is Payme's and the one of the    *)
(* transaction's order, and a reference leads to the payment it was        *)
(* written for.                                                            *)
Bound ==
  /\ \A k \in Payments : payment[k].txn \in Txns =>
       Order[payment[k].txn] = k /\ Provider[k] = "payme"
  /\ \A t \in Txns : ref[t] # None =>
       ref[t] = Order[t] /\ payment[Order[t]].txn = t

(* What a callback under way rests on. *)
InHand(w) ==
  /\ tx[w].pc \in {"create", "create_ref", "cancel"} => tx[w].txn \in Txns
  /\ tx[w].pc \in {"create_ref", "cancel"} =>
       payment[Order[tx[w].txn]].txn = tx[w].txn
  /\ tx[w].pc = "create" => Provider[Order[tx[w].txn]] = "payme"
                             /\ payment[Order[tx[w].txn]].status # "absent"
  /\ tx[w].pc = "prepare" =>
       /\ tx[w].pay \in Payments /\ Provider[tx[w].pay] = "click"
       /\ payment[tx[w].pay].status # "absent"
  /\ tx[w].pc \in Settling =>
       tx[w].pay \in Payments /\ payment[tx[w].pay].status = "pending"
  /\ tx[w].pc = "settle" => tx[w].pay \in ByHand
  /\ tx[w].pc = "complete" => Provider[tx[w].pay] = "click"
  /\ tx[w].pc = "perform" =>
       /\ tx[w].txn \in Txns /\ tx[w].pay = Order[tx[w].txn]
       /\ payment[tx[w].pay].txn = tx[w].txn

(* The row of the subscription lets one settlement at a time through.      *)
OneSettles == \A v, w \in Settlers : v = w

(* A period is given when its invoice turns paid. *)
GrantedOnce ==
  \A k \in Payments :
    /\ granted[k] <= 1
    /\ payment[k].status = "paid" => granted[k] = 1
    /\ payment[k].status \in {"absent", "pending"} => granted[k] = 0
    /\ payment[k].status = "absent" => payment[k].txn = None

(* Of a closed account, only what was under way when it was closed has     *)
(* read anything else; a run looks at no tenant that is on trial.          *)
Looks(w) ==
  /\ status = "cancelled" /\ w \in Runs \cup Settlers
       /\ tx[w].listed # "cancelled" => w \in behind
  /\ w \in behind => w \in Runs \cup Settlers
  /\ w \in Runs => tx[w].listed # "cancelled"
  /\ tx[w].pc = "look" => tx[w].listed \in {"active", "past_due", "grace"}
  /\ tx[w].pc = "advance" => tx[w].target # "cancelled"

(* While Payme's calls about an invoice's transactions come one at a time, *)
(* and nobody settles it by hand, what is reported agrees with its row,    *)
(* and a cancellation under way is still right about it.                   *)
InOrder == Serial \ ByHand

Alone(w) ==
  tx[w].txn # None /\ Order[tx[w].txn] \in InOrder =>
    \A v \in Workers : tx[v].txn = tx[w].txn => v = w

StateAgrees(k) ==
  Provider[k] = "payme" =>
    /\ payment[k].txn = None => payment[k].status \in {"absent", "pending"}
    /\ payment[k].txn # None /\ payment[k].status = "pending"
         => payment[k].state = 1
    /\ payment[k].txn # None /\ payment[k].status = "paid"
         => payment[k].state = 2

CancelsRight(w) ==
  tx[w].pc = "cancel" /\ Order[tx[w].txn] \in InOrder =>
    LET s == payment[Order[tx[w].txn]].status
    IN  s # "cancelled" /\ tx[w].state = CancelState(s)

OrderInv ==
  /\ \A w \in Workers : Alone(w) /\ CancelsRight(w)
  /\ \A k \in InOrder : StateAgrees(k)

BillingInv ==
  /\ TypeOK /\ Bound /\ GrantedOnce /\ OneSettles
  /\ \A w \in Workers : InHand(w) /\ Looks(w)
  /\ CreatedIsFound /\ ConfirmedWasGranted /\ AdvanceIsDue
  /\ OrderInv

-----------------------------------------------------------------------------
(* Action properties *)

(* A closed account is opened again only by a settlement or a dunning run  *)
(* that was under way when it was closed, and had read the tenant before:  *)
(* nothing that begins later does, however long the other is delayed.      *)
ReopenedByStaleWorkOnly ==
  [][status = "cancelled" /\ status' # "cancelled" =>
       \E w \in behind : tx'[w] = Idle]_vars

-----------------------------------------------------------------------------
(* What the components promise to the outside. *)

StageOf(s) ==
  IF s = "absent" THEN "none" ELSE IF s = "pending" THEN "open"
  ELSE IF s = "paid" THEN "settled" ELSE "void"

Stages == [k \in Payments |-> StageOf(payment[k].status)]

Book == INSTANCE InvoiceBook WITH stage <- Stages, periods <- granted

(* Whatever is repeated, delayed or raced, each invoice is settled at most *)
(* once and gives its period then, and a voided one stays void.            *)
ImplementsBook == Book!Spec

OrderedTxns == {t \in Txns : Order[t] \in InOrder}

Reported == [t \in OrderedTxns |->
  IF payment[Order[t]].txn = t THEN payment[Order[t]].state ELSE 0]

Protocol == INSTANCE PaymeProtocol WITH Txns <- OrderedTxns, state <- Reported

(* CheckTransaction reports the states of a Payme transaction in the order *)
(* the protocol has them, if its calls come one at a time and nobody       *)
(* settles its invoice by hand.                                            *)
ImplementsPayme == Protocol!Spec

-----------------------------------------------------------------------------
(* What docs and comments say and the code does not do *)

(* migrations/0020_self_registration.sql: run_dunning suspends trial       *)
(* tenants whose trial has passed "without a paid subscription".  A tenant *)
(* is active once it has paid, and from there a run leads to past_due.     *)
TrialSuspendedUnpaid ==
  [][status = "active" /\ status' = "suspended" =>
       period # NoPeriod /\ period.end < now]_vars
=============================================================================
