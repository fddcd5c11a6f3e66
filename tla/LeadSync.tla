------------------------------ MODULE LeadSync ------------------------------
(***************************************************************************)
(* One deal of the tenant's AmoCRM account and the sale it becomes.  Every *)
(* application process pulls the deals under a lock in Redis that expires  *)
(* whether or not its holder is done, and that a holder deletes without    *)
(* looking whose it is.  A pull reads the sale and then creates, reprices, *)
(* closes or pays it, each in a transaction of its own, while the desks    *)
(* work on the same sale and the manager on the deal.                      *)
(***************************************************************************)
EXTENDS Integers, FiniteSetsExt

CONSTANTS
  Puller,     \* application processes
  Price,      \* amounts a deal or a sale may have
  MaxTurns    \* bound on what managers and desks do, and on slow or failing pulls

ASSUME LeadAssumption == Price \subseteq Nat /\ MaxTurns \in Nat

VARIABLES
  deal,      \* price and stage of the deal in AmoCRM
  sale,      \* the row of the sale, version 0 when there is none
  posted,    \* charges and adjustments in the sale's ledger entries
  paid,      \* payments in them, less what was reversed or refunded
  payment,   \* sale_payments: idempotency key, and what was not reversed
  lock,      \* lock:amocrm_leads_sync is in Redis
  pull,      \* where each process is, and what it has read
  turns,     \* how much of that bound is used
  (* History, for the properties only. *)
  unposted,  \* changes of the price without an entry: torn, or by a desk
  expired    \* the lock has expired in someone's hands

leadVars ==
  <<deal, sale, posted, paid, payment, lock, pull, turns, unposted, expired>>

-----------------------------------------------------------------------------
\* A pull knows the deal it was told of, the version of the sale it has read,
\* and the amount it is to post or to pay.
Stage    == {"open", "won", "lost", "received"}
Closed   == {"completed", "cancelled"}
LeadSale == [price: Price \cup {0}, status: {"active"} \cup Closed, version: Nat]
LeadPC   == {"off", "list", "look", "create", "charge", "price", "adjust",
             "stage", "close", "owed", "pay", "release"}
Paying   == [key: Stage \cup {"desk"}, amount: Int]
Pull     == [pc: LeadPC, price: Price \cup {0}, stage: Stage,
             seen: Nat, owes: Int]

NoLeadSale == [price |-> 0, status |-> "active", version |-> 0]
NoPull     == [pc |-> "off", price |-> 0, stage |-> "open", seen |-> 0, owes |-> 0]

Owes == posted - paid

Ends(p) == pull' = [pull EXCEPT ![p] = [NoPull EXCEPT !.pc = "release"]]
Goes(p, pc, price, seen, owes) ==
  pull' = [pull EXCEPT ![p] = [pc |-> pc, price |-> price, stage |-> @.stage,
                               seen |-> seen, owes |-> owes]]

(* The guarded UPDATE of the price or the status.  Mutant: by id only.     *)
SameVersionAny(p) == sale.version > 0
SameVersion(p) == sale.version = pull[p].seen

(* Which sales follow the price of their deal: those that are not closed.  *)
(* Mutant: all.                                                            *)
FollowsPriceAlways(row) == TRUE
FollowsPrice(row) == row.status \notin Closed

-----------------------------------------------------------------------------
LeadsInit ==
  /\ deal \in [price: Price, stage: {"open"}]
  /\ sale = NoLeadSale /\ posted = 0 /\ paid = 0 /\ payment = {}
  /\ lock = FALSE /\ pull = [p \in Puller |-> NoPull]
  /\ turns = 0
  /\ unposted = 0 /\ expired = FALSE

Turn == turns < MaxTurns /\ turns' = turns + 1

\* SET lock NX EX
Acquire(p) ==
  /\ pull[p].pc = "off" /\ ~lock
  /\ lock' = TRUE
  /\ Goes(p, "list", 0, 0, 0)
  /\ UNCHANGED <<deal, sale, posted, paid, payment, turns, unposted, expired>>

(* list_leads: the deal as it is now, if it changed within the last three  *)
(* intervals.                                                              *)
List(p) ==
  /\ pull[p].pc = "list"
  /\ pull' = [pull EXCEPT ![p] =
       [@ EXCEPT !.pc = "look", !.price = deal.price, !.stage = deal.stage]]
  /\ UNCHANGED <<deal, sale, posted, paid, payment, lock, turns, unposted, expired>>

ListsNothing(p) ==
  /\ pull[p].pc = "list"
  /\ Ends(p)
  /\ UNCHANGED <<deal, sale, posted, paid, payment, lock, turns, unposted, expired>>

\* get_sale_by_idempotency_key
Look(p) ==
  LET pc == IF sale.version = 0 THEN "create"
            ELSE IF pull[p].price # sale.price /\ FollowsPrice(sale) THEN "price"
            ELSE "stage" IN
  /\ pull[p].pc = "look"
  /\ Goes(p, pc, pull[p].price, sale.version, pull[p].price - sale.price)
  /\ UNCHANGED <<deal, sale, posted, paid, payment, lock, turns, unposted, expired>>

(* create_sale.  If another pull was faster, its deadline is another, and  *)
(* IdempotencyKeyReusedError ends the ingestion.                           *)
CreateLeadSale(p) ==
  /\ pull[p].pc = "create"
  /\ IF sale.version = 0
       THEN /\ sale' = [price |-> pull[p].price, status |-> "active", version |-> 1]
            /\ Goes(p, "charge", 0, 0, pull[p].price)
       ELSE Ends(p) /\ UNCHANGED sale
  /\ UNCHANGED <<deal, posted, paid, payment, lock, turns, unposted, expired>>

(* apply_tariff_change: the price now, its entry in the next transaction.  *)
(* A version conflict is dropped.                                          *)
Reprice(p) ==
  /\ pull[p].pc = "price"
  /\ IF SameVersion(p)
       THEN /\ sale' = [sale EXCEPT !.price = pull[p].price, !.version = @ + 1]
            /\ Goes(p, "adjust", 0, 0, pull[p].owes)
       ELSE Goes(p, "stage", 0, 0, 0) /\ UNCHANGED sale
  /\ UNCHANGED <<deal, posted, paid, payment, lock, turns, unposted, expired>>

\* post_charge ends the ingestion; the adjustment of _sync_sale_price does not
PostLeadCharge(p) ==
  /\ pull[p].pc = "charge"
  /\ posted' = posted + pull[p].owes
  /\ Ends(p)
  /\ UNCHANGED <<deal, sale, paid, payment, lock, turns, unposted, expired>>

PostAdjustment(p) ==
  /\ pull[p].pc = "adjust"
  /\ posted' = posted + pull[p].owes
  /\ Goes(p, "stage", 0, 0, 0)
  /\ UNCHANGED <<deal, sale, paid, payment, lock, turns, unposted, expired>>

(* The branches on the deal's stage.  A won or a lost deal closes the sale *)
(* first: update_sale_status_from_crm reads the row again ...              *)
ByStage(p) ==
  /\ pull[p].pc = "stage"
  /\ IF pull[p].stage \in {"won", "lost"} /\ sale.status = "active"
       THEN Goes(p, "close", 0, sale.version, 0)
     ELSE IF pull[p].stage \in {"won", "received"}
       THEN Goes(p, "owed", 0, 0, 0)
     ELSE Ends(p)
  /\ UNCHANGED <<deal, sale, posted, paid, payment, lock, turns, unposted, expired>>

\* ... and writes it if it is still the same; a conflict is dropped.
CloseLeadSale(p) ==
  LET won == pull[p].stage = "won" IN
  /\ pull[p].pc = "close"
  /\ sale' = IF SameVersion(p)
               THEN [sale EXCEPT !.status = IF won THEN "completed" ELSE "cancelled",
                                 !.version = @ + 1]
               ELSE sale
  /\ IF won THEN Goes(p, "owed", 0, 0, 0) ELSE Ends(p)
  /\ UNCHANGED <<deal, posted, paid, payment, lock, turns, unposted, expired>>

\* _record_full_payment_if_owed reads the balance in one transaction ...
ReadOwed(p) ==
  /\ pull[p].pc = "owed"
  /\ IF Owes > 0 THEN Goes(p, "pay", 0, 0, Owes) ELSE Ends(p)
  /\ UNCHANGED <<deal, sale, posted, paid, payment, lock, turns, unposted, expired>>

(* record_payment, under the lock of the sale's row: a fresh key, not      *)
(* cancelled, not more than is owed.  What settles the sale completes it.  *)
MayPay(key, amount) ==
  /\ sale.status # "cancelled" /\ amount <= Owes
  /\ \A x \in payment : x.key # key

Pays(key, amount) ==
  /\ payment' = payment \cup {[key |-> key, amount |-> amount]}
  /\ paid' = paid + amount
  /\ sale' = IF amount = Owes /\ sale.status = "active"
               THEN [sale EXCEPT !.status = "completed", !.version = @ + 1]
               ELSE sale

\* ... and pays it in another, or the payment is refused or was made before.
PayOwed(p) ==
  /\ pull[p].pc = "pay"
  /\ IF MayPay(pull[p].stage, pull[p].owes)
       THEN Pays(pull[p].stage, pull[p].owes)
       ELSE UNCHANGED <<sale, paid, payment>>
  /\ Ends(p)
  /\ UNCHANGED <<deal, posted, lock, turns, unposted, expired>>

\* DELETE lock, whoever holds it
Release(p) ==
  /\ pull[p].pc = "release"
  /\ lock' = FALSE
  /\ pull' = [pull EXCEPT ![p] = NoPull]
  /\ UNCHANGED <<deal, sale, posted, paid, payment, turns, unposted, expired>>

(* A call or a transaction fails and the ingestion is logged and left; or  *)
(* the process dies, and its lock waits for its time to live.              *)
TornPull(p) ==
  /\ Turn /\ pull[p].pc \notin {"off", "release"}
  /\ unposted' = IF pull[p].pc \in {"charge", "adjust"}
                   THEN unposted + pull[p].owes ELSE unposted
  /\ \E pc \in {"off", "release"} :
       pull' = [pull EXCEPT ![p] = [NoPull EXCEPT !.pc = pc]]
  /\ UNCHANGED <<deal, sale, posted, paid, payment, lock, expired>>

-----------------------------------------------------------------------------
\* 300 seconds after SET: the holder is gone, or slow.
Expire ==
  LET slow == \E p \in Puller : pull[p].pc # "off" IN
  /\ lock
  /\ lock' = FALSE
  /\ expired' = (expired \/ slow)
  /\ IF slow THEN Turn ELSE UNCHANGED turns
  /\ UNCHANGED <<deal, sale, posted, paid, payment, pull, unposted>>

\* The manager works on the deal in AmoCRM.
DealChanges ==
  /\ Turn
  /\ \E d \in [price: Price, stage: Stage] \ {deal} : deal' = d
  /\ UNCHANGED <<sale, posted, paid, payment, lock, pull, unposted, expired>>

(* A desk takes money, gives it back, or edits the sale: its price,        *)
(* without an entry, or the status of one that is not closed.              *)
DeskPays ==
  /\ Turn /\ sale.version > 0
  /\ \E amount \in Price : MayPay("desk", amount) /\ Pays("desk", amount)
  /\ UNCHANGED <<deal, posted, lock, pull, unposted, expired>>

(* reverse_payment reopens a completed sale that is owed for again, ...    *)
DeskReverses ==
  /\ Turn
  /\ \E x \in payment :
       /\ x.amount > 0
       /\ payment' = (payment \ {x}) \cup {[x EXCEPT !.amount = 0]}
       /\ paid' = paid - x.amount
  /\ sale' = IF sale.status = "completed" /\ posted > paid'
               THEN [sale EXCEPT !.status = "active", !.version = @ + 1]
               ELSE sale
  /\ UNCHANGED <<deal, posted, lock, pull, unposted, expired>>

\* ... and a refund leaves the sale as it is.
DeskRefunds ==
  /\ Turn
  /\ \E amount \in Price : amount <= paid /\ paid' = paid - amount
  /\ UNCHANGED <<deal, sale, posted, payment, lock, pull, unposted, expired>>

DeskEdits ==
  /\ Turn /\ sale.version > 0
  /\ \E price \in Price, status \in {sale.status} \cup Closed :
       /\ sale.status \in Closed => status = sale.status
       /\ sale' = [price |-> price, status |-> status, version |-> sale.version + 1]
       /\ unposted' = unposted + price - sale.price
  /\ UNCHANGED <<deal, posted, paid, payment, lock, pull, expired>>

-----------------------------------------------------------------------------
Pulls(p) ==
  \/ Acquire(p) \/ List(p) \/ ListsNothing(p) \/ Look(p)
  \/ CreateLeadSale(p) \/ PostLeadCharge(p)
  \/ Reprice(p) \/ PostAdjustment(p)
  \/ ByStage(p) \/ CloseLeadSale(p) \/ ReadOwed(p) \/ PayOwed(p)
  \/ Release(p) \/ TornPull(p)

Desks == DeskPays \/ DeskReverses \/ DeskRefunds \/ DeskEdits

LeadsNext == (\E p \in Puller : Pulls(p)) \/ Expire \/ DealChanges \/ Desks

-----------------------------------------------------------------------------
LeadTypeOK ==
  /\ deal \in [price: Price, stage: Stage] /\ sale \in LeadSale
  /\ posted \in Int /\ paid \in Int /\ payment \subseteq Paying
  /\ lock \in BOOLEAN /\ pull \in [Puller -> Pull]
  /\ turns \in 0..MaxTurns
  /\ unposted \in Int /\ expired \in BOOLEAN

Posting == {p \in Puller : pull[p].pc \in {"charge", "adjust"}}

(* The sale's price is what was posted, what is about to be and what is    *)
(* known to be missing: two pulls of one deal, however they overlap, post  *)
(* one charge and each change of the price once.                           *)
PriceIsPosted ==
  sale.price = posted + unposted + MapThenSumSet(LAMBDA p : pull[p].owes, Posting)

\* Pulls overlap only once the lock has expired under one of them.
OneAtATime ==
  ~expired => \A p, q \in Puller :
    pull[p].pc # "off" => lock /\ (pull[q].pc # "off" => p = q)

\* A pull that is about to write the sale, and finds it as it has read it,
\* finds it open.
Fenced(p) ==
  /\ pull[p].seen <= sale.version
  /\ pull[p].pc = "price" /\ SameVersion(p) => sale.status \notin Closed
  /\ pull[p].pc = "close" /\ SameVersion(p) => sale.status = "active"

(* Whatever becomes of the lock, prices and entries agree; while it does   *)
(* not expire in a pull, it keeps the pulls apart.                         *)
PullsFenced ==
  /\ LeadTypeOK /\ OneAtATime
  /\ \A p \in Puller : Fenced(p)
  /\ sale.version = 0 => sale.status = "active"

(* A pull that will find the sale as it has read it knows by how much it   *)
(* changes the price; no price is there before the sale is.                *)
KnowsChange(p) ==
  pull[p].pc = "price" /\ SameVersion(p) =>
    pull[p].owes = pull[p].price - sale.price

ChangesKnown ==
  /\ IsFiniteSet(Posting)
  /\ sale.version = 0 => sale.price = 0
  /\ \A p \in Puller : KnowsChange(p)

(* Two pulls of one deal, however they overlap, neither write over an      *)
(* edit they have not read nor post a price twice or not at all.           *)
LeadInv == PullsFenced /\ ChangesKnown /\ PriceIsPosted

(* A closed sale is left as it is by every pull, also by one that read it  *)
(* or its deal before: only a desk changes its price, or reopens it by a   *)
(* reversal.                                                               *)
PullsLeaveClosedSales ==
  [][sale.status \in Closed =>
       /\ \/ sale'.status = sale.status
          \/ sale.status = "completed" /\ paid' < paid
       /\ sale'.price = sale.price \/ unposted' # unposted]_leadVars
=============================================================================
