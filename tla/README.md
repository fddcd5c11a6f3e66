# A formal model of the tzmliy back end and its console

The repository is a multi-tenant CRM and sales back office: a FastAPI modular
monolith (`src/backend/app`) over PostgreSQL with row-level security, Redis
and Celery, and a React front end (`src/frontend`).  This directory holds TLA+
modules of the parts of both whose correctness depends on the order in which
concurrent requests, background workers, outside services, browser tabs and
late answers act, the TLC configurations that check them on small instances,
and proofs of the most important results for instances of every size.

## The system

A request handler, a background worker and a webhook all do the same thing:
open a `tenant_connection` (`core/database.py:39-51`), which is one `READ
COMMITTED` transaction with the tenant's row-level-security setting, run SQL
in it, and commit when the block ends or roll back when it raises.  A handler
often opens several blocks one after another.  `platform_connection` (54-59)
has no transaction: every statement commits on its own.  Nothing else orders
two handlers: uvicorn runs several processes, each with an event loop, and the
asyncio workers run in each of them.  So what can go wrong is what happens
between two statements of one block whose first took no lock, and between two
blocks of one handler.

The browser adds an order of its own.  A page sends requests from effects,
clicks and timers, cancels none of them, and puts every answer into whatever
it has become by then; several tabs share one refresh token in `localStorage`.

| component (`app/modules/...`) | state | operations | interacts with | hard part | what makes it correct |
|---|---|---|---|---|---|
| sales | `sales`, `sale_changes` | create, PATCH, tariff change, status from CRM | finance (charge, completion), products (stock), CRM | unlocked read before a guarded UPDATE; sale and charge in two transactions | terminal states, a complete audit trail, one charge per sale |
| finance: payments, ledger | `sale_payments`, `ledger_entries` | charge, pay, reverse | sales | two payments at once; completion and reopening race with cancellation | balance never negative, every row posted once |
| finance: adjustment requests | `adjustment_requests`, `refunds` | file, approve, reject, replay | sales, ledger | two reviewers; approval and effect in two transactions | one effect per request |
| finance: payroll; reports: exports | job tables | enqueue, claim, run, mark, requeue stale | workers | a slow worker and the reaper | a finished job stays finished, none is lost |
| products | `products.stock_quantity` | take, give back, adjust | sales | the last unit; double restock | units conserved |
| calls | `calls`, recording queue | webhook, claim, download, give up | provider, storage | claim that times out, late answers, attempts | a recording is stored, or given up after all its attempts |
| crm | credentials, imported leads | poll or webhook, ingest lead, price sync, refresh token | sales, finance | one lead pulled twice; several transactions per lead; Redis lock with a TTL | one sale per lead, its price posted once, closed sales left alone |
| billing | subscriptions, platform payments | trial, choose plan, Payme and Click callbacks, dunning | tenants | callbacks repeated or out of order; dunning on a stale list | a paid period is not lost, a payment applies once |
| notifications | outbox, delivery log, schedules, Telegram links | enqueue, deliver, retry, dead-letter, schedule | Celery, Telegram | a task enqueued twice, a send whose mark is lost | every message ends sent or dead, bounded attempts |
| auth | refresh sessions, one-time codes and their counters | login, rotate, log out, ask for a code, redeem it | Redis, browser | rotation race, separate Redis commands | a code works once, a revoked session stays revoked |
| tenants | tenant, settings, admin, trial | register, reset | auth, billing | a saga over three transactions | not modelled |
| backups | tenant dumps, Telegram offset | dump, restore request, poll | Telegram | offset stored before processing | not modelled: one actor |
| analytics, attendance, catalog, complaints, customers, platform_dashboard | own tables | single-row CRUD and reads | | none: one statement each | not modelled |
| core | pools, settings, middleware, storage | | all | pure plumbing | modelled only as the transaction discipline above |
| frontend: auth stores | React state of a tab, the token shared by tabs | load, sign in, refresh, sign out | auth | tabs rotate one token at the same time, answers are lost | a tab that looks signed in is, a dead token has a cause |
| frontend: pages | lists, forms, busy flags, requests under way | load, save, change, remove, send | REST API | late answers of loads that were overtaken, closed forms | the list shows what it says, nothing is sent twice but in doubt |
| frontend: form of a new sale | steps, look-ups, lines to submit | choose or add a customer, look up debts, submit line by line | sales, customers | a look-up overtaken by another choice, a submit that fails half way | a line is sold twice only after a failure |
| frontend: screens that ask for a code | step, countdown | ask, ask again, enter | auth | an input that submits by itself, several tabs | a dead code is refused |
| frontend: landing, legal, TV page, theme | browser state | | REST API | | not modelled |

`PROJECT.json` lists each component with its status, and under `hazards` the
places, by file and line, where an order of events nobody tests for could
break something, each with the properties that would show it.

## Modules

| module | models | about |
|---|---|---|
| `SaleLedger` | `sales/service.py`, `sales/router.py`, the payments, reversals and adjustment requests of `finance/service.py`, the stock of `products/service.py` | one module, since every one of these operations writes the same rows in one transaction: the sale, its ledger entries, the stock |
| `JobQueue` | `finance/payroll_worker.py`, `reports/export_worker.py`, their queries and runs | the two queues are the same code twice; parameters say which of the two it is |
| `JobBoard` | what the poller of `GET .../jobs/{id}` is promised | abstract specification of `JobQueue` |
| `CallRecordings` | `calls/recording_worker.py`, its queries | the queue of one tenant's recordings |
| `NotificationOutbox` | `notifications/tasks.py`, the outbox queries | one tenant's outbox, the broker and its processes |
| `LeadSync` | the AmoCRM pull of `crm/worker.py` and `crm/service.py`, what it calls of sales and finance | one deal and its sale |
| `Background` | the loops that run without a request | composes `JobQueue`, `CallRecordings`, `NotificationOutbox`, `LeadSync` |
| `Billing` | `billing/service.py`: plan, invoices, Payme, Click, dunning | one tenant's subscription and the platform's invoices to it |
| `InvoiceBook` | what an invoice may go through | abstract specification of `Billing` |
| `PaymeProtocol` | the states `PAYME_STATE_...` of `billing/providers.py` in their order | abstract specification of what `CheckTransaction` reports |
| `BrowserSession` | `lib/auth/tenantAuthStore.tsx`, `lib/auth/platformAuthStore.tsx`, `lib/api/client.ts`, refresh sessions of `auth/service.py` | the tabs of one user and the sessions the server keeps for them |
| `ConsolePage` | the pages of both consoles, what they have in common | one page: its loads, handlers, forms and busy flags |
| `ConsoleTables` | the same pages, what each makes of it | a descriptor per page |
| `SaleForm` | the new-sale form of `pages/dashboard/SalesPage.tsx` | customer, debts, lines, submit |
| `OneTimeCodes` | the code screens, `auth/otp_store.py` and its callers | six flows with a one-time code |
| `Console` | the router's choice of a screen | composes `ConsolePage`, `SaleForm`, `OneTimeCodes` |
| `MCSaleLedger`, `MCJobQueue`, `MCBackground`, `MCBilling`, `MCBrowserSession`, `MCConsole` | | instances and symmetry for TLC |
| `SaleLedgerProofs`, `JobQueueProofs`, `BillingProofs`, `BrowserSessionProofs`, `ConsolePageProofs`, `ConsoleProofs`, `BackgroundProofs` | | theorems and their proofs |
| `SumLemmas` | | lemmas about sums over finite sets, for the proofs |

### From handlers to actions

`tx[w]` is a request, worker or callback `w` under way: a program counter, the
arguments its caller sent and what it has read so far.  A transaction that
checks and writes under one guarded statement or one row lock is one action.
A transaction that reads a row without a lock and writes afterwards what
depends on it is two, `...Read` and `...Write` or `...Commit`; everybody else
may commit in between.  A handler of several transactions has at least one
action for each, and `Crash(w)` may end it between any two.  A guarded
`UPDATE` that finds no row is an action too when the handler goes on or has
something to undo (`VersionConflict`, `ReversePaymentLate`,
`ApproveRefundLate`, `CreateTransactionTaken`, `CancelTransactionLate`).  A
call that is refused before it wrote anything leaves the state as it was and
is not an action.

Variables called history in the modules (`audit`, `charges`, `supplied`,
`acked`, `applied`; `since`, `reaped`; `granted`, `created`, `performed`,
`moved`, `behind`; `overtaken` of the recordings; `received`, `excused`; `unposted`,
`expired`) are read by properties only.

**SaleLedger.**  `sale`, `payment`, `request` and `stock` are rows of their
tables, keyed by the idempotency key that names them.  The code reads
`ledger_entries` through `SUM(amount)` only, per sale and per entry type, so
`ledger[s]` holds these four sums.  `POST /sales` is `CreateSale` and
`PostCharge`, two transactions (`sales/router.py:36-52`); its repetition is
`ReplayCreateSale`.  `PATCH` is `UpdateSaleRead` and `UpdateSaleWrite`.
`record_payment` holds the sale's row from its first statement:
`RecordPaymentLock` takes it with everything read under it, `RowLocked` keeps
others from writing the row or inserting into the ledger (whose foreign key
shares the row's key), and `RecordPaymentCommit` writes.  Approving a tariff
change is three transactions or reads: `ApproveTariff`, `ApplyTariffRead`,
`ApplyTariffWrite`.  Clients name a version they have been shown, never one
from the future.  The CRM ingestion also writes sales, through an operation of
its own (`update_sale_status_from_crm`); it is in `LeadSync`, so what is said
here about sales is said about those the desks alone work on.

**JobQueue.**  `TargetOf` says what a job writes: a file of its own (export),
or the entries of a period that other jobs write as well (payroll).
`WritesEmpty` says whether nothing found is still a result (an empty file is,
no payment leaves the entries alone).  What a run computes from is a counter
of records and its result is the number it found: enough to say that a result
is older than another.  Time is one bit per claim, `aged`: `started_at` is
more than `stale_seconds` back.  `SlowRuns` says whether that may happen to a
worker that is alive; `core/config.py:298-307` hopes it does not.

**Billing.**  `payment[k]` is the row of `subscription_payments`, with Payme's
transaction id and `provider_state`; `ref` is the lookup table that leads from
a transaction id to the payment.  Callbacks are enabled whenever the provider
knows their arguments, however often; an answer may have been lost.
`CreateTransaction` is a read, a store and a reference, in three actions;
`CancelTransaction` and Click's `Prepare` are a read and a write each.  Every
settlement is two steps of one transaction: up to the read of the tenant's
status, which takes no lock (`Settle`), and from there to the commit, which
writes the status that the one read allows (`SettleCommit`); the rows of the
payment and the subscription are locked in between, and others see them
change at the commit.  A
dunning run lists the tenant (`DunningList`), looks at its period
(`DunningLook`) and writes the status (`DunningAdvance`), with the status and
the day of the listing.  A plan begins on any day the administrator names
(`Starts`), or today.  `Serial` is the set of invoices about whose transactions
Payme calls one at a time, `ByHand` the set of those an administrator marks as
paid; results that need either say so.  Status `cancelled` is read by the code and
written by no endpoint: `CloseAccount`, on any day and under anything, is an
operator's, who has `update_tenant_status` (`tenants/sql/queries.sql:55-57`),
and is marked external in the map.  `behind` collects the runs and settlements
that were under way then.

The refinements map `status` to `board` (`Seen`), the status and the number of
granted periods to `InvoiceBook` (`Stages`, `granted`), and `provider_state`
to `PaymeProtocol` (`Reported`).

**CallRecordings.**  A row says whether a URL waits (`pending`), whether the
file is stored, how often it failed and how old its claim is: none, fresh, or
stale (five minutes).  `ClaimBatch` claims the oldest rows in one statement;
`Download`, `StoreKey` and `CountFailure` take them one by one; `Abandon` is a
process that ends, or a mark that fails and takes the rest of the batch with
it.  Which URL it was is left out: the row has room for one, and the object's
key is made of the call's id.

**NotificationOutbox.**  `queued[m]` counts the tasks for a message in the
broker.  A task leaves it when taken (no `acks_late`) and is lost with its
process.  `Take` reads the row again, `Send` has any outcome of Telegram's
API, also a message that arrives and an answer that does not, `MarkSent` looks
at the status, `MarkRetry` does not.  `excused` collects the three reasons for
which a message may rightly be sent again: attempts that overlapped, a lost
answer, a lost mark.

**LeadSync.**  A pull takes the Redis lock, lists the deal, looks for its sale
and then creates and charges it, reprices and adjusts it, closes it, reads
what is owed and pays it: one action for each transaction.  The lock has no
owner; it expires under whoever has it and `Release` deletes it whoever has
it.  Desks pay, reverse the payment (which opens a completed sale again),
refund and edit the same sale, the manager changes the deal, and a pull may be
torn at any point.  Of the desks one payment is enough, as their keys are
their own; what two desks do to each other is `SaleLedger`'s.

**Background.**  The loops share no table, so each behaviour is one loop's:
the composition adds no interleavings, it gives the loops one specification
and one fairness condition.

**BrowserSession.**  Sessions are numbered in the order the server starts
them. `call[c]` is a request with the code that awaits it.  A refresh is one
that restores a loaded tab, one that a timer, a 401 or the tab's becoming
visible starts (`silent`), or one after the second factor (`reissue`); the two
applications differ in what a failure of each does.  A call whose tab was
reloaded or which the client's timeout gave up is still served.  Clocks are
left out: a timer that is armed may fire, a token that is held may have run
out.

**ConsolePage, ConsoleTables.**  The pages are written by hand from the same
pieces, so the pieces are modelled once and each page is a record: what starts
its load and what the load's failure leaves (`LoadType`), what each handler
has the server do, on which outcome its form closes, how it reports, which
busy flag it sets and what it leaves the list to (`HandlerType`), and where
its button is (`ControlType`).  The map leads from each descriptor to its
page. Rows carry the stamp of their last write; the list shows the stamps it
read. `doubts` counts the operations that the user was told had failed and
that the server may have done.

**SaleForm.**  A customer is chosen, found or created inline; the look-up of
the customer's unpaid sales is under way while the form is closed, opened
again or given another customer; each line is a `POST` of its own with a fresh
key, in order, until one fails.  Amounts and prices are left out.

**OneTimeCodes.**  Code and count are a Redis hash, the cooldown is a key of
its own that is set before the code is; reading, counting and deleting are
separate commands.  Storing a code and its time to live is one step
(`SetCode`): of the crash between `hset` and `expire`
(`auth/otp_store.py:57-58`), after which a code never runs out, nothing is
said.  The six flows differ in whether they cool down, whether
the first send may be refused and whether the screen starts its own countdown.
A guess may be any code that was made for the user, or none of them.

**Console.**  The router mounts one screen at a time; the others are in their
initial states.

## Runs

| run | instance | states | question |
|---|---|---|---|
| `ledger_payments` | 2 workers, 1 sale, 2 payments, 1 request, fair | 299,603 | do payments, reversals, cancellations, PATCHes and tariff changes of one sale leave money and status consistent, and does every request end? |
| `ledger_reviews` | 2 workers, 1 sale, 1 payment, 2 requests, 2 prices | 1,096,224 | do two reviewers and a PATCH apply each request once, and does the audit trail replay? checks the inductive invariant as well |
| `ledger_stock` | 2 workers, 2 sales, 1 product, quantities 1 and 2 | 729,431 | are units conserved, and is a repeated sale charged once? |
| `background` | jobs: 2 workers, 2 jobs, own files, slow runs, 1 crash; recordings: 2 calls, 2 processes, 2 attempts, 2 URLs told, 1 lost batch; outbox: 1 message, 3 processes, 3 retries, 2 tasks queued, 1 death; leads: 2 processes, 2 prices, 3 turns | 693,971 | is a claim exclusive, is a done export complete, is every job closed (`JobBoard`)? does every recording and every message end as it should? do pulls that overlap, among desks that pay, reverse, refund and edit, post a price once and leave closed sales alone? |
| `billing` | 2 workers; *online*: a Payme order with 2 rival transactions and a Click invoice, both payable by hand, one day; *dunning*: a Payme order with 1 transaction whose calls do not overlap, a manual invoice, 3 days; the account may be closed | 429,039 | is what a provider was told true, is a period given once per invoice (`InvoiceBook`)? is no rung taken early, is a closed account opened again only by work that was under way when it was closed, are Payme's states in order (`PaymeProtocol`)? |
| `session_tabs` | both applications, 2 tabs, 2 calls, 3 sessions, 1 sign-in, 1 load | 1,026,608 | is every token put into `localStorage` alive, and is one that has died there explained by a successor that never arrived or by a revocation? |
| `console` | every page shape, 2 rows, 2 loads, 2 calls, 3 events; 2 customers, 2 lines, 5 moves; 6 flows, 2 tabs, 2 codes, 2 requests | 547,829 | does a page come to rest showing what the server has, is what is on its way to it no older than what the user was told, and is what is sent twice, sold twice or redeemed late explained? |
| `ledger_lost_charge`, `ledger_lost_tariff`, `ledger_over_refund`, `queue_payroll`, `billing_trial` | as small | violated | see below |

**Bounds.**  `MaxVersion` stops PATCHes of a sale, not payments, completions
or tariff changes; 2 or 3 versions let a write be late by one or two others.
`MaxStock` bounds what the warehouse puts in, and 2 units with quantities 1
and 2 let two sales compete for the last one.  Prices and amounts of 1 and 2
give a part payment, a settling payment and one that is too much.  `MaxTime =
3` with all periods and thresholds 1 reaches the last rung: a period that ends
on day 1 is past due on day 2 and may be suspended on day 3, and an invoice or
a plan may move it on the way; `Starts` has one day that a plan may name
besides today, in the past or ahead.  In `billing` a
tenant whose trial never expires opens the invoices paid online, on one day,
and one whose trial does expire those under dunning, over all days
(`MCBilling`, `subject`): on that first day no
dunning is due, and a trial that never expires is one `run_dunning` passes
over; once it is paid for, nothing tells such a tenant from the other.  `MaxRecords = 1` gives the queue an export
before and after the one record, 2 the payroll an older and a newer figure.
`MaxCrashes = 1` is one death at any place; the proofs have no such bound, nor
have `SaleLedger` and `Billing`, where anything under way may crash at any
time.  Two calls and two URLs let one batch hold two calls, or one call be
told of again after it was given up; two attempts separate a failure from
giving up.  Three processes and two queued tasks let two attempts at one
message overlap while a third task waits; three retries let a death, a lost
answer and a failure fall on one message.  `MaxTurns = 3` of the leads is what
two pulls that overlap need (the lock expires) and two more steps of managers,
desks or failures around them.

Two tabs, two calls and three sessions let two tabs rotate one token, each
answer be lost, and a sign-out or a sign-in come between.  In `console` two
loads are what an overtaken load needs, two calls what two handlers or a
second click need, three events a click, a loss and one thing more; a page is
checked one operation at a time, and on the pages `Roles` and `Products`,
which between them have all kinds of busy flag and of reload, two at a time
when they differ in these.  Operations and loads of the same shape behave the
same whatever their page is called, so `MCConsole` takes each shape once; the
proofs are for any table of pages.  `MaxAttempts = 1` of the codes makes the
first wrong guess the last; two codes are one and its replacement.

Two workers suffice for the races named under `hazards`, all of which are
between two; the proofs are for any number.

**Symmetry** is used where nothing compares the values but for equality and no
liveness is checked: workers, payments, requests, sales, Payme's transactions
of one order.

**Deadlock** is checked in `queue_payroll`, where a worker always has a next
step.  The others turn it off: requests, keys, days, events, turns and
sessions are finite there, and when all are used up and nothing is under way
the system rightly rests.  That nothing waits for ever is stated by
`HandlersReturn` (requests that wait for each other's row locks),
`ImplementsBoard`, `QueuesSettle` and `PageSettles`.

**Fairness.**  `ledger_payments`: strong fairness of `Continue(w)`.  A handler
that waits for a row lock is enabled again and again as holders come and go,
and PostgreSQL grants a row lock in the order of its queue; otherwise the
event loop resumes it.  `Begin` and `Crash` are not fair.  `background`: weak
fairness of `Step(w)` for every job worker, which sleeps and starts again, and
of `Age(j)`, as the clock goes on; for recordings and outbox, weak fairness of
*some* part of the loop going on (worker, process, Beat or clock), which is
enough because their attempts are counted.  `console`: weak fairness of *some*
awaited request ending.  The client gives up after 20 s
(`lib/api/client.ts:68`); that timer is cleared when the head of the answer is
there (`lib/api/client.ts:98`), so the fairness of the pages also assumes that
a body which has begun arrives or breaks.  The code does not see to that
(see below), so `PageSettles` says nothing of a page whose connection stops in
the middle of a body.  Leads, sessions, the sale form,
codes and billing assume no fairness.

Every property of a passing run has a mutant of the code in the module (a
dropped `WHERE`, a missing lock, an early rung, ...) that the run must catch;
they are the definitions marked *Mutant* and `PROJECT.json` pairs them.

## Proofs

Each theorem below holds for every number of sales, payments, jobs, workers,
transactions and for every value of the bounds, from the assumption named in
the module (`SaleLedgerAssumption`, `JobQueueAssumption`, `BillingAssumption`,
`RecordingsAssumption`, `OutboxAssumption`, `LeadAssumption`,
`BrowserSessionAssumption`, `PageAssumption`, `SaleAssumption`,
`CodesAssumption`: types of the constants, and that `None`, `Nobody` and
`ClickTxn` are none of the others; `PageAssumption` also says what every page
of `ConsoleTables` satisfies, taken with one of its creating operations at a
time, see below).  Every invariant and every action
property of every passing run has its theorem.  `JobQueue`'s theorems are about
its own `Spec`, which is what a behaviour of `Background` whose loop is
`"jobs"` is of; `QueueCorrectInBackground` carries the invariant over.

**SaleLedger** (`SaleLedgerProofs`).  None of the safety properties is
inductive.  `LedgerInv` adds what makes them so: whatever is under way names
rows that exist (`References`); a recording payment is alone with its row,
which is as it was read, and its amount is within the balance (`HoldsRow`); a
write that its version lets through has read the row it replaces, and one that
read a terminal status keeps it (`Fenced`); the one pending charge of a sale
is of a sale never charged (`WillCharge`); a sale that is not there has no
entries (`NothingPosted`); a payment on its way is the only one of its key and
has no row yet, a reversal or refund on its way names the row, the sale and
the amount that the table has (`KnowsEntry`).  `LedgerCorrect` proves it, and
with it `BalanceNeverNegative` (the amount was checked against a balance read
under the lock that every other entry waits for), `OwedWhileActive`,
`AuditTrailReplays` (the diff was taken from the row that is replaced, because
the version says so), `ChargedAtMostOnce` and `TypeOK`.  The action properties
`CancelledIsFinal`, `ReopensOnlyIntoDebt` and `NoPaymentOnCancelled` follow
from it.

Three invariants compare a column with a sum over the rows of another table:
`StockIsConserved` (what is on the shelf and what the sales took make what was
supplied), `PaymentsArePostedOnce` and `RefundsArePostedOnce` (the entries of
a sale are those of its payment rows and of its approved refunds).  No set of
keys is assumed finite: a table has only finitely many rows at any time
(`FiniteTables`), which each step keeps, as it adds one row at most.  Each of
the three is preserved with `LedgerInv`, which says that the row whose entry is
posted is not yet in the sum (`KnowsEntry`), or that its status changes in the
same step; the code's guards on the status (`Unreversed`, `Pending`) are what
excludes that it is there already.

**Sums** (`SumLemmas`).  The sums are the community modules' `MapThenSumSet`,
a recursive function that takes elements in an order that nobody knows.  The
lemmas say that the order does not matter: a sum with an element more is that
element more (`TotalWith`), one less it is less (`TotalWithout`), equal terms
give equal sums (`TotalSame`), and what follows from these for an element
whose term changes (`TotalApart`, `TotalGrows`, `TotalShrinks`).  An
induction rule would take the claim as a parameter; instead each proof takes a
smallest subset for which the claim fails, which exists since the strict
subset relation on a finite set is well founded (`SmallestSubset`), and shows
that it fails for a smaller one already.

**JobQueue** (`JobQueueProofs`).  `QueueInv`: a worker between claim and mark
has an accepted job, and one that nobody put back has one that is not up for
another claim (`HoldsJob`), which gives `OneHolder`; what it found and what it
stored counts what was there when the job was asked for (`Found`), which gives
`DoneCoversRequest` if each job writes a result of its own (`OwnTargets`, true
of exports); and without slow runs nothing is ever put back under a worker
(`Prompt`), from which `PromptRunsKeepDone` proves `DoneStaysDone`: that a job
once done reads done for ever rests on `stale_seconds` being longer than any
run; with runs that may be slow it is false, so no run of the model checks it.
`QueueImplementsBoard` proves the safety of `JobBoard`.

**Background** (`BackgroundProofs`).  The loops share no state, so a step of
one leaves the others (`EachLoopSteps`) and each invariant is proved of its own
loop.  *Recordings*: what makes `RecordingsInv` inductive is that a call in a
worker's batch has a claim and that the one it downloads is no longer in the
rest of the batch (`Claimed`): a worker whose claim was not overtaken is then
alone with the call.  *Outbox*: a task under way is of a message that was
written and that reads `pending` (`TaskSound`), and without an excuse (an
overlap, a lost answer or mark) a message has one attempt and nothing was
received before its answer (`OneAttempt`).  *Leads*: a pull never knows a later
version of the sale than there is, and if the version is still the one it has
read, so is what it decided upon: the sale is open if it is about to reprice
it, active if it is about to close it (`Fenced`).  That holds whether or not
the lock kept the pulls apart, which is why `ClosedSalesStay`
(`PullsLeaveClosedSales`: of the pulls, the deal's manager and the desks, only
a desk that reverses a payment reopens a sale, and no pull reprices a closed
one) needs no assumption on the lock's time to live.  A
pull about to write a price that is still allowed to also knows by how much
this changes the price that stands (`ChangesKnown`), so `PricesArePosted`
(`LeadInv`): the price of the sale is the sum of what was posted for it, what
the pulls under way still owe the ledger, and what was left out by pulls that
were torn in between and by desks that edited the price (`unposted`).

**Billing** (`BillingProofs`).  `BillingInv` has three groups of facts, each
preserved by lemmas of their own.  Rows: a payment bound to a Payme
transaction is the one of its order, a reference leads to the payment it was
written for (`Bound`), a callback under way still rests on what it read
(`InHand`), a period was given once for each paid invoice (`GrantedOnce`);
these give `CreatedIsFound`, `ConfirmedWasGranted` and the refinement of
`InvoiceBook` (`BookKept`).  Dunning: what a run is about to write was due on
the day of its listing unless the period moved under it (`AdvanceIsDue`), and
a run or settlement under way has read a status other than `cancelled` only if
the account is open or was closed under it (`Looks`, `behind`); these give
`ReopenedByStale`: what began after an account was closed does not open it
again.  That a closed account stays closed is false of the code (see below).
Order: of an invoice about whose transactions Payme calls
one at a time and which is not settled by hand (`InOrder`), a cancellation
under way is the only call, so the code it chose is still right (`OrderInv`);
this gives `PaymeStatesInOrder`, that of these invoices' transactions
`Billing` refines `PaymeProtocol`.  About calls that overlap it says nothing;
there the order is broken (see below).

**BrowserSession** (`BrowserSessionProofs`).  That a dead token in
`localStorage` is explained is not inductive: a token may reach the key from
an answer that left the server long before.  `SessionInv` adds that numbers
are given out in order and only stored tokens are presented (`Numbered`), that
a token on its way to a tab is alive or revoked by a password change, carried
by one call and never yet stored (`Fresh`), and that a sign-out is never about
the stored token (`LogoutIsPast`: the tab removes the key before it sends).
`SessionCorrect` proves it, `DeadKeysExplained` and `LiveKeysStored` follow.

**ConsolePage** (`ConsolePageProofs`).  For every table of pages: what is
under way is the page's own and leaves its stamp before it answers
(`CallSound`); a flag that disables its button is up exactly while its one
request, or the one load after it, is awaited (`FlagAgrees`); hence a draft
was sent once for each doubt and once more (`SentOnceADoubt`), and there is
always a free load for a waiting handler's reload.  `PageConsistent` proves
`PageInv`, `RepeatedIsDoubted` that a draft is stored again only after the
user was told of a failure.

That the list shows what the user was told (`ReadsOwnWrites`) is about which
load was asked for last, and needs an invariant of its own, `ListInv`.  Its
first half (`StampsAgree`) holds whatever happens: nothing on the page or on
its way carries a stamp of a row never stored, a handler's answer is no newer
than the server, and a row that was removed stays removed.  Its second
(`ListAgrees`) holds until requests cross: one load at most is under way, it
is for what the user has selected now, every answer it may bring is up to date
with what the user was told (`UpToDate`), and a handler that will reload where
it was clicked was clicked where the user still is.  `ListConsistent` proves
it together with `PageInv` (`PageListInv`), `OwnWritesAreRead` that a page at
rest then shows the user's writes under the selected query with no stale
error.  The page is assumed to be of a kind that all are of (`Refreshes`, part
of `IsPage`; TLC evaluates it for every page of `ConsoleTables`, whole): a handler
that changes the list brings it up to date, one that only sends does not patch
it, and on a page one of whose handlers goes back to page 1 none reloads the
page it was clicked on.

The proof is why `ReadsOwnWrites` excepts drafts that were stored twice.
Without that it holds within the bounds of `console` and not beyond: a
creation whose answer is lost is sent again, the row the answer names is
deleted, and then the first request reaches the server and stores the draft
anew.  Two rows of the server are one row of the model there, so a list
without it is right about the row the user removed; it takes six events.

**SaleForm** (`ConsoleProofs`).  The step that waits for a look-up has one,
or was overtaken (`WaitsForItsLookUp`), the debts listed are those of the
customer chosen, or that look-up was overtaken (`ListsItsDebts`), the lines of
a submit are apart (`LinesApart`), and what may still be sold after it was
given up is counted as a failure (`Strays`, `SubmitsCounted`); from which
`SoldAgainIsAfterFailure`: no line is sold more often than once and once for
each submit that failed.

**OneTimeCodes** (`ConsoleProofs`).  A code that waits is the last one
made and alive (`HeldCodeIsLive`), the cooldown without a code means a send
that was torn (`CooldownHasCode`), a check judges the code it has read
(`GuessIsJudged`, `Reading`) and the guesses counted are bounded by the checks
under way (`GuessesBounded`): a limit of wrong guesses may be exceeded by as
many checks as overlap, and by no more.  `DeadCodesRefused`: a check that began after
its code was dead does not succeed.

**Console** (`ConsoleProofs`).  A step of the console is one of the mounted
screen's module, so `ConsolePagesSound`, `ConsoleSales` and `ConsoleCodes`
carry the results over to the composition.

Only model-checked: `HandlersReturn`, `QueuesSettle`, `PageSettles` and the
fairness part of `ImplementsBoard`, since liveness under fairness and `ENABLED`
are beyond the provers at hand.

## What disagrees with the documentation

Each of these is a run that TLC must find violated, with the line it
contradicts quoted in `PROJECT.json`.

- `ledger_lost_charge`: `POST /sales` commits the sale, then posts the charge.
  After a crash in between, the repeated call finds the sale, takes it that
  the charge "already happened on the first call" and answers 201; the sale
  has no charge, and no payment can ever be recorded for it.
- `ledger_lost_tariff`: a PATCH moves the sale's version after a tariff change
  was filed; its approval then answers 409 and leaves the request approved,
  and the same review repeated answers 200 with the approved request, though
  the sale never changed.  Nothing crashes in this run (`AnsweredSpec`), and a
  review is repeated only when its first call is over.
- `ledger_over_refund`: the collected amount is compared without a lock; two
  approvals that fit only singly both go through and pay back more than was
  collected.
- `queue_payroll`: two payroll runs of one period on two workers, the one that
  read first writes last: a job reads done, and the entries lack payments that
  were there when it was requested.
- `billing_trial`: a tenant that pays after a dunning run listed it as an
  expired trial and before its turn in that run is suspended.

Seen while modelling, and the reason why some stronger property is not stated:

- A crash between storing a Payme transaction with its payment and inserting
  its reference (`billing/service.py:733-738`) leaves a transaction that no
  callback finds and an order that can be bound to no other, though
  `0013_billing.sql:105-107` has the reference "populated during
  CreateTransaction".  `CreatedIsFound` is about creations that were answered.
- A pull that ends between the commit of a deal's new price and its adjustment
  is not made up for by the next one, which finds the prices equal
  (`crm/service.py:313`); pulls are said to be "idempotent throughout"
  (`crm/worker.py:271-273`).
- Of two refreshes with one token the one that is refused removes what the
  other has stored by then, and signs the whole browser out of a session that
  is alive (`lib/auth/tenantAuthStore.tsx:135`; lines 125-126 take it that
  "the session is genuinely over").
- A login that starts the cooldown and then fails to store its code lets the
  next login through to the code screen, on the ground that the code sent
  before is "still valid" (`auth/service.py:222-224`); so does a cooldown
  whose code was used.
- The client's timer is cleared when the head of an answer is there
  (`lib/api/client.ts:98`): a connection that stops in the body leaves the page
  loading for ever, which the timer was added against (62-64).
- A reversal does not look at refunds (`finance/service.py:219-233`): after a
  refund it too pays back more than was collected.
- An account closed by the operator while a settlement or a dunning run has
  read its status is opened again by it: the status is read without a lock and
  written without a guard (`billing/service.py:126-128`,
  `tenants/sql/queries.sql:55-57`).  `ReopenedByStaleWorkOnly` says that nothing
  else opens it.
- `PATCH` refuses only a change of *status* on a terminal sale
  (`sales/service.py:222-224`); its price can still change, which
  `crm/service.py:300-302` says it cannot.
- If a run does outlast `stale_seconds`, the marks of the first worker and of
  the re-run come in either order and the last one stays, also `failed` over
  `done` (`finance/sql/queries.sql:266`).
- If Payme's calls about one transaction do overlap, a cancellation that read
  the payment as pending writes -1 over a performed transaction's 2
  (`billing/service.py:791`).
- Paying an invoice sets the subscription to the period fixed when it was
  opened (`billing/service.py:396`): of two opened under the same period end,
  the second extends nothing; one opened before a plan was chosen anew may
  shorten it.
- An invoice that an administrator marked paid answers a first Click
  completion as a replay (`billing/service.py:899`).
- Cancelling a payment that was performed leaves the tenant with the period
  and the status it gave (796-804).
- Two overlapping dunning runs write their targets in either order, so a
  suspended tenant may come back to `grace` until the next run (661).
- A new URL for a recording resets neither attempts nor claim
  (`calls/sql/queries.sql:116`): after a give-up it gets one attempt, and the
  late failure of the old URL can drop the new one untried.  A mark that fails
  abandons the rest of the tenant's batch until its claims are stale
  (`calls/recording_worker.py:37`).
- A failure is written whatever the row reads (`MarkRetry`): of two attempts
  that overlap, the one that fails last puts a sent message back to `pending`,
  or marks a delivered one dead.  Two `run_schedule` tasks that overlap send a
  report twice.
- A crash of a pull between `create_sale` and `post_charge` is never repaired
  either, since the next pull finds the sale.  A price lowered below what was
  paid leaves a negative balance.  The second of two pulls that both create
  raises `IdempotencyKeyReusedError`, because the deadline is made of `now()`.
- Deleting a used code "gets the same replay-safety" as marking it
  (`auth/otp_store.py:8-12`), but two checks that both read it before either
  deletes it are both let in, and a guess counted after the deletion leaves a
  hash with a count and no code, whose next reader fails with a `KeyError`.
- A tab whose refresh finds no token, because another tab has removed it,
  returns without signing out (`lib/auth/tenantAuthStore.tsx:130`), and stays
  on its expired token; `lib/api/client.ts:29-35` has it recovered or logged
  out, "instead of leaving the app stuck on a broken authenticated view".
- On the products page a photo that fails to upload leaves the form open;
  saving again creates another product.  A new sale of several lines that
  fails half way keeps all its lines, and submitting again sells the first
  ones a second time (fresh keys).  A look-up of debts that was overtaken by
  another customer shows the debts of the first.  A load of a list that was
  overtaken by a later one shows another query's rows until the next load.
  The properties of the pages except each of the four where they are stated.

## What is not modelled, and the plan

Not modelled, because nothing in it depends on an order of events: analytics,
platform dashboard, customers, complaints, catalogue, attendance, expenses,
bonus plans, users and roles, the pure cryptography and lookups of `core`.
Not modelled, because it is one actor's external I/O: backups.

Left out of the modelled components:

- billing: amounts and currencies, webhook signatures, plan CRUD and limits,
  storage usage, audit rows, due warnings; payroll: what a bonus plan pays;
  exports: file formats; products: photos on the server and categories;
- crm: Bitrix24, which only creates sales, Meta Ads, tokens and their refresh,
  the pull of calls, customers' outcomes; calls: the parsing and deduplication
  of webhooks (`calls/service.py:296`: an ingested webhook is marked processed
  in a transaction of its own, and its repetition finds the call by its key);
- notifications: when a schedule is due, the links of groups, the inbox;
- auth: password-reset tokens, the lockout counter (a check may be refused at
  any time), the last step of a registration, turning the second factor off;
- the pages: the wizard that creates a tenant, the TV page and its event
  stream, the polls of the bell and of the setup page, more than one creating
  operation per page, what a page computes from its rows.  The integrations'
  form closes when its answer comes; a page that sets a flag for one row has
  no drafts.

Row-level security is taken from PostgreSQL: every module is about one tenant.

In the order in which they matter:

1. `LeadSync` composed with `SaleLedger`, so that the money invariants speak
   of all sales of a tenant.
2. Token refresh (`crm`), which shares the lock's discipline; schedules and
   Telegram links (`notifications`).
3. `TenantRegistration` (`tenants`): tenant, settings and admin as a saga of
   three transactions, abstracted to one; two invoices opened from the same
   period end and billing's due warnings, which write to the outbox.

Runs are shared between questions that one instance can answer, so that the
whole project is checked in a reasonable time.
