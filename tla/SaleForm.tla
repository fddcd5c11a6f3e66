------------------------------ MODULE SaleForm ------------------------------
(***************************************************************************)
(* The form of the sales page in which a seller enters a new sale.         *)
(*                                                                         *)
(* A customer is chosen, found by phone or created inline; the customer's  *)
(* unpaid sales are looked up; then either one of these debts is paid or   *)
(* the lines of a new sale are entered.  Each line is a POST of its own,   *)
(* sent one after the other, with a fresh idempotency key.                 *)
(*                                                                         *)
(* The form may be closed and opened again at any step, and a customer     *)
(* changed, while a look-up or a POST is under way; neither is cancelled,  *)
(* and an answer is put into whatever the form has become by then.         *)
(***************************************************************************)
EXTENDS Naturals, FiniteSets

CONSTANTS Customer, Line,
          MaxCheck,    \* bound: look-ups under way at a time
          MaxMoves,    \* bound: the seller's choices, submits and closings
          Nobody

ASSUME SaleAssumption ==
  /\ MaxCheck \in Nat \ {0} /\ MaxMoves \in Nat /\ Nobody \notin Customer

VARIABLES
  owes,      \* the customers with an unpaid sale, on the server
  form,      \* the form: open, its step, customer, and whose debts it lists
  check,     \* the look-ups under way, and what the answer may say
  adding,    \* the customer being created inline
  post,      \* the request of the submit under way, and the lines after it
  stray,     \* requests given up, which the server may still carry out
  sold,      \* how often each line was sold
  known,     \* the lines the seller was told are sold
  failed,    \* how many submits failed
  overtaken, \* the form was left or the customer changed during a look-up
  moves

saleVars == <<owes, form, check, adding, post, stray, sold, known, failed,
              overtaken, moves>>

Steps  == {"customer", "checking", "choice", "debts", "debt-payment", "items"}
Checks == 1..MaxCheck

Blanked(open) == [open |-> open, step |-> "customer", customer |-> Nobody,
                  debts |-> Nobody]
NoCheck == [customer |-> Nobody, may |-> {}]

\* of: the customer whose debt is paid, or for whom the lines are sold; now: the
\* line in the request under way; left: the lines after it; all: all its lines
NoPost == [kind |-> "none", of |-> Nobody, now |-> {}, left |-> {},
           all |-> {}, done |-> FALSE]

Asking == {k \in Checks : check[k] # NoCheck}
Saving == post # NoPost

Move == moves < MaxMoves /\ moves' = moves + 1

SaleInit ==
  /\ owes \in SUBSET Customer
  /\ form = Blanked(FALSE)
  /\ check = [k \in Checks |-> NoCheck] /\ adding = Nobody
  /\ post = NoPost /\ stray = {}
  /\ sold = [l \in Line |-> 0] /\ known = {}
  /\ failed = 0 /\ overtaken = FALSE /\ moves = 0

-----------------------------------------------------------------------------
Server == UNCHANGED <<owes, stray, sold, known>>

OpenForm ==
  /\ Move /\ ~form.open /\ form' = Blanked(TRUE)
  /\ overtaken' = (Asking # {} \/ adding # Nobody)
  /\ Server /\ UNCHANGED <<check, adding, post, failed>>

\* Cancel, the cross, or a submit that went well: the form is reset, the
\* requests under way are not.
Closed == /\ form' = Blanked(FALSE)
          /\ overtaken' = (overtaken \/ Asking # {} \/ adding # Nobody)

CloseForm ==
  /\ Move /\ form.open /\ Closed
  /\ Server /\ UNCHANGED <<check, adding, post, failed>>

\* handleCustomerChosen: the step is "checking" until the look-up answers.
Chosen(c) ==
  /\ Asking # Checks
  /\ form' = [form EXCEPT !.customer = c, !.step = "checking"]
  /\ \E k \in Checks \ Asking :
       /\ \A j \in Checks \ Asking : k <= j
       /\ check' = [check EXCEPT ![k] = [customer |-> c, may |-> {c \in owes}]]
  /\ overtaken' = (overtaken \/ Asking # {})

\* From the list
ChooseCustomer(c) ==
  /\ Move /\ form.open /\ form.step = "customer" /\ c # form.customer
  /\ Chosen(c)
  /\ Server /\ UNCHANGED <<adding, post, failed>>

\* The customer with the phone number typed, found before it is submitted
SelectPhoneMatch(c) ==
  /\ Move /\ form.open /\ form.step = "customer"
  /\ Chosen(c)
  /\ Server /\ UNCHANGED <<adding, post, failed>>

\* A new customer is sent; the list above it stays usable meanwhile.
CreateCustomerInline(c) ==
  /\ Move /\ form.open /\ form.step = "customer" /\ adding = Nobody
  /\ adding' = c
  /\ Server /\ UNCHANGED <<form, check, post, failed, overtaken>>

\* Created, or the phone is taken and its owner is fetched: that customer is
\* chosen, wherever the form is by now.
CustomerCreated ==
  /\ adding # Nobody /\ Chosen(adding)
  /\ adding' = Nobody
  /\ Server /\ UNCHANGED <<post, failed, moves>>

CreateCustomerFails ==
  /\ adding # Nobody /\ adding' = Nobody
  /\ Server /\ UNCHANGED <<form, check, post, failed, overtaken, moves>>

\* Mutant of Checked: debts found are listed, but an empty answer leaves the
\* debts of the last customer.
CheckedUnlessEmpty(k) ==
  /\ k \in Asking
  /\ \E debts \in check[k].may \cup {FALSE} :
       form' = [form EXCEPT !.step = IF debts THEN "choice" ELSE "items",
                            !.debts = IF debts THEN check[k].customer ELSE @]
  /\ check' = [check EXCEPT ![k] = NoCheck]
  /\ Server /\ UNCHANGED <<adding, post, failed, overtaken, moves>>

\* The look-up answers; one that fails does not block the sale.
Checked(k) ==
  /\ k \in Asking
  /\ \E debts \in check[k].may \cup {FALSE} :
       form' = [form EXCEPT !.step = IF debts THEN "choice" ELSE "items",
                            !.debts = IF debts THEN check[k].customer
                                      ELSE Nobody]
  /\ check' = [check EXCEPT ![k] = NoCheck]
  /\ Server /\ UNCHANGED <<adding, post, failed, overtaken, moves>>

\* The back buttons, and those of the choice between a debt and a new sale
Reaches == [choice |-> {"customer", "debts", "items"},
            debts  |-> {"choice", "debt-payment"},
            items  |-> {IF form.debts = Nobody THEN "customer" ELSE "choice"}]

Turn(s) ==
  /\ Move /\ form.open
  /\ IF form.step \in DOMAIN Reaches THEN s \in Reaches[form.step]
     ELSE form.step = "debt-payment" /\ s = "debts"
  /\ form' = [form EXCEPT !.step = s]
  /\ Server /\ UNCHANGED <<check, adding, post, failed, overtaken>>

-----------------------------------------------------------------------------
\* The submits: disabled while one is under way, whatever form it came from

HandlePayDebt ==
  /\ Move /\ form.open /\ form.step = "debt-payment" /\ ~Saving
  /\ post' = [NoPost EXCEPT !.kind = "debt", !.of = form.debts]
  /\ Server /\ UNCHANGED <<form, check, adding, failed, overtaken>>

\* Mutant of HandleCreateItems: the button is not disabled during a submit.
HandleCreateItemsAnytime(S) ==
  /\ Move /\ S \cap known = {} /\ form.open /\ form.step = "items"
  /\ \E l \in S :
       post' = [NoPost EXCEPT !.kind = "items", !.of = form.customer,
                              !.now = {l}, !.left = S \ {l}, !.all = S]
  /\ Server /\ UNCHANGED <<form, check, adding, failed, overtaken>>

\* The lines entered: those of a submit that failed, or others
HandleCreateItems(S) ==
  /\ Move /\ S \cap known = {} /\ form.open /\ form.step = "items" /\ ~Saving
  /\ \E l \in S :
       post' = [NoPost EXCEPT !.kind = "items", !.of = form.customer,
                              !.now = {l}, !.left = S \ {l}, !.all = S]
  /\ Server /\ UNCHANGED <<form, check, adding, failed, overtaken>>

\* What the server does with one request: a payment of what is owed, a sale of
\* one line, which leaves its customer owing.
Record(p) ==
  /\ p.of # Nobody
  /\ p.kind = "debt" => p.of \in owes
  /\ sold' = [l \in Line |-> IF l \in p.now THEN sold[l] + 1 ELSE sold[l]]
  /\ \E still \in BOOLEAN :
       owes' = IF p.kind = "debt" /\ ~still THEN owes \ {p.of}
               ELSE owes \cup {p.of}
  /\ check' = [k \in Checks |-> IF k \in Asking
                 THEN [check[k] EXCEPT !.may = @ \cup {check[k].customer \in owes'}]
                 ELSE NoCheck]

ServePost ==
  /\ Saving /\ ~post.done /\ Record(post)
  /\ post' = [post EXCEPT !.done = TRUE]
  /\ UNCHANGED <<form, adding, stray, known, failed, overtaken, moves>>

ServeStray(p) ==
  /\ Record(p) /\ stray' = stray \ {p}
  /\ UNCHANGED <<form, adding, post, known, failed, overtaken, moves>>

LoseStray(p) ==
  /\ stray' = stray \ {p}
  /\ UNCHANGED <<owes, form, check, adding, post, sold, known, failed,
                 overtaken, moves>>

\* The loop goes on to the next line ...
NextLine ==
  /\ post.done /\ post.left # {}
  /\ \E l \in post.left :
       post' = [post EXCEPT !.now = {l}, !.left = @ \ {l}, !.done = FALSE]
  /\ Server /\ UNCHANGED <<form, check, adding, failed, overtaken, moves>>

\* ... and after the last the form is closed, whatever it is open for by now.
Submitted ==
  /\ post.done /\ post.left = {} /\ Closed
  /\ post' = NoPost /\ known' = known \cup post.all
  /\ UNCHANGED <<owes, check, adding, stray, sold, failed, moves>>

\* A refusal ends the loop; the form stays as it is, with all of its lines.
Fail == post' = NoPost /\ failed' = failed + 1

SubmitRefused ==
  /\ Saving /\ ~post.done /\ Fail
  /\ Server /\ UNCHANGED <<form, check, adding, overtaken, moves>>

\* The client's timeout, before or after the server has done it
SubmitTimesOut ==
  /\ Saving /\ Fail
  /\ stray' = IF post.done THEN stray ELSE stray \cup {post}
  /\ UNCHANGED <<owes, form, check, adding, sold, known, overtaken, moves>>

-----------------------------------------------------------------------------
AddEnds  == CustomerCreated \/ CreateCustomerFails
PostEnds == NextLine \/ Submitted \/ SubmitRefused \/ SubmitTimesOut

SaleNext ==
  \/ OpenForm \/ CloseForm
  \/ \E c \in Customer : \/ ChooseCustomer(c) \/ SelectPhoneMatch(c)
                         \/ CreateCustomerInline(c)
  \/ AddEnds \/ \E k \in Checks : Checked(k)
  \/ \E s \in Steps : Turn(s)
  \/ HandlePayDebt \/ \E S \in SUBSET Line \ {{}} : HandleCreateItems(S)
  \/ ServePost \/ \E p \in stray : ServeStray(p) \/ LoseStray(p)
  \/ PostEnds

SaleSpec == SaleInit /\ [][SaleNext]_saleVars

-----------------------------------------------------------------------------
FormState  == [open: BOOLEAN, step: Steps, customer: Customer \cup {Nobody},
               debts: Customer \cup {Nobody}]
CheckState == [customer: Customer \cup {Nobody}, may: SUBSET BOOLEAN]
PostState  == [kind: {"none", "debt", "items"}, of: Customer \cup {Nobody},
               now: SUBSET Line, left: SUBSET Line, all: SUBSET Line,
               done: BOOLEAN]

SaleTypeOK ==
  /\ owes \subseteq Customer
  /\ form \in FormState /\ check \in [Checks -> CheckState]
  /\ adding \in Customer \cup {Nobody}
  /\ post \in PostState /\ stray \subseteq PostState /\ IsFiniteSet(stray)
  /\ sold \in [Line -> Nat] /\ known \subseteq Line
  /\ failed \in Nat /\ overtaken \in BOOLEAN /\ moves \in 0..MaxMoves

\* The form waits only for the look-up of its own customer, which is under way;
\* unless one was overtaken, nothing else is looked up.
WaitsForItsLookUp ==
  /\ form.step = "checking" =>
       \E k \in Asking : check[k].customer = form.customer
  /\ \A k \in Asking : check[k].customer # Nobody
  /\ ~overtaken =>
       /\ \A k, j \in Asking : k = j
       /\ Asking # {} => form.step = "checking"

\* Where its steps are about a debt or a sale, the debts the form lists are
\* those of the customer chosen, unless a look-up was overtaken.
ListsItsDebts ==
  ~overtaken /\ form.step \notin {"customer", "checking"} =>
    /\ form.customer # Nobody
    /\ \/ form.debts = form.customer
       \/ form.step = "items" /\ form.debts = Nobody

\* The lines of a submit are sent one by one.
LinesApart == /\ post.now \cup post.left \subseteq post.all
              /\ post.now \cap post.left = {}

\* The requests given up that may still sell a line, and whether the submit
\* under way has it before it
Strays(l) == {p \in stray : l \in p.now}
Ahead(l)  == l \in post.left \/ (l \in post.now /\ ~post.done)

\* A line was submitted once for each submit that failed, and once more if it
\* is being submitted or known to be sold.
SubmitsCounted ==
  \A l \in Line :
    sold[l] + Cardinality(Strays(l)) + (IF Ahead(l) THEN 1 ELSE 0)
      <= failed + (IF l \in known \cup post.all THEN 1 ELSE 0)

\* What the form shows and what it has under way belong together, however it
\* is closed, reopened and turned back meanwhile.
SaleFormInv ==
  /\ SaleTypeOK /\ WaitsForItsLookUp /\ ListsItsDebts
  /\ LinesApart /\ SubmitsCounted

\* A line is sold again only when the seller submits it again not knowing that
\* it is: once for each submit that failed, and once more.  What was sold
\* before the line that failed is sold again by the next submit.
SoldAgainOnlyAfterFailure == \A l \in Line : sold[l] <= 1 + failed
=============================================================================
