--------------------------- MODULE ConsoleProofs ---------------------------
(***************************************************************************)
(* Proofs about the two screens next to the pages, and about the console.  *)
(* SaleForm, for any number of customers, lines and look-ups: SaleFormInv  *)
(* is inductive, and a line is sold again only by a submit that follows    *)
(* one that failed.  OneTimeCodes, for any number of tabs, codes and       *)
(* checks under way: CodesInv is inductive, and no dead code is redeemed.  *)
(* What is proved of the pages, of the form and of the codes holds in the  *)
(* console, whichever screen it shows: every step of the console is a step *)
(* of the screen shown and leaves the others as they are.                  *)
(***************************************************************************)
EXTENDS Console, ConsolePageProofs

USE SaleAssumption

LEMMA InitSaleFormInv == SaleInit => SaleFormInv
<1> SUFFICES ASSUME SaleInit PROVE SaleFormInv
  OBVIOUS
<1>1. /\ form = [open |-> FALSE, step |-> "customer", customer |-> Nobody,
                 debts |-> Nobody]
      /\ Asking = {} /\ post = NoPost /\ stray = {} /\ failed = 0 /\ known = {}
      /\ sold = [l \in Line |-> 0]
  BY DEF SaleInit, Asking, Blanked
<1>2. SaleTypeOK
  <2>1. form \in FormState
    BY <1>1 DEF FormState, Steps
  <2>2. check \in [Checks -> CheckState]
    BY DEF SaleInit, NoCheck, CheckState
  <2>3. post \in PostState
    BY <1>1 DEF NoPost, PostState
  <2>4. IsFiniteSet(stray)
    BY <1>1, FS_EmptySet
  <2>5. owes \subseteq Customer /\ adding \in Customer \cup {Nobody}
    BY DEF SaleInit
  <2>6. sold \in [Line -> Nat] /\ known \subseteq Line /\ failed \in Nat
    BY <1>1
  <2>7. stray \subseteq PostState
    BY <1>1
  <2>8. overtaken \in BOOLEAN
    BY Zenon DEF SaleInit
  <2>9. moves \in 0..MaxMoves
    BY DEF SaleInit
  <2> QED
    BY <2>1, <2>2, <2>3, <2>4, <2>5, <2>6, <2>7, <2>8, <2>9 DEF SaleTypeOK
<1>3. WaitsForItsLookUp /\ ListsItsDebts
  BY <1>1 DEF WaitsForItsLookUp, ListsItsDebts
<1>4. LinesApart
  BY <1>1 DEF LinesApart, NoPost
<1>5. SubmitsCounted
  <2>1. \A l \in Line : Cardinality(Strays(l)) = 0
    BY <1>1, FS_EmptySet DEF Strays
  <2> QED
    BY <1>1, <2>1 DEF SubmitsCounted, Ahead, NoPost
<1> QED
  BY <1>2, <1>3, <1>4, <1>5 DEF SaleFormInv

(* What the type invariant says of single fields.                          *)
LEMMA FormTypes ==
  ASSUME SaleTypeOK
  PROVE  /\ form.open \in BOOLEAN /\ form.step \in Steps
         /\ form.customer \in Customer \cup {Nobody}
         /\ form.debts \in Customer \cup {Nobody}
         /\ form = [open |-> form.open, step |-> form.step,
                    customer |-> form.customer, debts |-> form.debts]
         /\ \A k \in Checks : /\ check[k] \in CheckState
                              /\ check[k].customer \in Customer \cup {Nobody}
         /\ \A b \in BOOLEAN : Blanked(b) \in FormState
         /\ NoCheck \in CheckState /\ NoPost \in PostState
<1>1. form \in FormState /\ \A k \in Checks : check[k] \in CheckState
  BY DEF SaleTypeOK
<1>2. \A k \in Checks : check[k].customer \in Customer \cup {Nobody}
  BY <1>1 DEF CheckState
<1>3. \A b \in BOOLEAN : Blanked(b) \in FormState
  BY DEF Blanked, FormState, Steps
<1>4. NoCheck \in CheckState /\ NoPost \in PostState
  BY DEF NoCheck, CheckState, NoPost, PostState
<1>5. /\ form.open \in BOOLEAN /\ form.step \in Steps
      /\ form.customer \in Customer \cup {Nobody}
      /\ form.debts \in Customer \cup {Nobody}
      /\ form = [open |-> form.open, step |-> form.step,
                 customer |-> form.customer, debts |-> form.debts]
  BY <1>1 DEF FormState
<1> QED
  BY <1>1, <1>2, <1>3, <1>4, <1>5

-----------------------------------------------------------------------------
(* The form and its look-ups                                               *)

FormPart == WaitsForItsLookUp /\ ListsItsDebts
SaleFormTyped == /\ form \in FormState /\ check \in [Checks -> CheckState]
             /\ adding \in Customer \cup {Nobody} /\ overtaken \in BOOLEAN

(* A customer is chosen: the form waits for the one look-up of that one.   *)
LEMMA ChosenStep ==
  ASSUME SaleTypeOK, FormPart, NEW c \in Customer, Chosen(c),
         adding' \in Customer \cup {Nobody}
  PROVE  SaleFormTyped' /\ FormPart'
<1>1. PICK k \in Checks \ Asking :
        check' = [check EXCEPT ![k] = [customer |-> c, may |-> {c \in owes}]]
  BY DEF Chosen
<1> DEFINE ask == [customer |-> c, may |-> {c \in owes}]
<1>2. ask \in CheckState /\ ask # NoCheck /\ ask.customer = c
  BY DEF CheckState, NoCheck
<1>3. /\ form' = [open |-> form.open, step |-> "checking", customer |-> c,
                  debts |-> form.debts]
      /\ form' \in FormState
  <2>1. form' = [open |-> form.open, step |-> "checking", customer |-> c,
                 debts |-> form.debts]
    BY FormTypes DEF Chosen
  <2> QED
    BY <2>1, FormTypes DEF FormState, Steps
<1>4. check' \in [Checks -> CheckState] /\ Asking' = Asking \cup {k} /\ check'[k] = ask
  BY <1>1, <1>2 DEF SaleTypeOK, Asking
<1>5. overtaken' = (overtaken \/ Asking # {})
  BY DEF Chosen
<1>6. \A j \in Asking : check'[j] = check[j]
  BY <1>1 DEF SaleTypeOK, Asking
<1> HIDE DEF ask
<1>7. WaitsForItsLookUp'
  BY <1>2, <1>3, <1>4, <1>5, <1>6 DEF FormPart, WaitsForItsLookUp
<1>8. ListsItsDebts'
  BY <1>3 DEF ListsItsDebts
<1> QED
  BY <1>3, <1>4, <1>5, <1>7, <1>8 DEF FormPart, SaleFormTyped

(* The form is opened or closed: a look-up under way is overtaken.         *)
LEMMA BlankedStep ==
  ASSUME SaleTypeOK, FormPart, NEW b \in BOOLEAN, form' = Blanked(b),
         UNCHANGED <<check, adding>>, overtaken' \in BOOLEAN,
         ~overtaken' => Asking = {}
  PROVE  SaleFormTyped' /\ FormPart'
<1>1. Asking' = Asking
  BY DEF Asking
<1>2. form'.step = "customer" /\ form' \in FormState
  BY FormTypes DEF Blanked
<1>3. WaitsForItsLookUp' /\ ListsItsDebts'
  BY <1>1, <1>2 DEF FormPart, WaitsForItsLookUp, ListsItsDebts
<1> QED
  BY <1>2, <1>3 DEF SaleTypeOK, SaleFormTyped, FormPart

LEMMA CheckedStep ==
  ASSUME SaleTypeOK, FormPart, NEW k \in Checks, Checked(k)
  PROVE  SaleFormTyped' /\ FormPart'
<1>1. /\ k \in Asking /\ check' = [check EXCEPT ![k] = NoCheck]
      /\ UNCHANGED <<adding, overtaken>>
  BY DEF Checked
<1>2. PICK d \in BOOLEAN :
        form' = [form EXCEPT !.step = IF d THEN "choice" ELSE "items",
                             !.debts = IF d THEN check[k].customer ELSE Nobody]
  BY DEF Checked, SaleTypeOK, CheckState
<1>3. /\ form' = [open |-> form.open, step |-> IF d THEN "choice" ELSE "items",
                  customer |-> form.customer,
                  debts |-> IF d THEN check[k].customer ELSE Nobody]
      /\ form'.step = (IF d THEN "choice" ELSE "items")
      /\ form'.customer = form.customer
      /\ form'.debts = (IF d THEN check[k].customer ELSE Nobody)
  BY <1>2, FormTypes
<1>4. form' \in FormState
  BY <1>3, FormTypes DEF FormState, Steps
<1>5. /\ check' \in [Checks -> CheckState] /\ Asking' = Asking \ {k}
      /\ \A j \in Asking' : check'[j] = check[j]
  BY <1>1, FormTypes DEF SaleTypeOK, Asking
<1>6. WaitsForItsLookUp'
  BY <1>1, <1>3, <1>5 DEF FormPart, WaitsForItsLookUp
<1>7. ~overtaken => form.customer = check[k].customer /\ form.customer # Nobody
  BY <1>1 DEF FormPart, WaitsForItsLookUp
<1>8. ListsItsDebts'
  BY <1>1, <1>3, <1>7 DEF ListsItsDebts
<1> QED
  BY <1>1, <1>4, <1>5, <1>6, <1>8 DEF FormPart, SaleFormTyped, SaleTypeOK

LEMMA SaleTurnStep ==
  ASSUME SaleTypeOK, FormPart, NEW s \in Steps, Turn(s)
  PROVE  SaleFormTyped' /\ FormPart'
<1>1. /\ form' = [open |-> form.open, step |-> s, customer |-> form.customer,
                  debts |-> form.debts]
      /\ UNCHANGED <<check, adding, overtaken>>
  BY FormTypes DEF Turn
<1>2. /\ form.step \in {"choice", "debts", "items", "debt-payment"}
      /\ s # "checking"
      /\ form.step = "items" /\ form.debts = Nobody => s = "customer"
  <2>1. Reaches.choice = {"customer", "debts", "items"}
    BY DEF Reaches
  <2>2. Reaches.debts = {"choice", "debt-payment"}
    BY DEF Reaches
  <2>3. Reaches.items = {IF form.debts = Nobody THEN "customer" ELSE "choice"}
    BY DEF Reaches
  <2>4. DOMAIN Reaches = {"choice", "debts", "items"}
    BY DEF Reaches
  <2>5. CASE form.step = "choice"
    BY <2>1, <2>4, <2>5 DEF Turn
  <2>6. CASE form.step = "debts"
    BY <2>2, <2>4, <2>6 DEF Turn
  <2>7. CASE form.step = "items"
    BY <2>3, <2>4, <2>7 DEF Turn
  <2>8. CASE form.step \notin {"choice", "debts", "items"}
    BY <2>4, <2>8 DEF Turn
  <2> QED
    BY <2>5, <2>6, <2>7, <2>8
<1>3. Asking' = Asking
  BY <1>1 DEF Asking
<1>4. form' \in FormState
  BY <1>1, FormTypes DEF FormState
<1>5. WaitsForItsLookUp'
  BY <1>1, <1>2, <1>3 DEF FormPart, WaitsForItsLookUp
<1>6. ListsItsDebts'
  BY <1>1, <1>2 DEF FormPart, ListsItsDebts
<1> QED
  BY <1>1, <1>4, <1>5, <1>6 DEF FormPart, SaleFormTyped, SaleTypeOK

(* What the server does with a request leaves the look-ups under way.      *)
LEMMA RecordedStep ==
  ASSUME SaleTypeOK, FormPart, NEW p \in PostState, Record(p),
         UNCHANGED <<form, adding, overtaken>>
  PROVE  SaleFormTyped' /\ FormPart'
<1>1. check' = [k \in Checks |-> IF k \in Asking
                  THEN [check[k] EXCEPT !.may = @ \cup {check[k].customer \in owes'}]
                  ELSE NoCheck]
  BY DEF Record
<1>2. ASSUME NEW k \in Asking
      PROVE  /\ check'[k] \in CheckState /\ check'[k].customer = check[k].customer
             /\ check'[k] # NoCheck
  <2>1. check[k] \in CheckState /\ k \in Checks
    BY FormTypes DEF Asking
  <2>2. check'[k] = [customer |-> check[k].customer,
                     may |-> check[k].may \cup {check[k].customer \in owes'}]
    BY <1>1, <2>1 DEF CheckState
  <2>3. check[k].customer # Nobody
    BY DEF FormPart, WaitsForItsLookUp
  <2>4. check[k].may \cup {check[k].customer \in owes'} \in SUBSET BOOLEAN
    <3>1. check[k].may \subseteq BOOLEAN
      BY <2>1 DEF CheckState
    <3>2. (check[k].customer \in owes') \in BOOLEAN
      OBVIOUS
    <3>3. \A b \in BOOLEAN : {b} \subseteq BOOLEAN
      OBVIOUS
    <3>4. {check[k].customer \in owes'} \subseteq BOOLEAN
      BY <3>2, <3>3, Zenon
    <3> QED
      BY <3>1, <3>4, Zenon
  <2> QED
    BY <2>1, <2>2, <2>3, <2>4, FormTypes DEF CheckState, NoCheck
<1>3. check' \in [Checks -> CheckState] /\ Asking' = Asking
  BY <1>1, <1>2, FormTypes DEF Asking
<1>4. WaitsForItsLookUp' /\ ListsItsDebts'
  BY <1>2, <1>3 DEF FormPart, WaitsForItsLookUp, ListsItsDebts
<1> QED
  BY <1>3, <1>4 DEF FormPart, SaleFormTyped, SaleTypeOK

LEMMA FormKept ==
  ASSUME SaleTypeOK, FormPart, UNCHANGED <<form, check, overtaken>>,
         adding' \in Customer \cup {Nobody}
  PROVE  SaleFormTyped' /\ FormPart'
BY DEF SaleTypeOK, SaleFormTyped, FormPart, WaitsForItsLookUp, ListsItsDebts, Asking

-----------------------------------------------------------------------------
(* The submits                                                             *)

SubmitPart == LinesApart /\ SubmitsCounted
SubmitTyped == /\ owes \subseteq Customer /\ post \in PostState
               /\ stray \subseteq PostState /\ IsFiniteSet(stray)
               /\ sold \in [Line -> Nat] /\ known \subseteq Line /\ failed \in Nat

LEMMA StraysFinite ==
  ASSUME SaleTypeOK, NEW l
  PROVE  IsFiniteSet(Strays(l)) /\ Cardinality(Strays(l)) \in Nat
BY FS_Subset, FS_CardinalityType DEF SaleTypeOK, Strays

LEMMA SubmitsKept ==
  ASSUME SaleTypeOK, SubmitPart, UNCHANGED <<owes, post, stray, sold, known, failed>>
  PROVE  SubmitTyped' /\ SubmitPart'
<1>1. \A l : Strays(l)' = Strays(l) /\ (Ahead(l)' <=> Ahead(l))
  BY DEF Strays, Ahead
<1> QED
  BY <1>1 DEF SaleTypeOK, SubmitTyped, SubmitPart, LinesApart, SubmitsCounted

(* The count of one line, from which SubmitsCounted follows.               *)
LineCounted(l) ==
  sold[l] + Cardinality(Strays(l)) + (IF Ahead(l) THEN 1 ELSE 0)
    <= failed + (IF l \in known \cup post.all THEN 1 ELSE 0)

LEMMA LineTypes ==
  ASSUME SaleTypeOK, SubmitPart, NEW l \in Line
  PROVE  /\ sold[l] \in Nat /\ failed \in Nat
         /\ IsFiniteSet(Strays(l)) /\ Cardinality(Strays(l)) \in Nat
         /\ LineCounted(l)
BY StraysFinite DEF SaleTypeOK, SubmitPart, SubmitsCounted, LineCounted

(* A submit begins; its lines are none of those known to be sold.          *)
LEMMA SaleSubmitStep ==
  ASSUME SaleTypeOK, SubmitPart, post = NoPost,
         UNCHANGED <<owes, stray, sold, known, failed>>,
         post' \in PostState, LinesApart', post'.all \cap known = {}
  PROVE  SubmitTyped' /\ SubmitPart'
<1>1. ASSUME NEW l \in Line PROVE LineCounted(l)'
  <2>1. Strays(l)' = Strays(l)
    BY DEF Strays
  <2>2. sold[l] + Cardinality(Strays(l)) <= failed + IF l \in known THEN 1 ELSE 0
    BY LineTypes DEF LineCounted, Ahead, NoPost
  <2>3. Ahead(l)' => l \in post'.all /\ l \notin known
    BY DEF LinesApart, Ahead
  <2> QED
    BY <2>1, <2>2, <2>3, LineTypes DEF LineCounted
<1> QED
  BY <1>1 DEF SubmitTyped, SubmitPart, SubmitsCounted, LineCounted, SaleTypeOK

(* The server sells the lines of a request.                                *)
LEMMA Sold ==
  ASSUME SaleTypeOK, NEW p \in PostState, Record(p)
  PROVE  /\ owes' \subseteq Customer /\ sold' \in [Line -> Nat]
         /\ \A l \in Line : sold'[l] = sold[l] + IF l \in p.now THEN 1 ELSE 0
<1>1. p.of \in Customer
  BY DEF Record, PostState
<1> QED
  BY <1>1 DEF Record, SaleTypeOK

LEMMA ServePostStep ==
  ASSUME SaleTypeOK, SubmitPart, ServePost
  PROVE  SubmitTyped' /\ SubmitPart'
<1>1. /\ post' = [post EXCEPT !.done = TRUE] /\ post \in PostState /\ ~post.done
      /\ UNCHANGED <<stray, known, failed>> /\ Record(post)
  BY DEF ServePost, SaleTypeOK
<1>2. /\ post' \in PostState /\ post'.done /\ post'.now = post.now
      /\ post'.left = post.left /\ post'.all = post.all
  BY <1>1 DEF PostState
<1>3. ASSUME NEW l \in Line PROVE LineCounted(l)'
  <2>1. Strays(l)' = Strays(l)
    BY <1>1 DEF Strays
  <2>2. l \in post.now => Ahead(l) /\ ~Ahead(l)'
    BY <1>1, <1>2 DEF SubmitPart, LinesApart, Ahead
  <2>3. l \notin post.now => (Ahead(l)' <=> Ahead(l))
    BY <1>2 DEF Ahead
  <2> QED
    BY <1>1, <1>2, <2>1, <2>2, <2>3, LineTypes, Sold DEF LineCounted
<1>4. LinesApart'
  BY <1>2 DEF SubmitPart, LinesApart
<1> QED
  BY <1>1, <1>2, <1>3, <1>4, Sold
  DEF SubmitTyped, SubmitPart, SubmitsCounted, LineCounted, SaleTypeOK

(* A request given up is carried out or lost.                              *)
LEMMA StrayStep ==
  ASSUME SaleTypeOK, SubmitPart, NEW p \in stray, ServeStray(p) \/ LoseStray(p)
  PROVE  SubmitTyped' /\ SubmitPart'
<1>1. /\ p \in PostState /\ stray' = stray \ {p}
      /\ UNCHANGED <<post, known, failed>>
  BY DEF ServeStray, LoseStray, SaleTypeOK
<1>2. /\ owes' \subseteq Customer /\ sold' \in [Line -> Nat]
      /\ \A l \in Line : sold'[l] <= sold[l] + IF l \in p.now THEN 1 ELSE 0
  BY <1>1, Sold DEF ServeStray, LoseStray, SaleTypeOK
<1>3. IsFiniteSet(stray') /\ stray' \subseteq PostState
  BY <1>1, FS_RemoveElement DEF SaleTypeOK
<1>4. ASSUME NEW l \in Line PROVE LineCounted(l)'
  <2>1. Ahead(l)' <=> Ahead(l)
    BY <1>1 DEF Ahead
  <2>2. CASE l \in p.now
    <3>1. p \in Strays(l) /\ Strays(l)' = Strays(l) \ {p}
      BY <1>1, <2>2 DEF Strays
    <3>2. Cardinality(Strays(l)') = Cardinality(Strays(l)) - 1
      BY <3>1, LineTypes, FS_RemoveElement
    <3> QED
      BY <1>1, <1>2, <2>1, <2>2, <3>2, LineTypes DEF LineCounted
  <2>3. CASE l \notin p.now
    <3>1. Strays(l)' = Strays(l)
      BY <1>1, <2>3 DEF Strays
    <3> QED
      BY <1>1, <1>2, <2>1, <2>3, <3>1, LineTypes DEF LineCounted
  <2> QED
    BY <2>2, <2>3
<1>5. LinesApart'
  BY <1>1 DEF SubmitPart, LinesApart
<1> QED
  BY <1>1, <1>2, <1>3, <1>4, <1>5
  DEF SubmitTyped, SubmitPart, SubmitsCounted, LineCounted, SaleTypeOK

LEMMA NextLineStep ==
  ASSUME SaleTypeOK, SubmitPart, NextLine
  PROVE  SubmitTyped' /\ SubmitPart'
<1>1. PICK n \in post.left :
        post' = [post EXCEPT !.now = {n}, !.left = @ \ {n}, !.done = FALSE]
  BY DEF NextLine
<1>2. /\ post \in PostState /\ post.done
      /\ UNCHANGED <<owes, stray, sold, known, failed>>
  BY DEF NextLine, Server, SaleTypeOK
<1>3. /\ post' \in PostState /\ ~post'.done /\ post'.now = {n}
      /\ post'.left = post.left \ {n} /\ post'.all = post.all
  BY <1>1, <1>2 DEF PostState
<1>4. ASSUME NEW l \in Line PROVE LineCounted(l)'
  <2>1. Strays(l)' = Strays(l)
    BY <1>2 DEF Strays
  <2>2. Ahead(l)' <=> Ahead(l)
    BY <1>2, <1>3 DEF Ahead
  <2> QED
    BY <1>2, <1>3, <2>1, <2>2, LineTypes DEF LineCounted
<1>5. LinesApart'
  BY <1>3 DEF SubmitPart, LinesApart
<1> QED
  BY <1>2, <1>3, <1>4, <1>5
  DEF SubmitTyped, SubmitPart, SubmitsCounted, LineCounted, SaleTypeOK

(* The submit is over: its lines are known, or one failure is counted.     *)
LEMMA SubmitOverStep ==
  ASSUME SaleTypeOK, SubmitPart, Submitted \/ SubmitRefused \/ SubmitTimesOut
  PROVE  SubmitTyped' /\ SubmitPart'
<1>1. post' = NoPost /\ UNCHANGED <<owes, sold>>
  BY DEF Submitted, SubmitRefused, SubmitTimesOut, Fail, Server
<1>2. \A l : ~Ahead(l)'
  BY <1>1 DEF Ahead, NoPost
<1>3. LinesApart' /\ post' \in PostState /\ post'.all = {}
  BY <1>1, FormTypes DEF LinesApart, NoPost
<1>4. CASE Submitted
  <2>1. /\ post.done /\ post.left = {} /\ known' = known \cup post.all
        /\ UNCHANGED <<stray, failed>> /\ known' \subseteq Line
    BY <1>4 DEF Submitted, SaleTypeOK, PostState
  <2>2. ASSUME NEW l \in Line PROVE LineCounted(l)'
    <3>1. Strays(l)' = Strays(l)
      BY <2>1 DEF Strays
    <3> QED
      BY <1>1, <1>2, <1>3, <2>1, <3>1, LineTypes DEF LineCounted
  <2> QED
    BY <1>1, <1>3, <2>1, <2>2
    DEF SubmitTyped, SubmitPart, SubmitsCounted, LineCounted, SaleTypeOK
<1>5. CASE SubmitRefused \/ (SubmitTimesOut /\ post.done)
  <2>1. UNCHANGED <<stray, known>> /\ failed' = failed + 1
    BY <1>5 DEF SubmitRefused, SubmitTimesOut, Fail, Server
  <2>2. ASSUME NEW l \in Line PROVE LineCounted(l)'
    <3>1. Strays(l)' = Strays(l)
      BY <2>1 DEF Strays
    <3> QED
      BY <1>1, <1>2, <1>3, <2>1, <3>1, LineTypes DEF LineCounted
  <2> QED
    BY <1>1, <1>3, <2>1, <2>2
    DEF SubmitTyped, SubmitPart, SubmitsCounted, LineCounted, SaleTypeOK
<1>6. CASE SubmitTimesOut /\ ~post.done
  <2>1. stray' = stray \cup {post} /\ UNCHANGED known /\ failed' = failed + 1
    BY <1>6 DEF SubmitTimesOut, Fail
  <2>2. IsFiniteSet(stray') /\ stray' \subseteq PostState
    BY <2>1, FS_AddElement DEF SaleTypeOK
  <2>3. ASSUME NEW l \in Line PROVE LineCounted(l)'
    <3>1. CASE l \in post.now
      <4>1. Strays(l)' = Strays(l) \cup {post}
        BY <2>1, <3>1 DEF Strays
      <4>2. Cardinality(Strays(l)') <= Cardinality(Strays(l)) + 1
        <5>1. IsFiniteSet(Strays(l)) /\ Cardinality(Strays(l)) \in Nat
          BY LineTypes
        <5>2. Cardinality(Strays(l) \cup {post})
                = IF post \in Strays(l) THEN Cardinality(Strays(l))
                  ELSE Cardinality(Strays(l)) + 1
          BY <5>1, FS_AddElement
        <5> QED
          BY <4>1, <5>1, <5>2
      <4>3. Cardinality(Strays(l)') \in Nat
        BY <4>1, LineTypes, FS_AddElement, FS_CardinalityType
      <4>4. Ahead(l)
        BY <1>6, <3>1 DEF Ahead
      <4> QED
        BY <1>1, <1>2, <1>3, <2>1, <4>2, <4>3, <4>4, LineTypes DEF LineCounted
    <3>2. CASE l \notin post.now
      <4>1. Strays(l)' = Strays(l)
        BY <2>1, <3>2 DEF Strays
      <4> QED
        BY <1>1, <1>2, <1>3, <2>1, <4>1, LineTypes DEF LineCounted
    <3> QED
      BY <3>1, <3>2
  <2> QED
    BY <1>1, <1>3, <2>1, <2>2, <2>3
    DEF SubmitTyped, SubmitPart, SubmitsCounted, LineCounted, SaleTypeOK
<1> QED
  BY <1>4, <1>5, <1>6

-----------------------------------------------------------------------------
LEMMA BothParts ==
  ASSUME SaleFormTyped', FormPart', SubmitTyped', SubmitPart', moves' \in 0..MaxMoves
  PROVE  SaleFormInv'
BY DEF SaleFormTyped, FormPart, SubmitTyped, SubmitPart, SaleFormInv, SaleTypeOK

LEMMA NextSaleFormInv == SaleFormInv /\ [SaleNext]_saleVars => SaleFormInv'
<1> SUFFICES ASSUME SaleFormInv, [SaleNext]_saleVars PROVE SaleFormInv'
  OBVIOUS
<1>1. SaleTypeOK /\ FormPart /\ SubmitPart
  BY DEF SaleFormInv, FormPart, SubmitPart
<1>2. Move => moves' \in 0..MaxMoves
  BY <1>1 DEF Move, SaleTypeOK
<1>3. UNCHANGED moves => moves' \in 0..MaxMoves
  BY <1>1 DEF SaleTypeOK
<1>4. overtaken \in BOOLEAN /\ adding \in Customer \cup {Nobody}
  BY <1>1 DEF SaleTypeOK
<1>5. CASE UNCHANGED saleVars
  BY <1>1, <1>3, <1>4, <1>5, FormKept, SubmitsKept, BothParts DEF saleVars
<1>6. CASE OpenForm \/ CloseForm
  <2>1. /\ Move /\ UNCHANGED <<check, adding, owes, post, stray, sold, known, failed>>
        /\ form' \in {Blanked(TRUE), Blanked(FALSE)}
    BY <1>6 DEF OpenForm, CloseForm, Closed, Server
  <2>2. overtaken' \in BOOLEAN /\ (~overtaken' => Asking = {})
    BY <1>4, <1>6 DEF OpenForm, CloseForm, Closed
  <2> QED
    BY <1>1, <1>2, <2>1, <2>2, BlankedStep, SubmitsKept, BothParts
<1>7. ASSUME NEW c \in Customer, ChooseCustomer(c) \/ SelectPhoneMatch(c)
      PROVE  SaleFormInv'
  <2>1. /\ Move /\ Chosen(c)
        /\ UNCHANGED <<adding, owes, post, stray, sold, known, failed>>
    BY <1>7 DEF ChooseCustomer, SelectPhoneMatch, Server
  <2> QED
    BY <1>1, <1>2, <1>4, <2>1, ChosenStep, SubmitsKept, BothParts
<1>8. ASSUME NEW c \in Customer, CreateCustomerInline(c) PROVE SaleFormInv'
  BY <1>1, <1>2, <1>8, FormKept, SubmitsKept, BothParts DEF CreateCustomerInline, Server
<1>9. CASE CustomerCreated
  <2>1. /\ adding \in Customer /\ Chosen(adding) /\ adding' = Nobody
        /\ UNCHANGED <<owes, post, stray, sold, known, failed, moves>>
    BY <1>4, <1>9 DEF CustomerCreated, Server
  <2> QED
    BY <1>1, <1>3, <2>1, ChosenStep, SubmitsKept, BothParts
<1>10. CASE CreateCustomerFails
  BY <1>1, <1>3, <1>10, FormKept, SubmitsKept, BothParts DEF CreateCustomerFails, Server
<1>11. ASSUME NEW k \in Checks, Checked(k) PROVE SaleFormInv'
  <2>1. UNCHANGED <<owes, post, stray, sold, known, failed, moves>>
    BY <1>11 DEF Checked, Server
  <2> QED
    BY <1>1, <1>3, <1>11, <2>1, CheckedStep, SubmitsKept, BothParts
<1>12. ASSUME NEW s \in Steps, Turn(s) PROVE SaleFormInv'
  <2>1. Move /\ UNCHANGED <<owes, post, stray, sold, known, failed>>
    BY <1>12 DEF Turn, Server
  <2> QED
    BY <1>1, <1>2, <1>12, <2>1, SaleTurnStep, SubmitsKept, BothParts
<1>13. CASE HandlePayDebt
  <2>1. /\ Move /\ post = NoPost
        /\ post' = [NoPost EXCEPT !.kind = "debt", !.of = form.debts]
        /\ UNCHANGED <<form, check, adding, overtaken, owes, stray, sold, known, failed>>
    BY <1>13 DEF HandlePayDebt, Saving, Server
  <2>2. /\ post' \in PostState /\ post'.all = {}
        /\ post'.now = {} /\ post'.left = {}
    BY <1>1, <2>1, FormTypes DEF NoPost, PostState
  <2>3. LinesApart'
    BY <2>2 DEF LinesApart
  <2> QED
    BY <1>1, <1>2, <1>4, <2>1, <2>2, <2>3, FormKept, SaleSubmitStep, BothParts
<1>14. ASSUME NEW S \in SUBSET Line \ {{}}, HandleCreateItems(S) PROVE SaleFormInv'
  <2>1. /\ Move /\ post = NoPost /\ S \cap known = {}
        /\ UNCHANGED <<form, check, adding, overtaken, owes, stray, sold, known, failed>>
    BY <1>14 DEF HandleCreateItems, Saving, Server
  <2>2. PICK l \in S :
          post' = [NoPost EXCEPT !.kind = "items", !.of = form.customer,
                                 !.now = {l}, !.left = S \ {l}, !.all = S]
    BY <1>14 DEF HandleCreateItems
  <2>3. /\ post' \in PostState /\ post'.all = S
        /\ post'.now = {l} /\ post'.left = S \ {l}
    BY <1>1, <2>2, FormTypes DEF NoPost, PostState
  <2>4. LinesApart'
    BY <2>3 DEF LinesApart
  <2> QED
    BY <1>1, <1>2, <1>4, <2>1, <2>3, <2>4, FormKept, SaleSubmitStep, BothParts
<1>15. CASE ServePost
  <2>1. /\ Record(post) /\ post \in PostState
        /\ UNCHANGED <<form, adding, overtaken, moves>>
    BY <1>1, <1>15 DEF ServePost, SaleTypeOK
  <2> QED
    BY <1>1, <1>3, <1>15, <2>1, RecordedStep, ServePostStep, BothParts
<1>16. ASSUME NEW p \in stray, ServeStray(p) PROVE SaleFormInv'
  <2>1. /\ Record(p) /\ p \in PostState /\ UNCHANGED <<form, adding, overtaken, moves>>
    BY <1>1, <1>16 DEF ServeStray, SaleTypeOK
  <2> QED
    BY <1>1, <1>3, <1>16, <2>1, RecordedStep, StrayStep, BothParts
<1>17. ASSUME NEW p \in stray, LoseStray(p) PROVE SaleFormInv'
  <2>1. UNCHANGED <<form, check, adding, overtaken, moves>>
    BY <1>17 DEF LoseStray
  <2> QED
    BY <1>1, <1>3, <1>4, <1>17, <2>1, FormKept, StrayStep, BothParts
<1>18. CASE NextLine
  <2>1. UNCHANGED <<form, check, adding, overtaken, moves>>
    BY <1>18 DEF NextLine
  <2> QED
    BY <1>1, <1>3, <1>4, <1>18, <2>1, FormKept, NextLineStep, BothParts
<1>19. CASE Submitted
  <2>1. form' = Blanked(FALSE) /\ UNCHANGED <<check, adding, moves>>
    BY <1>19 DEF Submitted, Closed
  <2>2. overtaken' \in BOOLEAN /\ (~overtaken' => Asking = {})
    BY <1>4, <1>19 DEF Submitted, Closed
  <2> QED
    BY <1>1, <1>3, <1>19, <2>1, <2>2, BlankedStep, SubmitOverStep, BothParts
<1>20. CASE SubmitRefused \/ SubmitTimesOut
  <2>1. UNCHANGED <<form, check, adding, overtaken, moves>>
    BY <1>20 DEF SubmitRefused, SubmitTimesOut
  <2> QED
    BY <1>1, <1>3, <1>4, <1>20, <2>1, FormKept, SubmitOverStep, BothParts
<1> QED
  BY <1>5, <1>6, <1>7, <1>8, <1>9, <1>10, <1>11, <1>12, <1>13, <1>14, <1>15, <1>16,
     <1>17, <1>18, <1>19, <1>20
  DEF SaleNext, AddEnds, PostEnds

(* The form never lists the debts of another customer than the one chosen, *)
(* nor waits for nothing, unless a look-up was overtaken.                  *)
THEOREM SaleFormConsistent == SaleSpec => []SaleFormInv
<1> QED
  BY InitSaleFormInv, NextSaleFormInv, PTL DEF SaleSpec

(* However often submits fail, time out and are carried out late, no line  *)
(* is sold more often than once and once more for each of them.            *)
THEOREM SoldAgainIsAfterFailure == SaleSpec => []SoldAgainOnlyAfterFailure
<1>1. SaleFormInv => SoldAgainOnlyAfterFailure
  <2> SUFFICES ASSUME SaleFormInv, NEW l \in Line PROVE sold[l] <= 1 + failed
    BY DEF SoldAgainOnlyAfterFailure
  <2>1. SaleTypeOK /\ SubmitPart
    BY DEF SaleFormInv, SubmitPart
  <2> QED
    BY <2>1, LineTypes DEF LineCounted
<1> QED
  BY <1>1, SaleFormConsistent, PTL

-----------------------------------------------------------------------------
HIDE SaleAssumption
USE CodesAssumption

LEMMA InitCodesInv == CodesInit => CodesInv
<1> SUFFICES ASSUME CodesInit PROVE CodesInv
  OBVIOUS
<1>1. CodesTypeOK
  <2>1. /\ flow \in FlowType /\ cooling = FALSE /\ torn = FALSE
        /\ issued \in 0..MaxCodes /\ dead \subseteq Codes
    BY DEF CodesInit
  <2>2. row \in RowState
    BY DEF CodesInit, NoRow, RowState
  <2>3. tab \in [Tab -> TabState]
    BY DEF CodesInit, TabState
  <2>4. send \in [Tab -> {"none", "sent", "allowed", "ok", "cooldown"}]
    BY DEF CodesInit
  <2>5. verify \in [Verifies -> VerifyState]
    BY DEF CodesInit, NoVerify, VerifyState
  <2> QED
    BY <2>1, <2>2, <2>3, <2>4, <2>5 DEF CodesTypeOK
<1>2. CooldownHasCode /\ HeldCodeIsLive
  BY DEF CodesInit, CooldownHasCode, HeldCodeIsLive, NoRow
<1>3. \A k \in Verifies : GuessIsJudged(verify[k])
  BY DEF CodesInit, GuessIsJudged, NoVerify
<1>4. Reading = {}
  BY DEF CodesInit, Reading, NoVerify
<1>5. GuessesBounded
  BY <1>4, FS_EmptySet DEF GuessesBounded, CodesInit, NoRow
<1> QED
  BY <1>1, <1>2, <1>3, <1>5 DEF CodesInv

(* What the type invariant says of single fields.                         *)
LEMMA FieldTypes ==
  ASSUME CodesInv
  PROVE  /\ MaxCodes \in Nat /\ issued \in 0..MaxCodes
         /\ row.code \in 0..MaxCodes /\ row.count \in Nat
         /\ \A k \in Verifies : /\ verify[k] \in VerifyState
                                /\ verify[k].code \in 0..MaxCodes
                                /\ verify[k].saw \in 0..MaxCodes
                                /\ verify[k].late \in BOOLEAN
BY DEF CodesInv, CodesTypeOK, RowState, VerifyState

(* At most MaxVerify checks have read the hash.                            *)
LEMMA ReadingFinite ==
  /\ IsFiniteSet(Reading) /\ Cardinality(Reading) \in 0..MaxVerify
  /\ IsFiniteSet(Reading') /\ Cardinality(Reading') \in 0..MaxVerify
<1>1. IsFiniteSet(Verifies) /\ Cardinality(Verifies) = MaxVerify
  BY FS_Interval DEF Verifies
<1>2. Reading \in SUBSET Verifies /\ Reading' \in SUBSET Verifies
  BY DEF Reading, Verifies
<1>3. \A S \in SUBSET Verifies : IsFiniteSet(S) /\ Cardinality(S) \in 0..MaxVerify
  BY <1>1, FS_Subset, FS_CardinalityType
<1> QED
  BY <1>2, <1>3

(* What leaves the count alone and lets no check read keeps the bound.     *)
LEMMA BoundKept ==
  ASSUME CodesInv, row'.count \in {0, row.count}, Reading' \subseteq Reading,
         MaxVerify \in Nat
  PROVE  GuessesBounded'
<1>1. Cardinality(Reading') <= Cardinality(Reading)
  BY ReadingFinite, FS_Subset
<1>2. row.count \in Nat
  BY FieldTypes
<1> QED
  BY <1>1, <1>2, ReadingFinite DEF CodesInv, GuessesBounded

(* What a send, the clock or an expiry does not touch: the checks.         *)
LEMMA SendStep ==
  ASSUME CodesInv, NEW t \in Tab,
         \/ AskCode(t) \/ ResendCode(t) \/ CountdownEnds(t)
         \/ TryStartCooldown(t) \/ SendRefused(t)
         \/ SendAnswered(t) \/ SendGivenUp(t)
  PROVE  CodesInv'
<1>1. UNCHANGED <<flow, row, issued, dead, verify>>
  BY DEF AskCode, ResendCode, CountdownEnds, TryStartCooldown, SendRefused,
         SendAnswered, SendGivenUp, Sends
<1>2. /\ flow.cools \in BOOLEAN /\ flow.blind \in BOOLEAN
      /\ tab \in [Tab -> TabState]
      /\ tab[t].at \in {"start", "code", "in"} /\ tab[t].wait \in BOOLEAN
      /\ send \in [Tab -> {"none", "sent", "allowed", "ok", "cooldown"}]
      /\ cooling \in BOOLEAN /\ torn \in BOOLEAN
  BY DEF CodesInv, CodesTypeOK, FlowType, TabState
<1>3. send' \in [Tab -> {"none", "sent", "allowed", "ok", "cooldown"}]
  BY <1>2 DEF AskCode, ResendCode, CountdownEnds, TryStartCooldown, SendRefused,
         SendAnswered, SendGivenUp, Sends
<1>4. tab' \in [Tab -> TabState]
  <2>1. ASSUME NEW s \in TabState, tab' = [tab EXCEPT ![t] = s] PROVE tab' \in [Tab -> TabState]
    BY <1>2, <2>1
  <2>2. \A w \in BOOLEAN : [tab[t] EXCEPT !.wait = w] \in TabState
    BY <1>2 DEF TabState
  <2>3. [at |-> "code", wait |-> TRUE] \in TabState /\ tab[t] \in TabState
    BY <1>2 DEF TabState
  <2>4. CASE UNCHANGED tab
    BY <1>2, <2>4
  <2>5. CASE ResendCode(t)
    <3>1. tab' = [tab EXCEPT ![t] = [tab[t] EXCEPT !.wait = flow.blind]]
      BY <2>5 DEF ResendCode
    <3> QED
      BY <1>2, <2>1, <2>2, <3>1
  <2>6. CASE CountdownEnds(t)
    <3>1. tab' = [tab EXCEPT ![t] = [tab[t] EXCEPT !.wait = FALSE]]
      BY <2>6 DEF CountdownEnds
    <3> QED
      BY <2>1, <2>2, <3>1
  <2>7. CASE SendAnswered(t)
    <3>1. (tab[t].wait \/ flow.cools) \in BOOLEAN
      OBVIOUS
    <3>2. [at |-> tab[t].at, wait |-> tab[t].wait \/ flow.cools] \in TabState
      BY <1>2, <3>1 DEF TabState
    <3>3. CASE tab[t].at = "in"
      <4>1. tab' = [tab EXCEPT ![t] = tab[t]]
        BY <2>7, <3>3 DEF SendAnswered
      <4> QED
        BY <2>1, <2>3, <4>1
    <3>4. CASE tab[t].at = "start" /\ send[t] = "ok"
      <4>1. tab' = [tab EXCEPT ![t] = [at |-> "code", wait |-> TRUE]]
        BY <2>7, <3>4 DEF SendAnswered
      <4> QED
        BY <2>1, <2>3, <4>1
    <3>5. CASE tab[t].at # "in" /\ ~(tab[t].at = "start" /\ send[t] = "ok")
      <4>1. tab' = [tab EXCEPT ![t] =
                      [at |-> tab[t].at, wait |-> tab[t].wait \/ flow.cools]]
        BY <2>7, <3>5 DEF SendAnswered
      <4> QED
        BY <2>1, <3>2, <4>1
    <3> QED
      BY <3>3, <3>4, <3>5
  <2> QED
    BY <2>4, <2>5, <2>6, <2>7 DEF AskCode, TryStartCooldown, SendRefused, SendGivenUp
<1>5. cooling' \in BOOLEAN /\ torn' \in BOOLEAN
  BY <1>2 DEF AskCode, ResendCode, CountdownEnds, TryStartCooldown, SendRefused,
         SendAnswered, SendGivenUp, Sends
<1>6. CodesTypeOK'
  BY <1>1, <1>3, <1>4, <1>5 DEF CodesInv, CodesTypeOK
<1>7. CooldownHasCode'
  <2>1. CASE TryStartCooldown(t) /\ ~cooling
    <3>1. CASE flow.cools
      <4>1. send' = [send EXCEPT ![t] = "allowed"]
        BY <2>1 DEF TryStartCooldown, Sends
      <4> QED
        BY <1>2, <4>1 DEF CooldownHasCode
    <3>2. CASE ~flow.cools
      BY <1>2, <2>1, <3>2 DEF TryStartCooldown, CooldownHasCode
    <3> QED
      BY <3>1, <3>2
  <2>2. CASE cooling /\ ~SendRefused(t)
    BY <1>1, <1>2, <2>2 DEF CodesInv, CooldownHasCode, AskCode, ResendCode, CountdownEnds,
         TryStartCooldown, SendAnswered, SendGivenUp, Sends
  <2>3. CASE cooling /\ SendRefused(t)
    BY <1>1, <1>2, <2>3 DEF CodesInv, CooldownHasCode, SendRefused, Sends
  <2>4. CASE ~cooling /\ ~TryStartCooldown(t)
    BY <2>4 DEF CooldownHasCode, AskCode, ResendCode, CountdownEnds,
         SendRefused, SendAnswered, SendGivenUp
  <2> QED
    BY <1>2, <2>1, <2>2, <2>3, <2>4
<1>8. HeldCodeIsLive' /\ \A k \in Verifies : GuessIsJudged(verify[k])'
  BY <1>1 DEF CodesInv, HeldCodeIsLive, GuessIsJudged
<1>9. GuessesBounded'
  BY <1>1, BoundKept DEF Reading
<1> QED
  BY <1>6, <1>7, <1>8, <1>9 DEF CodesInv

(* A new code is larger than every code before it.                         *)
LEMMA SetCodeStep ==
  ASSUME CodesInv, NEW t \in Tab, SetCode(t)
  PROVE  CodesInv'
<1>1. /\ issued' = issued + 1 /\ issued' \in 1..MaxCodes
      /\ row' = [there |-> TRUE, code |-> issued', count |-> 0]
      /\ dead' = dead \cup ({row.code} \cap Codes)
      /\ issued \in Nat /\ row.code \in Nat /\ MaxCodes \in Nat
      /\ UNCHANGED <<flow, verify, cooling, tab>> /\ torn' = FALSE
  BY FieldTypes DEF SetCode, Sends
<1>2. CodesTypeOK'
  <2>1. row' \in RowState
    BY <1>1 DEF RowState
  <2>2. send' \in [Tab -> {"none", "sent", "allowed", "ok", "cooldown"}]
    BY DEF SetCode, Sends, CodesInv, CodesTypeOK
  <2>3. dead' \subseteq Codes /\ issued' \in 0..MaxCodes
    BY <1>1 DEF CodesInv, CodesTypeOK
  <2> QED
    BY <1>1, <2>1, <2>2, <2>3 DEF CodesInv, CodesTypeOK
<1>3. CooldownHasCode'
  BY <1>1 DEF CooldownHasCode
<1>4. HeldCodeIsLive'
  <2>1. dead' \subseteq 1..issued
    <3>1. row.code <= issued /\ dead \subseteq 1..issued
      BY DEF CodesInv, HeldCodeIsLive
    <3>2. {row.code} \cap Codes \subseteq 1..issued
      BY <1>1, <3>1 DEF Codes
    <3> QED
      BY <1>1, <3>1, <3>2
  <2>2. row'.code = issued + 1
    BY <1>1
  <2> QED
    BY <1>1, <2>1, <2>2 DEF HeldCodeIsLive
<1>5. \A k \in Verifies : GuessIsJudged(verify[k])'
  BY <1>1 DEF CodesInv, GuessIsJudged
<1>6. GuessesBounded'
  BY <1>1, BoundKept DEF Reading
<1> QED
  BY <1>2, <1>3, <1>4, <1>5, <1>6 DEF CodesInv

LEMMA TimeStep ==
  ASSUME CodesInv, CooldownEnds \/ Expire
  PROVE  CodesInv'
<1>1. UNCHANGED <<flow, issued, tab, send, verify>>
  BY DEF CooldownEnds, Expire
<1>2. /\ row' \in {row, NoRow} /\ row.code \in 0..MaxCodes /\ MaxCodes \in Nat
      /\ dead' \in {dead, dead \cup ({row.code} \cap Codes)}
      /\ row' = NoRow => dead' = dead \cup ({row.code} \cap Codes) \/ row' = row
  BY FieldTypes DEF CooldownEnds, Expire
<1>3. CodesTypeOK'
  <2>1. row' \in RowState
    <3>1. NoRow \in RowState
      BY <1>2 DEF NoRow, RowState
    <3> QED
      BY <1>2, <3>1 DEF CodesInv, CodesTypeOK
  <2>2. cooling' \in BOOLEAN /\ torn' \in BOOLEAN
    BY DEF CooldownEnds, Expire, CodesInv, CodesTypeOK
  <2> QED
    BY <1>1, <1>2, <2>1, <2>2 DEF CodesInv, CodesTypeOK
<1>4. CooldownHasCode'
  BY <1>1 DEF CodesInv, CooldownHasCode, CooldownEnds, Expire
<1>5. HeldCodeIsLive'
  <2>1. dead' \subseteq 1..issued /\ issued \in Nat
    BY <1>2, FieldTypes DEF CodesInv, HeldCodeIsLive, Codes
  <2>2. CASE row' = NoRow
    BY <1>1, <2>1, <2>2 DEF HeldCodeIsLive, NoRow
  <2>3. CASE CooldownEnds
    BY <2>3 DEF CodesInv, HeldCodeIsLive, CooldownEnds
  <2> QED
    BY <2>2, <2>3 DEF Expire
<1>6. \A k \in Verifies : GuessIsJudged(verify[k])'
  BY <1>1, <1>2 DEF CodesInv, GuessIsJudged
<1>7. GuessesBounded'
  BY <1>1, <1>2, BoundKept DEF Reading, NoRow
<1> QED
  BY <1>3, <1>4, <1>5, <1>6, <1>7 DEF CodesInv

(* The steps of a check change one entry of verify; the rest of CodesInv   *)
(* follows from that entry, the hash and the dead codes.                   *)
LEMMA CheckKept ==
  ASSUME CodesInv, NEW k \in Verifies, NEW v, Checking(k, v),
         v \in VerifyState,
         row' \in RowState,
         tab' \in [Tab -> TabState],
         row'.code \in {0, row.code}, row.code # row'.code => row.code \in dead',
         dead \subseteq dead', dead' \subseteq 1..issued,
         row'.code \notin dead',
         GuessIsJudged(v)', GuessesBounded'
  PROVE  CodesInv'
<1>1. UNCHANGED <<flow, cooling, issued, torn, send>>
  BY DEF Checking
<1>2. issued \in 0..MaxCodes /\ MaxCodes \in Nat /\ row.code \in Nat
  BY FieldTypes
<1>3. CodesTypeOK'
  BY <1>1, <1>2 DEF CodesInv, CodesTypeOK, Checking, Codes
<1>4. CooldownHasCode'
  BY <1>1, <1>2 DEF CodesInv, CooldownHasCode
<1>5. HeldCodeIsLive'
  BY <1>1, <1>2 DEF CodesInv, HeldCodeIsLive
<1>6. ASSUME NEW j \in Verifies PROVE GuessIsJudged(verify[j])'
  <2>1. CASE j = k
    BY <2>1 DEF Checking, CodesInv, CodesTypeOK, GuessIsJudged
  <2>2. CASE j # k
    BY <1>1, <2>2 DEF Checking, CodesInv, CodesTypeOK, GuessIsJudged
  <2> QED
    BY <2>1, <2>2
<1> QED
  BY <1>3, <1>4, <1>5, <1>6 DEF CodesInv

LEMMA NoVerifyJudged ==
  ASSUME CodesInv
  PROVE  /\ GuessIsJudged(NoVerify)'
         /\ NoVerify \in VerifyState
BY FieldTypes DEF GuessIsJudged, NoVerify, VerifyState

LEMMA EnterStep ==
  ASSUME CodesInv, NEW t \in Tab, NEW c \in 0..MaxCodes, Enter(t, c)
  PROVE  CodesInv'
<1>0. PICK v : v = [step |-> "sent", tab |-> {t}, code |-> c, saw |-> 0,
                    late |-> c \in dead]
  OBVIOUS
<1>1. PICK k \in Verifies : verify[k] = NoVerify /\ Checking(k, v)
  BY <1>0 DEF Enter
<1>2. UNCHANGED <<row, dead, tab>>
  BY DEF Enter
<1>3. v \in VerifyState
  BY <1>0, FieldTypes DEF VerifyState
<1>4. GuessIsJudged(v)'
  BY <1>0, <1>2 DEF GuessIsJudged
<1>5. Reading' \subseteq Reading
  BY <1>0, <1>1 DEF Reading, Checking, CodesInv, CodesTypeOK
<1>6. GuessesBounded'
  BY <1>2, <1>5, BoundKept
<1> QED
  BY <1>1, <1>2, <1>3, <1>4, <1>6, CheckKept DEF CodesInv, CodesTypeOK, HeldCodeIsLive

(* A check that ends, whatever it had read, and one that read a code.      *)
LEMMA ToldStep ==
  ASSUME CodesInv, NEW k \in Verifies, Told(k), UNCHANGED <<row, dead>>,
         tab' \in [Tab -> TabState]
  PROVE  CodesInv'
<1>1. Reading' \subseteq Reading
  BY DEF Reading, Told, Checking, NoVerify, CodesInv, CodesTypeOK
<1>2. GuessesBounded'
  BY <1>1, BoundKept
<1> QED
  BY <1>2, NoVerifyJudged, CheckKept DEF Told, CodesInv, CodesTypeOK, HeldCodeIsLive

LEMMA ReadCodeStep ==
  ASSUME CodesInv, NEW k \in Verifies, ReadCode(k)
  PROVE  CodesInv'
<1>0. PICK v : v = [verify[k] EXCEPT !.step = "read", !.saw = row.code]
  OBVIOUS
<1>1. UNCHANGED <<row, dead, tab>> /\ verify[k].step = "sent"
  BY DEF ReadCode
<1>2. CASE Told(k)
  BY <1>1, <1>2, ToldStep DEF CodesInv, CodesTypeOK
<1>3. CASE row.there /\ row.code # 0 /\ row.count < MaxAttempts /\ Checking(k, v)
  <2>1. /\ v \in VerifyState /\ v.step = "read" /\ v.saw = row.code
        /\ v.code = verify[k].code /\ v.late = verify[k].late
    BY <1>0, FieldTypes DEF VerifyState
  <2>2. row.code \in 1..issued /\ row.code \notin dead /\ UNCHANGED issued
    BY <1>3, FieldTypes DEF CodesInv, HeldCodeIsLive, Checking
  <2>3. GuessIsJudged(v)'
    BY <1>1, <2>1, <2>2 DEF GuessIsJudged, CodesInv
  <2>4. GuessesBounded'
    BY <1>1, <1>3, ReadingFinite, FieldTypes DEF GuessesBounded
  <2> QED
    BY <1>1, <1>3, <2>1, <2>3, <2>4, CheckKept DEF CodesInv, CodesTypeOK, HeldCodeIsLive
<1> QED
  BY <1>0, <1>2, <1>3 DEF ReadCode

LEMMA ConsumeCodeStep ==
  ASSUME CodesInv, NEW k \in Verifies, ConsumeCode(k)
  PROVE  CodesInv'
<1>1. /\ verify[k].step = "read" /\ verify[k].saw \in 1..issued
      /\ ~verify[k].late
      /\ row' = NoRow /\ UNCHANGED tab
      /\ dead' = dead \cup {verify[k].saw} \cup ({row.code} \cap Codes)
  BY DEF ConsumeCode, CodesInv, CodesTypeOK, GuessIsJudged
<1>2. /\ row' \in RowState
      /\ row'.code = 0 /\ row'.count = 0
  BY <1>1, FieldTypes DEF NoRow, RowState
<1>3. /\ dead \subseteq dead' /\ dead' \subseteq 1..issued
      /\ row.code # 0 => row.code \in dead'
  <2>1. row.code <= issued /\ dead \subseteq 1..issued
    BY DEF CodesInv, HeldCodeIsLive
  <2>2. {row.code} \cap Codes \subseteq 1..issued
    BY <2>1, FieldTypes DEF Codes
  <2>3. row.code # 0 => row.code \in Codes
    BY FieldTypes DEF Codes
  <2> QED
    BY <1>1, <2>1, <2>2, <2>3
<1>4. PICK v \in {[verify[k] EXCEPT !.step = "yes"], NoVerify} : Checking(k, v)
  BY DEF ConsumeCode, Told
<1>5. v \in VerifyState
  BY NoVerifyJudged, FieldTypes DEF VerifyState
<1>6. GuessIsJudged(v)'
  <2>1. CASE v = NoVerify
    BY <2>1, NoVerifyJudged
  <2>2. CASE v = [verify[k] EXCEPT !.step = "yes"]
    <3>1. v.step = "yes" /\ ~v.late
      BY <1>1, <2>2, FieldTypes DEF VerifyState
    <3> QED
      BY <3>1 DEF GuessIsJudged
  <2> QED
    BY <2>1, <2>2
<1>7. v.step # "read"
  BY FieldTypes DEF NoVerify, VerifyState
<1>8. Reading' \subseteq Reading
  BY <1>4, <1>7 DEF Reading, Checking, CodesInv, CodesTypeOK
<1>9. GuessesBounded'
  BY <1>2, <1>8, BoundKept
<1> QED
  BY <1>1, <1>2, <1>3, <1>4, <1>5, <1>6, <1>9, CheckKept DEF CodesInv, CodesTypeOK

(* The guess that is counted is no longer about to be.                     *)
LEMMA IncrementAttemptStep ==
  ASSUME CodesInv, NEW k \in Verifies, IncrementAttempt(k)
  PROVE  CodesInv'
<1>1. /\ k \in Reading /\ Told(k) /\ UNCHANGED <<dead, tab>>
      /\ row' = [row EXCEPT !.there = TRUE, !.count = @ + 1]
      /\ row.count \in Nat
  BY FieldTypes DEF IncrementAttempt, Reading
<1>2. /\ row' \in RowState
      /\ row'.code = row.code /\ row'.count = row.count + 1
  <2>1. row \in RowState
    BY DEF CodesInv, CodesTypeOK
  <2>2. /\ row'.there = TRUE /\ row'.code = row.code /\ row'.count = row.count + 1
        /\ row' = [there |-> TRUE, code |-> row.code, count |-> row.count + 1]
    BY <1>1, <2>1 DEF RowState
  <2>3. [there |-> TRUE, code |-> row.code, count |-> row.count + 1] \in RowState
    BY FieldTypes DEF RowState
  <2> QED
    BY <2>2, <2>3
<1>3. Reading' = Reading \ {k}
  BY <1>1 DEF Reading, Told, Checking, NoVerify, CodesInv, CodesTypeOK
<1>4. Cardinality(Reading') = Cardinality(Reading) - 1
  BY <1>1, <1>3, ReadingFinite, FS_RemoveElement
<1>5. GuessesBounded'
  BY <1>1, <1>2, <1>4, ReadingFinite DEF GuessesBounded, CodesInv
<1> QED
  BY <1>1, <1>2, <1>5, NoVerifyJudged, CheckKept
  DEF Told, CodesInv, CodesTypeOK, HeldCodeIsLive

LEMMA NextCodesInv == CodesInv /\ [CodesNext]_codeVars => CodesInv'
<1> SUFFICES ASSUME CodesInv, [CodesNext]_codeVars PROVE CodesInv'
  OBVIOUS
<1>1. CASE UNCHANGED codeVars
  <2>1. Reading' = Reading
    BY <1>1 DEF codeVars, Reading
  <2> QED
    BY <1>1, <2>1 DEF codeVars, CodesInv, CodesTypeOK, CooldownHasCode,
      HeldCodeIsLive, GuessIsJudged, GuessesBounded
<1>2. ASSUME NEW t \in Tab, NEW c \in 0..MaxCodes, Enter(t, c) PROVE CodesInv'
  BY <1>2, EnterStep
<1>3. ASSUME NEW t \in Tab, SetCode(t) PROVE CodesInv'
  BY <1>3, SetCodeStep
<1>4. ASSUME NEW t \in Tab,
             \/ AskCode(t) \/ ResendCode(t) \/ CountdownEnds(t)
             \/ TryStartCooldown(t) \/ SendRefused(t)
             \/ SendAnswered(t) \/ SendGivenUp(t)
      PROVE CodesInv'
  BY <1>4, SendStep
<1>5. CASE CooldownEnds \/ Expire
  BY <1>5, TimeStep
<1>6. ASSUME NEW k \in Verifies, VerifyRefused(k) \/ VerifyGivenUp(k) PROVE CodesInv'
  BY <1>6, ToldStep DEF VerifyRefused, VerifyGivenUp, CodesInv, CodesTypeOK
<1>7. ASSUME NEW k \in Verifies, VerifyAnswered(k) PROVE CodesInv'
  <2>1. tab' \in [Tab -> TabState]
    BY <1>7 DEF VerifyAnswered, CodesInv, CodesTypeOK, TabState
  <2> QED
    BY <1>7, <2>1, ToldStep DEF VerifyAnswered, Told
<1>8. ASSUME NEW k \in Verifies, ReadCode(k) PROVE CodesInv'
  BY <1>8, ReadCodeStep
<1>9. ASSUME NEW k \in Verifies, ConsumeCode(k) PROVE CodesInv'
  BY <1>9, ConsumeCodeStep
<1>10. ASSUME NEW k \in Verifies, IncrementAttempt(k) PROVE CodesInv'
  BY <1>10, IncrementAttemptStep
<1> QED
  BY <1>1, <1>2, <1>3, <1>4, <1>5, <1>6, <1>7, <1>8, <1>9, <1>10 DEF CodesNext

(* Whatever requests for codes, checks, redemptions and expiries meet, the  *)
(* hash, the cooldown and the count of the guesses stay consistent.        *)
THEOREM CodesConsistent == CodesSpec => []CodesInv
<1> QED
  BY InitCodesInv, NextCodesInv, PTL DEF CodesSpec

(* A code that was dead when it was entered is never accepted.             *)
THEOREM DeadCodesRefused == CodesSpec => []NoLateRedemption
<1>1. CodesInv => NoLateRedemption
  BY DEF CodesInv, GuessIsJudged, NoLateRedemption
<1> QED
  BY <1>1, CodesConsistent, PTL

-----------------------------------------------------------------------------
LEMMA ConsoleShowsSaleForm == Spec => SaleSpec
<1>1. Init => SaleInit
  BY DEF Init, SaleClosed
<1>2. [Next]_consoleVars => [SaleNext]_saleVars
  BY DEF Next, consoleVars, saleVars
<1> QED
  BY <1>1, <1>2, PTL DEF Spec, SaleSpec

LEMMA ConsoleShowsCodes == Spec => CodesSpec
<1>1. Init => CodesInit
  BY DEF Init, CodesClosed
<1>2. [Next]_consoleVars => [CodesNext]_codeVars
  BY DEF Next, consoleVars, codeVars
<1> QED
  BY <1>1, <1>2, PTL DEF Spec, CodesSpec

(* A page that is not mounted has nothing under way.                       *)
LEMMA ClosedPageSound == PageClosed => PageInv
<1> SUFFICES ASSUME PageClosed PROVE PageInv
  OBVIOUS
<1>1. page \in DOMAIN Page /\ stamp \in [Row -> Nat] /\ view \in ViewState
      /\ Top \in Query
  BY PageAssumption DEF PageClosed, Blank, ViewState, Top, Query
<1>2. NoLoad \in LoadState /\ NoLoad.owner = None
  BY <1>1 DEF NoLoad, LoadState
<1>3. /\ load \in [Loads -> LoadState]
      /\ \A l \in Loads : load[l] = NoLoad /\ load[l].owner = None
  BY <1>2 DEF PageClosed
<1>4. /\ clock \in Nat /\ made = Blank /\ told = Blank /\ query = Top
      /\ call = [c \in Calls |-> NoCall] /\ open = NoForm
      /\ busy = [o \in Op |-> None] /\ crossed = FALSE /\ doubts = Blank
      /\ events = 0
  BY DEF PageClosed
<1> QED
  BY <1>1, <1>3, <1>4, FreshSound

LEMMA ClosedListSound == PageClosed => ListInv
<1> SUFFICES ASSUME PageClosed PROVE ListInv
  OBVIOUS
<1>1. PageInv
  BY ClosedPageSound
<1>2. /\ stamp = Blank /\ made = Blank /\ told = Blank /\ query = Top
      /\ view = [shows |-> Blank, query |-> Top, error |-> FALSE, last |-> "none"]
      /\ load = [l \in Loads |-> NoLoad] /\ call = [c \in Calls |-> NoCall]
      /\ open = NoForm
  BY DEF PageClosed
<1> QED
  BY <1>1, <1>2, FreshListInv

(* In the console the flags of the page's buttons agree with what is under *)
(* way for them, a draft is stored again only after a doubt, and the list  *)
(* at rest shows what the user was told is done.                           *)
THEOREM ConsolePagesSound ==
  Spec => [](PageListInv /\ RepeatedOnlyInDoubt /\ ReadsOwnWrites)
<1>1. Init => PageInv /\ ListInv
  BY InitPageInv, ClosedPageSound, InitListInv, ClosedListSound DEF Init
<1>2. [Next]_consoleVars => [PageNext]_pageVars
  BY DEF Next, consoleVars, pageVars
<1> QED
  BY <1>1, <1>2, PageInvInductive, DoubtFirst, ListInvInductive, ListReads,
     PTL DEF Spec, PageListInv

(* In the console the form of the sales page is consistent, and no line is *)
(* sold again but after a submit that failed.                              *)
THEOREM ConsoleSales == Spec => [](SaleFormInv /\ SoldAgainOnlyAfterFailure)
<1> QED
  BY ConsoleShowsSaleForm, SaleFormConsistent, SoldAgainIsAfterFailure, PTL

(* In the console hash, cooldown and count of a code agree, and no code    *)
(* that was dead when it was entered is accepted.                          *)
THEOREM ConsoleCodes == Spec => [](CodesInv /\ NoLateRedemption)
<1> QED
  BY ConsoleShowsCodes, CodesConsistent, DeadCodesRefused, PTL
=============================================================================
