------------------------------ MODULE Console ------------------------------
(***************************************************************************)
(* The console as its router shows it: one screen at a time, a page of the *)
(* dashboard, the form of the sales page, or a screen that asks for a      *)
(* code.  What the others would hold is not mounted.                       *)
(***************************************************************************)
EXTENDS ConsolePage, SaleForm, OneTimeCodes

VARIABLE screen

consoleVars == <<screen, pageVars, saleVars, codeVars>>

\* A page that is not mounted loads nothing.
PageClosed ==
  /\ page = CHOOSE p \in DOMAIN Page : TRUE
  /\ stamp = Blank /\ clock = 0 /\ made = Blank /\ told = Blank
  /\ query = Top
  /\ view = [shows |-> Blank, query |-> Top, error |-> FALSE, last |-> "none"]
  /\ load = [l \in Loads |-> NoLoad] /\ call = [c \in Calls |-> NoCall]
  /\ open = NoForm /\ busy = [o \in Op |-> None]
  /\ crossed = FALSE /\ doubts = Blank /\ events = 0

SaleClosed  == SaleInit /\ owes = {}
CodesClosed == CodesInit /\ flow = CHOOSE f \in Flow : TRUE

Init ==
  \/ screen = "page"  /\ PageInit   /\ SaleClosed /\ CodesClosed
  \/ screen = "sale"  /\ PageClosed /\ SaleInit   /\ CodesClosed
  \/ screen = "codes" /\ PageClosed /\ SaleClosed /\ CodesInit

Next ==
  /\ UNCHANGED screen
  /\ \/ screen = "page"  /\ PageNext  /\ UNCHANGED <<saleVars, codeVars>>
     \/ screen = "sale"  /\ SaleNext  /\ UNCHANGED <<pageVars, codeVars>>
     \/ screen = "codes" /\ CodesNext /\ UNCHANGED <<pageVars, saleVars>>

Spec == Init /\ [][Next]_consoleVars /\ PageFairness
=============================================================================
