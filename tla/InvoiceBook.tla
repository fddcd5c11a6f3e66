---------------------------- MODULE InvoiceBook ----------------------------
(***************************************************************************)
(* What the billing of a tenant promises about its invoices, whoever calls *)
(* and however often: an invoice is open once, an open one may be settled, *)
(* which gives the tenant its period exactly once, and an open or settled  *)
(* one may be voided, which is final.                                      *)
(***************************************************************************)
EXTENDS Naturals

CONSTANT Payments

VARIABLES
  stage,   \* stage[k]: what has become of invoice k
  periods  \* periods[k]: how often its period was given to the tenant

vars == <<stage, periods>>

Stage == {"none", "open", "settled", "void"}

Init ==
  /\ stage = [k \in Payments |-> "none"]
  /\ periods = [k \in Payments |-> 0]

Open(k) ==
  /\ stage[k] = "none"
  /\ stage' = [stage EXCEPT ![k] = "open"]
  /\ UNCHANGED periods

Settle(k) ==
  /\ stage[k] = "open"
  /\ stage' = [stage EXCEPT ![k] = "settled"]
  /\ periods' = [periods EXCEPT ![k] = periods[k] + 1]

Void(k) ==
  /\ stage[k] \in {"open", "settled"}
  /\ stage' = [stage EXCEPT ![k] = "void"]
  /\ UNCHANGED periods

Next == \E k \in Payments : Open(k) \/ Settle(k) \/ Void(k)

Spec == Init /\ [][Next]_vars
=============================================================================
