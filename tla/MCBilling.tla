----------------------------- MODULE MCBilling -----------------------------
(***************************************************************************)
(* Small instances of Billing for TLC.                                     *)
(***************************************************************************)
EXTENDS Billing, TLC

CONSTANTS kp, kc, kq, km, t1, t2, t3, w1, w2

(* Payme's order with two rival transactions, and Click's, paid for online *)
(* on one day; Payme's order with one transaction, and an invoice written  *)
(* by hand, under dunning.                                                 *)
Online     == {kp, kc}
Dunned     == {kq, km}
MCPayments == Online \cup Dunned
MCProvider == (kp :> "payme") @@ (kc :> "click") @@
              (kq :> "payme") @@ (km :> "manual")
MCOrder    == (t1 :> kp) @@ (t2 :> kp) @@ (t3 :> kq)

(* Workers, and transactions of one order, are interchangeable. *)
MCSymmetry == Permutations({w1, w2}) \cup Permutations({t1, t2})

(* A tenant whose trial never expires pays online, the other is dunned. *)
VARIABLE subject

OnItsDay ==
  /\ now = 0
  /\ \A k \in Dunned : payment[k].status = "absent"

OverDays == \A k \in Online : payment[k].status = "absent"

MCNext ==
  /\ Next /\ UNCHANGED subject
  /\ IF subject = "online" THEN OnItsDay' ELSE OverDays'

MCInit == Init /\ subject = IF trialEnd = None THEN "online" ELSE "dunning"

MCSpec == MCInit /\ [][MCNext]_<<vars, subject>>
=============================================================================
