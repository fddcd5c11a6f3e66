--------------------------- MODULE PaymeProtocol ---------------------------
(***************************************************************************)
(* The states that a merchant reports of a Payme transaction, as the       *)
(* constants PAYME_STATE_... of billing/providers.py number them, and the  *)
(* steps they mean: 0 unknown, 1 created, 2 performed, -1 cancelled before *)
(* it was performed, -2 cancelled afterwards.                              *)
(***************************************************************************)
EXTENDS Integers

CONSTANT Txns

VARIABLE state   \* state[t]: what CheckTransaction reports of t

Steps == {<<0, 1>>, <<1, 2>>, <<1, -1>>, <<2, -2>>}

Init == state = [t \in Txns |-> 0]

Next ==
  \E t \in Txns, step \in Steps :
    /\ state[t] = step[1]
    /\ state' = [state EXCEPT ![t] = step[2]]

Spec == Init /\ [][Next]_state
=============================================================================
