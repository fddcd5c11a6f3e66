---------------------------- MODULE MCSaleLedger ----------------------------
(***************************************************************************)
(* Small instances of SaleLedger for TLC.  Workers, payments and requests  *)
(* are interchangeable: nothing in the module compares them but for        *)
(* equality.                                                               *)
(***************************************************************************)
EXTENDS SaleLedger, TLC

MCSymmetry ==
  Permutations(Workers) \cup Permutations(Payments) \cup Permutations(Requests)
    \cup Permutations(Sales)
=============================================================================
