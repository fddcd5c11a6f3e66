---------------------------- MODULE MCBackground ----------------------------
(***************************************************************************)
(* The background loops for TLC; the job queue is the exports' instance.   *)
(***************************************************************************)
EXTENDS Background, MCJobQueue

MCCalls  == {1, 2}
MCPrices == {1, 2}
=============================================================================
