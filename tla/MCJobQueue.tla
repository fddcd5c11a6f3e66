----------------------------- MODULE MCJobQueue -----------------------------
(***************************************************************************)
(* Small instances of JobQueue for TLC: exports, each into a file of its   *)
(* own, and payroll calculations, all of the same period.                  *)
(***************************************************************************)
EXTENDS JobQueue

MCTwoJobs == {1, 2}
MCOwnFile == [j \in MCTwoJobs |-> j]
MCPeriod  == {1}
MCOnePeriod == [j \in MCTwoJobs |-> 1]
=============================================================================
