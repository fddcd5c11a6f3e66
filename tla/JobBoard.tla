------------------------------ MODULE JobBoard ------------------------------
(***************************************************************************)
(* What the user who asked for a payroll calculation or a report export is *)
(* promised by the job row that is polled (GET .../jobs/{id}): a job that  *)
(* was accepted is open, an open job is closed with a verdict, and a       *)
(* closed job is never open again.  The verdict itself may be corrected:   *)
(* JobQueue says when.                                                     *)
(***************************************************************************)
CONSTANT Jobs

VARIABLE board   \* board[j]: what the poller sees of job j

Verdict == {"done", "failed"}

Init == board = [j \in Jobs |-> "none"]

Submit(j) ==
  /\ board[j] = "none"
  /\ board' = [board EXCEPT ![j] = "open"]

Close(j, verdict) ==
  /\ board[j] # "none"
  /\ board' = [board EXCEPT ![j] = verdict]

Next ==
  \E j \in Jobs : Submit(j) \/ \E verdict \in Verdict : Close(j, verdict)

Spec == Init /\ [][Next]_board

(* Nobody waits for ever for an open job. *)
Served(j) ==
  board[j] = "open" /\ \E verdict \in Verdict : Close(j, verdict)

FairSpec == Spec /\ \A j \in Jobs : WF_board(Served(j))
=============================================================================
