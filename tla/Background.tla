----------------------------- MODULE Background -----------------------------
(***************************************************************************)
(* The loops that go on without a request: the two job queues, the         *)
(* recordings, the outbox and the pull of the deals.  They share no table, *)
(* so each behaviour is one loop's and the others rest.                    *)
(***************************************************************************)
EXTENDS JobQueue, CallRecordings, NotificationOutbox, LeadSync

VARIABLE loop

backgroundVars == <<loop, vars, recordingVars, outboxVars, leadVars>>

BackgroundInit ==
  /\ loop \in {"jobs", "recordings", "outbox", "leads"}
  /\ Init /\ RecordingsInit /\ OutboxInit /\ LeadsInit
  /\ loop # "jobs"  => data = 0
  /\ loop # "leads" => deal.price = CHOOSE x \in Price : TRUE

BackgroundNext ==
  /\ UNCHANGED loop
  /\ \/ /\ loop = "jobs" /\ Next
        /\ UNCHANGED <<recordingVars, outboxVars, leadVars>>
     \/ /\ loop = "recordings" /\ RecordingsNext
        /\ UNCHANGED <<vars, outboxVars, leadVars>>
     \/ /\ loop = "outbox" /\ OutboxNext
        /\ UNCHANGED <<vars, recordingVars, leadVars>>
     \/ /\ loop = "leads" /\ LeadsNext
        /\ UNCHANGED <<vars, recordingVars, outboxVars>>

(* Every worker of the job queues goes on, and their clock; of the other   *)
(* loops it is enough that some part goes on while one can.                *)
BackgroundFairness ==
  /\ \A w \in Workers : WF_vars(loop = "jobs" /\ Step(w))
  /\ \A j \in Jobs : WF_vars(loop = "jobs" /\ Age(j))
  /\ WF_backgroundVars(
       /\ UNCHANGED loop
       /\ \/ /\ loop = "recordings" /\ RecordingsGoOn
             /\ UNCHANGED <<vars, outboxVars, leadVars>>
          \/ /\ loop = "outbox" /\ OutboxGoesOn
             /\ UNCHANGED <<vars, recordingVars, leadVars>>)

BackgroundSpec ==
  BackgroundInit /\ [][BackgroundNext]_backgroundVars /\ BackgroundFairness

-----------------------------------------------------------------------------
(* A loop that is no longer told anything comes to rest: every recording   *)
(* is stored or given up, every message sent or dead, despite crashes,     *)
(* stale claims and tasks that are lost.                                   *)
QueuesSettle ==
  /\ <>[](\A c \in Call : ~call[c].pending)
  /\ <>[](\A m \in Message : outbox[m].status # "pending")
=============================================================================
