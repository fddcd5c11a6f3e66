------------------------------ MODULE JobQueue ------------------------------
(***************************************************************************)
(* The background job queue of one tenant, of which the code has two       *)
(* copies: payroll_calculation_jobs (finance/payroll_worker.py) and        *)
(* report_export_jobs (reports/export_worker.py).  Every application       *)
(* process runs one worker of each; what they share is the job table and   *)
(* what the jobs produce: the payroll entries of a period, which every job *)
(* of that period replaces, or the export file, one object per job.        *)
(*                                                                         *)
(* Time is one bit per claim: a job is in `aged` when its started_at lies  *)
(* more than stale_seconds back.  What a job computes from is a counter of *)
(* the records (payments, rows) there are to find, and what it produces is *)
(* the number it found.                                                    *)
(***************************************************************************)
EXTENDS Integers

CONSTANTS
  Jobs,         \* job rows, numbered in the order of created_at
  Workers,      \* application processes
  Targets,      \* payroll periods, or objects in the export bucket
  TargetOf,     \* TargetOf[j]: what job j writes
  WritesEmpty,  \* an export of no rows is a file; no payments, no entry
  SlowRuns,     \* whether a run may outlast stale_seconds
  MaxRecords,   \* bound on the records that are ever there
  MaxCrashes,   \* bound on the workers that die
  None

ASSUME JobQueueAssumption ==
  /\ Jobs \subseteq Nat
  /\ TargetOf \in [Jobs -> Targets]
  /\ WritesEmpty \in BOOLEAN
  /\ SlowRuns \in BOOLEAN
  /\ MaxRecords \in Nat
  /\ MaxCrashes \in Nat
  /\ None \notin Nat

VARIABLES
  status,    \* status[j]: the status column of the job row
  aged,      \* jobs whose started_at is older than stale_seconds
  tx,        \* tx[w]: where worker w is in its tick
  output,    \* output[t]: how many records the last result was made from
  data,      \* records there are now
  crashes,   \* workers that died so far (bounded by MaxCrashes)
  (* History, for the properties only. *)
  since,     \* since[j]: data when job j was accepted
  reaped     \* workers whose job was put back under them

vars == <<status, aged, tx, output, data, crashes, since, reaped>>

-----------------------------------------------------------------------------
Status == {"absent", "pending", "processing", "done", "failed"}

(* A worker's program counter, its job, the records it found and the       *)
(* outcome it is about to write.                                           *)
PC   == {"sleep", "claim", "run", "write", "mark"}
Tx   == [pc: PC, job: Jobs \cup {None}, seen: Nat,
         outcome: {"none", "done", "failed"}]
Doing(pc, job, seen, outcome) ==
  [pc |-> pc, job |-> job, seen |-> seen, outcome |-> outcome]
At(pc) == Doing(pc, None, 0, "none")

Working(w) == tx[w].pc \in {"run", "write", "mark"}

(* The claim: UPDATE ... WHERE id = (SELECT ... WHERE status = 'pending'   *)
(* FOR UPDATE SKIP LOCKED).  Mutant: the list-then-mark it replaced, which *)
(* finds a job that has been claimed since.                                *)
ClaimableListed(j) == status[j] \in {"pending", "processing"}
Claimable(j) == status[j] = "pending"

(* The reaper: status = 'processing' AND started_at < now() - interval.    *)
(* Mutant: without the first condition.                                    *)
ReapableEnded(j) == j \in aged
Reapable(j) == status[j] = "processing" /\ j \in aged

\* What a run makes of its exceptions
Outcome(error) == IF error THEN "failed" ELSE "done"

(* Where a run writes: the payroll entries of the period, or the object    *)
(* exports/{tenant}/{job}.  Mutant: a key without the job's id.            *)
TargetShared(j) == CHOOSE t \in Targets : TRUE
Target(j) == TargetOf[j]

-----------------------------------------------------------------------------
Init ==
  /\ status = [j \in Jobs |-> "absent"]
  /\ aged = {}
  /\ tx = [w \in Workers |-> At("sleep")]
  /\ output = [t \in Targets |-> None]
  /\ data \in 0..MaxRecords
  /\ crashes = 0
  /\ since = [j \in Jobs |-> 0]
  /\ reaped = {}

(* POST /finance/payroll/calculate, POST /reports/export. *)
Enqueue(j) ==
  /\ status[j] = "absent"
  /\ \A i \in Jobs : i < j => status[i] # "absent"
  /\ status' = [status EXCEPT ![j] = "pending"]
  /\ since' = [since EXCEPT ![j] = data]
  /\ UNCHANGED <<aged, tx, output, data, crashes, reaped>>

(* Somebody records a payment, a call, a customer. *)
Record ==
  /\ data < MaxRecords
  /\ data' = data + 1
  /\ UNCHANGED <<status, aged, tx, output, crashes, since, reaped>>

-----------------------------------------------------------------------------
(* The worker: a tick reaps, then claims and processes one job after the   *)
(* other until none is pending.                                            *)

Tick(w) ==
  LET stale == {j \in Jobs : Reapable(j)} IN
  /\ tx[w].pc = "sleep"
  /\ status' = [j \in Jobs |-> IF j \in stale THEN "pending" ELSE status[j]]
  /\ aged' = aged \ stale
  /\ reaped' = reaped \cup {v \in Workers : Working(v) /\ tx[v].job \in stale}
  /\ tx' = [tx EXCEPT ![w] = At("claim")]
  /\ UNCHANGED <<output, data, crashes, since>>

Claim(w, j) ==
  /\ tx[w].pc = "claim"
  /\ Claimable(j)
  /\ \A i \in Jobs : Claimable(i) => j <= i
  /\ status' = [status EXCEPT ![j] = "processing"]
  /\ aged' = aged \ {j}
  /\ tx' = [tx EXCEPT ![w] = Doing("run", j, 0, "none")]
  /\ UNCHANGED <<output, data, crashes, since, reaped>>

NothingPending(w) ==
  /\ tx[w].pc = "claim"
  /\ \A j \in Jobs : ~Claimable(j)
  /\ tx' = [tx EXCEPT ![w] = At("sleep")]
  /\ UNCHANGED <<status, aged, output, data, crashes, since, reaped>>

(* _run_payroll_calculation and _run_export fetch first, in one query, ... *)
Read(w) ==
  /\ tx[w].pc = "run"
  /\ tx' = [tx EXCEPT ![w] = Doing("write", tx[w].job, data, "none")]
  /\ UNCHANGED <<status, aged, output, data, crashes, since, reaped>>

(* ... and store the result afterwards, whatever is there by then: ON      *)
(* CONFLICT DO UPDATE, or an object put under the same key.  The answer to *)
(* a store that happened may still be an error.                            *)
Write(w) ==
  /\ tx[w].pc = "write"
  /\ output' = IF tx[w].seen = 0 /\ ~WritesEmpty
                 THEN output
                 ELSE [output EXCEPT ![Target(tx[w].job)] = tx[w].seen]
  /\ \E error \in BOOLEAN :
       tx' = [tx EXCEPT ![w] =
         Doing("mark", tx[w].job, tx[w].seen, Outcome(error))]
  /\ UNCHANGED <<status, aged, data, crashes, since, reaped>>

RunFails(w) ==
  /\ tx[w].pc \in {"run", "write"}
  /\ tx' = [tx EXCEPT ![w] =
       Doing("mark", tx[w].job, tx[w].seen, Outcome(TRUE))]
  /\ UNCHANGED <<status, aged, output, data, crashes, since, reaped>>

(* mark_..._done and mark_..._failed name the job only: whoever comes last *)
(* has its way, whatever has become of the job in between.                 *)
Mark(w) ==
  /\ tx[w].pc = "mark"
  /\ status' = [status EXCEPT ![tx[w].job] = tx[w].outcome]
  /\ tx' = [tx EXCEPT ![w] = At("claim")]
  /\ reaped' = reaped \ {w}
  /\ UNCHANGED <<aged, output, data, crashes, since>>

-----------------------------------------------------------------------------
(* Time passes for a claim.  config.py wants stale_seconds longer than any *)
(* run, so that only the claim of a worker that is gone grows old; nothing *)
(* enforces it.                                                            *)
Age(j) ==
  /\ status[j] = "processing" /\ j \notin aged
  /\ SlowRuns \/ \A w \in Workers : Working(w) => tx[w].job # j
  /\ aged' = aged \cup {j}
  /\ UNCHANGED <<status, tx, output, data, crashes, since, reaped>>

(* A worker dies (a restart cancels it, a failing mark ends its tick): its *)
(* transaction is rolled back, its job stays "processing".                 *)
Crash(w) ==
  /\ crashes < MaxCrashes
  /\ Working(w)
  /\ crashes' = crashes + 1
  /\ tx' = [tx EXCEPT ![w] = At("sleep")]
  /\ reaped' = reaped \ {w}
  /\ UNCHANGED <<status, aged, output, data, since>>

-----------------------------------------------------------------------------
Step(w) ==
  \/ Tick(w)
  \/ (\E j \in Jobs : Claim(w, j)) \/ NothingPending(w)
  \/ Read(w) \/ Write(w) \/ RunFails(w)
  \/ Mark(w)

Next ==
  \/ \E j \in Jobs : Enqueue(j) \/ Age(j)
  \/ Record
  \/ \E w \in Workers : Step(w) \/ Crash(w)

Spec == Init /\ [][Next]_vars

(* The event loop resumes every worker and the clock goes on. *)
Fairness ==
  /\ \A w \in Workers : WF_vars(Step(w))
  /\ \A j \in Jobs : WF_vars(Age(j))

FairSpec == Spec /\ Fairness

-----------------------------------------------------------------------------
(* Invariants *)

TypeOK ==
  /\ status \in [Jobs -> Status]
  /\ aged \subseteq Jobs
  /\ tx \in [Workers -> Tx]
  /\ output \in [Targets -> Nat \cup {None}]
  /\ data \in Nat
  /\ crashes \in Nat
  /\ since \in [Jobs -> Nat]
  /\ reaped \subseteq Workers

(* Two workers process one job only when it was put back under one of      *)
(* them: however they interleave, one claim is given to one worker.        *)
OneHolder ==
  \A v, w \in Workers \ reaped :
    Working(v) /\ Working(w) /\ tx[v].job = tx[w].job => v = w

(* n records in the result, or none where there was nothing to find.       *)
Covers(t, n) ==
  \/ n = 0 /\ ~WritesEmpty
  \/ output[t] # None /\ output[t] >= n

(* A job that reads "done" has a result, and the result counts everything  *)
(* that was there when the job was asked for, whichever of its runs wrote  *)
(* it last and whichever of them said "done".                              *)
DoneCoversRequest ==
  \A j \in Jobs : status[j] = "done" => Covers(Target(j), since[j])

-----------------------------------------------------------------------------
(* What makes them inductive. *)

(* A worker between claim and mark has a job that was accepted, and one    *)
(* nobody put back has a job that is not up for another claim.             *)
HoldsJob(w) ==
  /\ Working(w) => tx[w].job \in Jobs /\ status[tx[w].job] # "absent"
  /\ Working(w) /\ w \notin reaped => status[tx[w].job] # "pending"
  /\ w \in reaped => Working(w)
  /\ tx[w].pc = "mark" => tx[w].outcome \in {"done", "failed"}

(* The result a worker has made or is about to make counts what was there  *)
(* when its job was asked for.                                             *)
Found(w) ==
  /\ tx[w].pc = "write" => tx[w].seen >= since[tx[w].job]
  /\ tx[w].pc = "mark" /\ tx[w].outcome = "done"
       => Covers(Target(tx[w].job), since[tx[w].job])

(* While runs are prompt nothing is put back under a worker, a claim that  *)
(* has grown old has no worker, and a job under way is "processing".       *)
Prompt ==
  /\ reaped = {}
  /\ \A w \in Workers : Working(w) =>
       status[tx[w].job] = "processing" /\ tx[w].job \notin aged

(* Each job writes a result of its own. *)
OwnTargets == \A i, j \in Jobs : Target(i) = Target(j) => i = j

QueueInv ==
  /\ TypeOK /\ OneHolder
  /\ \A w \in Workers : HoldsJob(w)
  /\ \A j \in Jobs : since[j] <= data
  /\ OwnTargets =>
       DoneCoversRequest /\ \A w \in Workers : Found(w)
  /\ ~SlowRuns => Prompt

-----------------------------------------------------------------------------
(* Action properties *)

(* A job that reads "done" goes on reading "done". *)
DoneStaysDone ==
  [][\A j \in Jobs : status[j] = "done" => status'[j] = "done"]_vars

-----------------------------------------------------------------------------
(* What the poller sees. *)

Seen == [j \in Jobs |->
  CASE status[j] = "absent" -> "none"
    [] status[j] \in {"pending", "processing"} -> "open"
    [] OTHER -> status[j]]

Board == INSTANCE JobBoard WITH board <- Seen

(* The queue keeps the promise of the board: every accepted job is closed  *)
(* in the end, despite crashes, and no closed job is opened again, despite *)
(* the reaper and late marks.                                              *)
ImplementsBoard == Board!FairSpec
=============================================================================
