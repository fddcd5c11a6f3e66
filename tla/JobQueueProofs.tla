--------------------------- MODULE JobQueueProofs ---------------------------
(***************************************************************************)
(* Proofs about JobQueue for every number of jobs, workers and records:    *)
(* the inductive invariant QueueInv, what it implies, and that the queue   *)
(* implements the safety part of JobBoard.  That every job is closed in    *)
(* the end is left to TLC.                                                 *)
(***************************************************************************)
EXTENDS JobQueue, TLAPS

USE JobQueueAssumption

LEMMA InitQueueInv == Init => QueueInv
<1>1. SUFFICES ASSUME Init PROVE QueueInv
  OBVIOUS
<1>2. TypeOK
  BY <1>1 DEF Init, TypeOK, Tx, PC, At, Doing, Status
<1>3. OneHolder /\ \A w \in Workers : HoldsJob(w) /\ Found(w)
  BY <1>1 DEF Init, OneHolder, HoldsJob, Found, Working, At, Doing
<1>4. \A j \in Jobs : since[j] <= data
  <2> SUFFICES ASSUME NEW j \in Jobs PROVE since[j] <= data
    OBVIOUS
  <2>1. data \in Nat /\ 0 <= data
    BY <1>1 DEF Init
  <2>2. since[j] = 0
    BY <1>1 DEF Init
  <2> QED
    BY <2>1, <2>2
<1>5. DoneCoversRequest
  BY <1>1 DEF Init, DoneCoversRequest
<1>6. Prompt
  BY <1>1 DEF Init, Prompt, Working, At, Doing
<1> QED
  BY <1>2, <1>3, <1>4, <1>5, <1>6 DEF QueueInv

(* Each conjunct of the invariant is preserved by each action.  The first  *)
(* lemma is about the types and about who has which job.                   *)
LEMMA HoldersPreserved ==
  ASSUME QueueInv, [Next]_vars
  PROVE  /\ TypeOK' /\ OneHolder'
         /\ \A w \in Workers : HoldsJob(w)'
<1> USE DEF QueueInv, TypeOK, HoldsJob, Working, Tx, PC, Status, At, Doing
<1>1. ASSUME NEW j \in Jobs, Enqueue(j)
      PROVE  TypeOK' /\ OneHolder' /\ \A w \in Workers : HoldsJob(w)'
  BY <1>1 DEF Enqueue, OneHolder
<1>2. ASSUME NEW j \in Jobs, Age(j)
      PROVE  TypeOK' /\ OneHolder' /\ \A w \in Workers : HoldsJob(w)'
  BY <1>2 DEF Age, OneHolder
<1>3. CASE Record
  BY <1>3 DEF Record, OneHolder
<1>4. ASSUME NEW w \in Workers, Tick(w)
      PROVE  TypeOK' /\ OneHolder' /\ \A v \in Workers : HoldsJob(v)'
  <2>1. /\ TypeOK'
        /\ \A v \in Workers : v # w => tx'[v] = tx[v]
        /\ tx'[w].pc = "claim" /\ ~Working(w)
    BY <1>4 DEF Tick, Reapable
  <2>2. OneHolder'
    BY <1>4, <2>1 DEF Tick, OneHolder
  <2>3. ASSUME NEW v \in Workers PROVE HoldsJob(v)'
    BY <1>4, <2>1 DEF Tick, Reapable
  <2> QED
    BY <2>1, <2>2, <2>3
<1>5. ASSUME NEW w \in Workers, NEW j \in Jobs, Claim(w, j)
      PROVE  TypeOK' /\ OneHolder' /\ \A v \in Workers : HoldsJob(v)'
  BY <1>5 DEF Claim, OneHolder, Claimable
<1>6. ASSUME NEW w \in Workers, NothingPending(w)
      PROVE  TypeOK' /\ OneHolder' /\ \A v \in Workers : HoldsJob(v)'
  BY <1>6 DEF NothingPending, OneHolder
<1>7. ASSUME NEW w \in Workers, Read(w)
      PROVE  TypeOK' /\ OneHolder' /\ \A v \in Workers : HoldsJob(v)'
  BY <1>7 DEF Read, OneHolder
<1>8. ASSUME NEW w \in Workers, Write(w)
      PROVE  TypeOK' /\ OneHolder' /\ \A v \in Workers : HoldsJob(v)'
  <2>1. output' \in [Targets -> Nat \cup {None}]
    BY <1>8 DEF Write, Target
  <2>2. PICK error \in BOOLEAN :
          tx' = [tx EXCEPT ![w] =
                   Doing("mark", tx[w].job, tx[w].seen, Outcome(error))]
    BY <1>8 DEF Write
  <2>3. Outcome(error) \in {"done", "failed"}
    BY DEF Outcome
  <2>4. TypeOK' /\ \A v \in Workers : HoldsJob(v)'
    BY <1>8, <2>1, <2>2, <2>3 DEF Write
  <2>5. OneHolder'
    BY <1>8, <2>2 DEF Write, OneHolder
  <2> QED
    BY <2>4, <2>5
<1>9. ASSUME NEW w \in Workers, RunFails(w)
      PROVE  TypeOK' /\ OneHolder' /\ \A v \in Workers : HoldsJob(v)'
  BY <1>9 DEF RunFails, OneHolder, Outcome
<1>10. ASSUME NEW w \in Workers, Mark(w)
       PROVE  TypeOK' /\ OneHolder' /\ \A v \in Workers : HoldsJob(v)'
  BY <1>10 DEF Mark, OneHolder
<1>11. ASSUME NEW w \in Workers, Crash(w)
       PROVE  TypeOK' /\ OneHolder' /\ \A v \in Workers : HoldsJob(v)'
  BY <1>11 DEF Crash, OneHolder
<1>12. CASE UNCHANGED vars
  BY <1>12 DEF vars, OneHolder
<1> QED
  BY <1>1, <1>2, <1>3, <1>4, <1>5, <1>6, <1>7, <1>8, <1>9, <1>10, <1>11,
     <1>12 DEF Next, Step

(* The second lemma is about results: a run finds at least what was there  *)
(* when its job was accepted, and nobody but a run of the same job writes  *)
(* the job's result afterwards.                                            *)
LEMMA ResultsPreserved ==
  ASSUME QueueInv, OwnTargets, [Next]_vars
  PROVE  DoneCoversRequest' /\ \A w \in Workers : Found(w)'
<1> USE DEF QueueInv, TypeOK, HoldsJob, Found, Working, Tx, PC, Status, At,
            Doing, Covers, DoneCoversRequest
<1>1. ASSUME NEW j \in Jobs, Enqueue(j)
      PROVE  DoneCoversRequest' /\ \A w \in Workers : Found(w)'
  BY <1>1 DEF Enqueue, Target
<1>2. ASSUME NEW j \in Jobs, Age(j)
      PROVE  DoneCoversRequest' /\ \A w \in Workers : Found(w)'
  BY <1>2 DEF Age, Target
<1>3. CASE Record
  BY <1>3 DEF Record, Target
<1>4. ASSUME NEW w \in Workers, Tick(w)
      PROVE  DoneCoversRequest' /\ \A v \in Workers : Found(v)'
  BY <1>4 DEF Tick, Reapable, Target
<1>5. ASSUME NEW w \in Workers, NEW j \in Jobs, Claim(w, j)
      PROVE  DoneCoversRequest' /\ \A v \in Workers : Found(v)'
  BY <1>5 DEF Claim, Target
<1>6. ASSUME NEW w \in Workers, NothingPending(w)
      PROVE  DoneCoversRequest' /\ \A v \in Workers : Found(v)'
  BY <1>6 DEF NothingPending, Target
<1>7. ASSUME NEW w \in Workers, Read(w)
      PROVE  DoneCoversRequest' /\ \A v \in Workers : Found(v)'
  BY <1>7 DEF Read, Target
<1>8. ASSUME NEW w \in Workers, Write(w)
      PROVE  DoneCoversRequest' /\ \A v \in Workers : Found(v)'
  <2>1. PICK job \in Jobs, seen \in Nat :
          /\ job = tx[w].job /\ seen = tx[w].seen
          /\ Target(job) \in Targets /\ seen >= since[job]
    BY <1>8 DEF Write, Target
  <2>2. /\ output' = IF seen = 0 /\ ~WritesEmpty
                       THEN output
                       ELSE [output EXCEPT ![Target(job)] = seen]
        /\ since' = since
    BY <1>8, <2>1 DEF Write
  <2>3. Covers(Target(job), since[job])'
    <3>1. CASE seen = 0 /\ ~WritesEmpty
      <4>1. since[job] = 0
        BY <2>1, <3>1
      <4> QED
        BY <2>2, <3>1, <4>1 DEF Target
    <3>2. CASE ~(seen = 0 /\ ~WritesEmpty)
      <4>1. output'[Target(job)] = seen
        BY <2>1, <2>2, <3>2
      <4>2. seen # None
        BY <2>1
      <4> QED
        BY <2>1, <2>2, <4>1, <4>2 DEF Target
    <3> QED
      BY <3>1, <3>2
  <2>4. ASSUME NEW i \in Jobs, Covers(Target(i), since[i])
        PROVE  Covers(Target(i), since[i])'
    <3>1. CASE i = job
      BY <2>3, <3>1
    <3>2. CASE i # job
      <4>1. Target(i) # Target(job)
        BY <2>1, <3>2 DEF OwnTargets
      <4>2. Target(i) \in Targets
        BY DEF Target
      <4>3. output'[Target(i)] = output[Target(i)]
        BY <2>1, <2>2, <4>1, <4>2
      <4> QED
        BY <2>4, <2>2, <4>3 DEF Target
    <3> QED
      BY <3>1, <3>2
  <2>5. DoneCoversRequest'
    BY <1>8, <2>4 DEF Write, Target
  <2>6. ASSUME NEW v \in Workers PROVE Found(v)'
    <3>1. CASE v = w
      <4>1. tx'[w].pc = "mark" /\ tx'[w].job = job
        BY <1>8, <2>1 DEF Write
      <4> QED
        BY <2>3, <3>1, <4>1 DEF Target
    <3>2. CASE v # w
      BY <1>8, <2>4, <3>2 DEF Write, Target
    <3> QED
      BY <3>1, <3>2
  <2> QED
    BY <2>5, <2>6
<1>9. ASSUME NEW w \in Workers, RunFails(w)
      PROVE  DoneCoversRequest' /\ \A v \in Workers : Found(v)'
  BY <1>9 DEF RunFails, Outcome, Target
<1>10. ASSUME NEW w \in Workers, Mark(w)
       PROVE  DoneCoversRequest' /\ \A v \in Workers : Found(v)'
  BY <1>10 DEF Mark, Target
<1>11. ASSUME NEW w \in Workers, Crash(w)
       PROVE  DoneCoversRequest' /\ \A v \in Workers : Found(v)'
  BY <1>11 DEF Crash, Target
<1>12. CASE UNCHANGED vars
  BY <1>12 DEF vars, Target
<1> QED
  BY <1>1, <1>2, <1>3, <1>4, <1>5, <1>6, <1>7, <1>8, <1>9, <1>10, <1>11,
     <1>12 DEF Next, Step

(* The third is about prompt runs: no claim grows old under its worker.    *)
LEMMA PromptPreserved ==
  ASSUME QueueInv, ~SlowRuns, [Next]_vars
  PROVE  Prompt'
<1> USE DEF QueueInv, TypeOK, HoldsJob, Prompt, Working, Tx, PC, Status, At,
            Doing
<1>1. ASSUME NEW j \in Jobs, Enqueue(j) PROVE Prompt'
  BY <1>1 DEF Enqueue
<1>2. ASSUME NEW j \in Jobs, Age(j) PROVE Prompt'
  BY <1>2 DEF Age
<1>3. CASE Record
  BY <1>3 DEF Record
<1>4. ASSUME NEW w \in Workers, Tick(w) PROVE Prompt'
  BY <1>4 DEF Tick, Reapable
<1>5. ASSUME NEW w \in Workers, NEW j \in Jobs, Claim(w, j) PROVE Prompt'
  BY <1>5 DEF Claim, Claimable
<1>6. ASSUME NEW w \in Workers, NothingPending(w) PROVE Prompt'
  BY <1>6 DEF NothingPending
<1>7. ASSUME NEW w \in Workers, Read(w) PROVE Prompt'
  BY <1>7 DEF Read
<1>8. ASSUME NEW w \in Workers, Write(w) PROVE Prompt'
  BY <1>8 DEF Write
<1>9. ASSUME NEW w \in Workers, RunFails(w) PROVE Prompt'
  BY <1>9 DEF RunFails
<1>10. ASSUME NEW w \in Workers, Mark(w) PROVE Prompt'
  BY <1>10 DEF Mark, OneHolder
<1>11. ASSUME NEW w \in Workers, Crash(w) PROVE Prompt'
  BY <1>11 DEF Crash
<1>12. CASE UNCHANGED vars
  BY <1>12 DEF vars
<1> QED
  BY <1>1, <1>2, <1>3, <1>4, <1>5, <1>6, <1>7, <1>8, <1>9, <1>10, <1>11,
     <1>12 DEF Next, Step

LEMMA SincePreserved ==
  ASSUME QueueInv, [Next]_vars
  PROVE  \A j \in Jobs : since'[j] <= data'
<1>1. /\ since \in [Jobs -> Nat] /\ data \in Nat
      /\ \A j \in Jobs : since[j] <= data
  BY DEF QueueInv, TypeOK
<1>2. ASSUME NEW i \in Jobs, Enqueue(i)
      PROVE  \A j \in Jobs : since'[j] <= data'
  BY <1>1, <1>2 DEF Enqueue
<1>3. CASE Record
  BY <1>1, <1>3 DEF Record
<1>4. CASE UNCHANGED <<since, data>>
  BY <1>1, <1>4
<1> QED
  BY <1>2, <1>3, <1>4 DEF Next, Step, vars, Age, Tick, Claim, NothingPending,
     Read, Write, RunFails, Mark, Crash

LEMMA QueueInductive == QueueInv /\ [Next]_vars => QueueInv'
<1> SUFFICES ASSUME QueueInv, [Next]_vars PROVE QueueInv'
  OBVIOUS
<1>1. TypeOK' /\ OneHolder' /\ \A w \in Workers : HoldsJob(w)'
  BY HoldersPreserved
<1>2. \A j \in Jobs : since'[j] <= data'
  BY SincePreserved
<1>3. OwnTargets' => OwnTargets
  BY DEF OwnTargets, Target
<1>4. OwnTargets => DoneCoversRequest' /\ \A w \in Workers : Found(w)'
  BY ResultsPreserved
<1>5. ~SlowRuns => Prompt'
  BY PromptPreserved
<1> QED
  BY <1>1, <1>2, <1>3, <1>4, <1>5 DEF QueueInv

(* Every reachable state of the queue satisfies the invariant that its     *)
(* runs check on two jobs and two workers.                                 *)
THEOREM QueueCorrect == Spec => []QueueInv
BY InitQueueInv, QueueInductive, PTL DEF Spec

(* One claim is one worker's, however many compete for it.                 *)
THEOREM ClaimIsExclusive == Spec => []OneHolder
<1>1. QueueInv => OneHolder
  BY DEF QueueInv
<1> QED
  BY <1>1, QueueCorrect, PTL

(* Where each job writes a result of its own (the exports), a job that     *)
(* reads "done" has one that counts what was there when it was asked for.  *)
THEOREM DoneMeansCovered == OwnTargets => (Spec => []DoneCoversRequest)
<1> SUFFICES ASSUME OwnTargets PROVE Spec => []DoneCoversRequest
  OBVIOUS
<1>1. QueueInv => DoneCoversRequest
  BY DEF QueueInv
<1> QED
  BY <1>1, QueueCorrect, PTL

(* While no run outlasts stale_seconds, a done job stays done.             *)
THEOREM PromptRunsKeepDone == ~SlowRuns => (Spec => DoneStaysDone)
<1> SUFFICES ASSUME ~SlowRuns PROVE Spec => DoneStaysDone
  OBVIOUS
<1>1. QueueInv /\ [Next]_vars
        => [\A j \in Jobs : status[j] = "done" => status'[j] = "done"]_vars
  <2> SUFFICES ASSUME QueueInv, Next, NEW j \in Jobs, status[j] = "done"
               PROVE  status'[j] = "done"
    OBVIOUS
  <2>1. ASSUME NEW w \in Workers, Mark(w) PROVE status'[j] = "done"
    BY <2>1 DEF Mark, QueueInv, Prompt, TypeOK, Working
  <2>2. ASSUME NEW w \in Workers, Tick(w) PROVE status'[j] = "done"
    BY <2>2 DEF Tick, Reapable
  <2>3. ASSUME NEW w \in Workers, NEW i \in Jobs, Claim(w, i)
        PROVE  status'[j] = "done"
    BY <2>3 DEF Claim, Claimable, QueueInv, TypeOK
  <2>4. ASSUME NEW i \in Jobs, Enqueue(i) PROVE status'[j] = "done"
    BY <2>4 DEF Enqueue, QueueInv, TypeOK
  <2>5. CASE status' = status
    BY <2>5
  <2> QED
    BY <2>1, <2>2, <2>3, <2>4, <2>5 DEF Next, Step, Age, Record,
       NothingPending, Read, Write, RunFails, Crash
<1> QED
  BY <1>1, QueueCorrect, PTL DEF Spec, DoneStaysDone

(* The queue implements the board's safety: an accepted job is open until  *)
(* it is closed with a verdict, and never opened again.                    *)
THEOREM QueueImplementsBoard == Spec => Board!Spec
<1>1. Init => Board!Init
  BY DEF Init, Board!Init, Seen
<1>2. QueueInv /\ [Next]_vars => [Board!Next]_Seen
  <2> SUFFICES ASSUME QueueInv, [Next]_vars PROVE [Board!Next]_Seen
    OBVIOUS
  <2> USE DEF QueueInv, TypeOK, Status, Seen
  <2>1. ASSUME NEW j \in Jobs, Enqueue(j) PROVE Board!Next
    <3>1. Board!Submit(j)
      BY <2>1 DEF Enqueue, Board!Submit
    <3> QED
      BY <3>1 DEF Board!Next
  <2>2. ASSUME NEW w \in Workers, Tick(w) PROVE UNCHANGED Seen
    BY <2>2 DEF Tick, Reapable
  <2>3. ASSUME NEW w \in Workers, NEW j \in Jobs, Claim(w, j)
        PROVE  UNCHANGED Seen
    BY <2>3 DEF Claim, Claimable
  <2>4. ASSUME NEW w \in Workers, Mark(w) PROVE Board!Next
    <3>1. PICK j \in Jobs, verdict \in Board!Verdict :
            /\ j = tx[w].job /\ verdict = tx[w].outcome
            /\ status[j] # "absent"
      BY <2>4 DEF Mark, HoldsJob, Working, Board!Verdict
    <3>2. Board!Close(j, verdict)
      <4>1. status' = [status EXCEPT ![j] = verdict]
        BY <2>4, <3>1 DEF Mark
      <4>2. Seen' = [Seen EXCEPT ![j] = verdict]
        BY <4>1 DEF Board!Verdict
      <4>3. Seen[j] # "none"
        BY <3>1
      <4> QED
        BY <4>2, <4>3 DEF Board!Close
    <3> QED
      BY <3>2 DEF Board!Next
  <2>5. CASE UNCHANGED status
    BY <2>5
  <2> QED
    BY <2>1, <2>2, <2>3, <2>4, <2>5 DEF Next, Step, vars, Age, Record,
       NothingPending, Read, Write, RunFails, Crash
<1> QED
  BY <1>1, <1>2, QueueCorrect, PTL DEF Spec, Board!Spec
=============================================================================
