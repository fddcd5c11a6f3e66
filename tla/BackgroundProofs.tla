-------------------------- MODULE BackgroundProofs --------------------------
(***************************************************************************)
(* Proofs about the loops that run without a request, for any number of    *)
(* calls, messages and processes: the invariants of the recordings and of  *)
(* the outbox are inductive, a pull that writes a sale knows the sale it   *)
(* writes, and each of these holds, with the job queue's, in Background.   *)
(***************************************************************************)
EXTENDS Background, JobQueueProofs, SumLemmas

-----------------------------------------------------------------------------
(* Recordings *)

LEMMA InitRecordingsInv == RecordingsInit => RecordingsInv
<1> SUFFICES ASSUME RecordingsInit PROVE RecordingsInv
  OBVIOUS
<1>1. RecordingsTypeOK
  <2>1. NoBatch \in Batch
    BY DEF NoBatch, Batch
  <2>2. /\ call \in [Call -> CallRow] /\ batch \in [Downloader -> Batch]
        /\ told \in [Call -> Nat] /\ abandoned \in 0..MaxAbandoned
        /\ overtaken \subseteq Downloader \X Call
    BY <2>1, RecordingsAssumption DEF RecordingsInit, CallRow
  <2> QED
    BY <2>2 DEF RecordingsTypeOK
<1>2. \A w \in Downloader, c \in Call : ~Holds(w, c)
  BY RecordingsAssumption DEF RecordingsInit, NoBatch, Holds
<1>3. \A w \in Downloader : Claimed(w)
  BY <1>2 DEF RecordingsInit, NoBatch, Claimed
<1>4. \A c \in Call : StoredIsDone(c) /\ GivenUpAfterTrying(c) /\ OneDownloader(c)
  BY <1>2 DEF RecordingsInit, StoredIsDone, GivenUpAfterTrying, OneDownloader
<1> QED
  BY <1>1, <1>3, <1>4 DEF RecordingsInv

(* A step that touches no batch and takes no claim away keeps what batches *)
(* and claims have to do with each other.                                  *)
LEMMA BatchesKept ==
  ASSUME RecordingsInv, UNCHANGED <<batch, overtaken>>,
         \A c \in Call : call[c].claim # "none" => call'[c].claim # "none"
  PROVE  /\ \A w \in Downloader : Claimed(w)'
         /\ \A c \in Call : OneDownloader(c)'
<1>1. \A w \in Downloader, c \in Call : Holds(w, c)' <=> Holds(w, c)
  BY DEF Holds
<1> QED
  BY <1>1 DEF RecordingsInv, Claimed, OneDownloader

LEMMA TellKeeps ==
  ASSUME RecordingsInv, NEW c \in Call, Tell(c)
  PROVE  RecordingsInv'
<1>1. /\ call \in [Call -> CallRow] /\ told \in [Call -> Nat]
      /\ call' = [call EXCEPT ![c].pending = @ \/ ~call[c].stored]
      /\ told' = [told EXCEPT ![c] = @ + 1]
      /\ UNCHANGED <<batch, abandoned, overtaken>>
  BY Zenon DEF RecordingsInv, RecordingsTypeOK, Tell
<1>2. \A d \in Call : /\ call'[d].stored = call[d].stored
                      /\ call'[d].attempts = call[d].attempts
                      /\ call'[d].claim = call[d].claim
  BY <1>1 DEF CallRow
<1>3. /\ call'[c].pending = (call[c].pending \/ ~call[c].stored)
      /\ \A d \in Call \ {c} : call'[d] = call[d] /\ told'[d] = told[d]
  BY <1>1 DEF CallRow
<1>4. RecordingsTypeOK'
  <2>1. call' \in [Call -> CallRow]
    BY <1>1 DEF CallRow
  <2> QED
    BY <2>1, <1>1 DEF RecordingsTypeOK, RecordingsInv
<1>5. \A d \in Call : StoredIsDone(d)' /\ GivenUpAfterTrying(d)'
  BY <1>1, <1>2, <1>3 DEF RecordingsInv, StoredIsDone, GivenUpAfterTrying
<1>6. /\ \A w \in Downloader : Claimed(w)'
      /\ \A d \in Call : OneDownloader(d)'
  BY <1>1, <1>2, BatchesKept
<1> QED
  BY <1>4, <1>5, <1>6 DEF RecordingsInv

LEMMA ClaimBatchKeeps ==
  ASSUME RecordingsInv, NEW w \in Downloader, ClaimBatch(w)
  PROVE  RecordingsInv'
<1>1. PICK claimed \in SUBSET {c \in Call : ClaimableCall(c)} :
        /\ call' = [c \in Call |-> IF c \in claimed
                      THEN [call[c] EXCEPT !.claim = "fresh"] ELSE call[c]]
        /\ batch' = [batch EXCEPT ![w].todo = claimed]
        /\ overtaken' = overtaken \cup
             {x \in Downloader \X claimed :
                Holds(x[1], x[2]) /\ call[x[2]].claim = "stale"}
  BY DEF ClaimBatch
<1>2. /\ batch[w] = NoBatch /\ UNCHANGED <<told, abandoned>>
      /\ call \in [Call -> CallRow] /\ batch \in [Downloader -> Batch]
      /\ overtaken \subseteq Downloader \X Call
  BY DEF ClaimBatch, RecordingsInv, RecordingsTypeOK
<1>3. \A c \in Call : /\ call'[c].pending = call[c].pending
                      /\ call'[c].stored = call[c].stored
                      /\ call'[c].attempts = call[c].attempts
                      /\ call[c].claim # "none" => call'[c].claim # "none"
                      /\ c \in claimed => call'[c].claim # "none"
  BY <1>1, <1>2 DEF CallRow
<1>4. /\ batch'[w] = [NoBatch EXCEPT !.todo = claimed]
      /\ \A v \in Downloader \ {w} : batch'[v] = batch[v]
  BY <1>1, <1>2
<1>5. /\ \A c \in Call : Holds(w, c)' <=> c \in claimed
      /\ \A v \in Downloader \ {w}, c \in Call : Holds(v, c)' <=> Holds(v, c)
  BY <1>4, RecordingsAssumption DEF Holds, NoBatch
<1>6. RecordingsTypeOK'
  <2>1. call' \in [Call -> CallRow]
    BY <1>1, <1>2 DEF CallRow
  <2>2. batch' \in [Downloader -> Batch]
    BY <1>1, <1>2 DEF Batch, NoBatch
  <2>3. overtaken' \subseteq Downloader \X Call
    BY <1>1, <1>2
  <2> QED
    BY <2>1, <2>2, <2>3, <1>2 DEF RecordingsTypeOK, RecordingsInv
<1>7. ASSUME NEW v \in Downloader PROVE Claimed(v)'
  <2>1. CASE v = w
    <3>1. NoCall \notin claimed
      BY <1>1, RecordingsAssumption
    <3> QED
      BY <2>1, <3>1, <1>3, <1>4, <1>5 DEF Claimed, NoBatch
  <2>2. CASE v # w
    BY <2>2, <1>3, <1>4, <1>5 DEF RecordingsInv, Claimed
  <2> QED
    BY <2>1, <2>2
<1>8. \A c \in Call : StoredIsDone(c)' /\ GivenUpAfterTrying(c)'
  BY <1>2, <1>3 DEF RecordingsInv, StoredIsDone, GivenUpAfterTrying
<1>9. ASSUME NEW c \in claimed, NEW v \in Downloader, Holds(v, c)
      PROVE  <<v, c>> \in overtaken'
  <2>1. c \in Call /\ call[c].claim # "fresh" /\ call[c].claim # "none"
    BY <1>9 DEF ClaimableCall, RecordingsInv, Claimed
  <2>2. call[c].claim = "stale"
    BY <2>1, <1>2 DEF CallRow
  <2> QED
    BY <2>2, <1>1, <1>9
<1>10. overtaken \subseteq overtaken'
  BY <1>1
<1>11. ASSUME NEW c \in Call, NEW u \in Downloader, NEW v \in Downloader,
              u # v, Holds(u, c)', Holds(v, c)'
       PROVE  <<u, c>> \in overtaken' \/ <<v, c>> \in overtaken'
  <2>1. CASE u = w
    BY <2>1, <1>5, <1>9, <1>11
  <2>2. CASE v = w
    BY <2>2, <1>5, <1>9, <1>11
  <2>3. CASE u # w /\ v # w
    <3>1. Holds(u, c) /\ Holds(v, c)
      BY <2>3, <1>5, <1>11
    <3> QED
      BY <3>1, <1>10, <1>11 DEF RecordingsInv, OneDownloader
  <2> QED
    BY <2>1, <2>2, <2>3
<1>12. \A c \in Call : OneDownloader(c)'
  BY <1>11 DEF OneDownloader
<1> QED
  BY <1>6, <1>7, <1>8, <1>12 DEF RecordingsInv

LEMMA DownloadKeeps ==
  ASSUME RecordingsInv, NEW w \in Downloader, NEW c \in Call, Download(w, c)
  PROVE  RecordingsInv'
<1>1. PICK got \in {"file", "error"} :
        batch' = [batch EXCEPT ![w] =
          [todo |-> @.todo \ {c}, doing |-> c, got |-> got]]
  BY DEF Download
<1>2. /\ batch[w].doing = NoCall /\ c \in batch[w].todo
      /\ UNCHANGED <<call, told, abandoned, overtaken>>
      /\ batch \in [Downloader -> Batch]
  BY DEF Download, RecordingsInv, RecordingsTypeOK
<1>3. /\ batch'[w] = [todo |-> batch[w].todo \ {c}, doing |-> c, got |-> got]
      /\ \A v \in Downloader \ {w} : batch'[v] = batch[v]
  BY <1>1, <1>2
<1>4. \A v \in Downloader, d \in Call : Holds(v, d)' <=> Holds(v, d)
  BY <1>2, <1>3, RecordingsAssumption DEF Holds
<1>5. RecordingsTypeOK'
  <2>1. batch' \in [Downloader -> Batch]
    BY <1>1, <1>2 DEF Batch
  <2> QED
    BY <2>1, <1>2 DEF RecordingsTypeOK, RecordingsInv
<1>6. \A v \in Downloader : Claimed(v)'
  BY <1>2, <1>3, <1>4 DEF RecordingsInv, Claimed
<1>7. \A d \in Call :
        StoredIsDone(d)' /\ GivenUpAfterTrying(d)' /\ OneDownloader(d)'
  BY <1>2, <1>4
     DEF RecordingsInv, StoredIsDone, GivenUpAfterTrying, OneDownloader
<1> QED
  BY <1>5, <1>6, <1>7 DEF RecordingsInv

(* A mark takes the call from the batch of its worker and forgets that it  *)
(* was overtaken there.                                                    *)
LEMMA MarkedKeeps ==
  ASSUME RecordingsInv, NEW w \in Downloader, Marked(w),
         batch[w].doing \in Call,
         \A c \in Call : call[c].claim # "none" => call'[c].claim # "none"
  PROVE  /\ \A v \in Downloader : Claimed(v)'
         /\ \A c \in Call : OneDownloader(c)'
         /\ batch' \in [Downloader -> Batch]
         /\ overtaken' \subseteq Downloader \X Call
<1> DEFINE d == batch[w].doing
<1>1. /\ batch \in [Downloader -> Batch]
      /\ overtaken \subseteq Downloader \X Call
      /\ batch' = [batch EXCEPT ![w] = [NoBatch EXCEPT !.todo = batch[w].todo]]
      /\ overtaken' = overtaken \ {<<w, d>>}
      /\ d \notin batch[w].todo
  BY DEF Marked, RecordingsInv, RecordingsTypeOK, Claimed
<1>2. /\ batch'[w] = [NoBatch EXCEPT !.todo = batch[w].todo]
      /\ \A v \in Downloader \ {w} : batch'[v] = batch[v]
  BY <1>1
<1>3. /\ \A c \in Call : Holds(w, c)' <=> Holds(w, c) /\ c # d
      /\ \A v \in Downloader \ {w}, c \in Call : Holds(v, c)' <=> Holds(v, c)
  BY <1>1, <1>2, RecordingsAssumption DEF Holds, NoBatch
<1>4. ASSUME NEW v \in Downloader PROVE Claimed(v)'
  <2>1. CASE v = w
    <3>1. NoCall \notin batch[w].todo
      BY <1>1, RecordingsAssumption DEF Batch
    <3> QED
      BY <2>1, <3>1, <1>2, <1>3 DEF RecordingsInv, Claimed, NoBatch
  <2>2. CASE v # w
    BY <2>2, <1>2, <1>3 DEF RecordingsInv, Claimed
  <2> QED
    BY <2>1, <2>2
<1>5. ASSUME NEW c \in Call, NEW u \in Downloader, NEW v \in Downloader,
             u # v, Holds(u, c)', Holds(v, c)'
      PROVE  <<u, c>> \in overtaken' \/ <<v, c>> \in overtaken'
  <2>1. Holds(u, c) /\ Holds(v, c)
    BY <1>3, <1>5
  <2>2. <<u, c>> \in overtaken \/ <<v, c>> \in overtaken
    BY <2>1, <1>5 DEF RecordingsInv, OneDownloader
  <2>3. <<u, c>> # <<w, d>> /\ <<v, c>> # <<w, d>>
    BY <1>3, <1>5
  <2> QED
    BY <2>2, <2>3, <1>1
<1>6. \A c \in Call : OneDownloader(c)'
  BY <1>5 DEF OneDownloader
<1>7. batch' \in [Downloader -> Batch]
  BY <1>1 DEF Batch, NoBatch
<1> QED
  BY <1>1, <1>4, <1>6, <1>7

LEMMA StoreKeyKeeps ==
  ASSUME RecordingsInv, NEW w \in Downloader, StoreKey(w)
  PROVE  RecordingsInv'
<1> DEFINE d == batch[w].doing
<1>1. /\ call \in [Call -> CallRow] /\ told \in [Call -> Nat]
      /\ d \in Call /\ UNCHANGED <<told, abandoned>> /\ Marked(w)
      /\ call' = [call EXCEPT ![d].stored = TRUE, ![d].pending = FALSE]
  BY DEF RecordingsInv, RecordingsTypeOK, StoreKey, Marked, Claimed
<1>2. /\ \A c \in Call : call'[c].claim = call[c].claim
      /\ \A c \in Call \ {d} : call'[c] = call[c]
      /\ call'[d].stored = TRUE /\ call'[d].pending = FALSE
  BY <1>1 DEF CallRow
<1>3. \A c \in Call : StoredIsDone(c)' /\ GivenUpAfterTrying(c)'
  BY <1>1, <1>2 DEF RecordingsInv, StoredIsDone, GivenUpAfterTrying
<1>4. call' \in [Call -> CallRow]
  BY <1>1 DEF CallRow
<1>5. /\ \A v \in Downloader : Claimed(v)'
      /\ \A c \in Call : OneDownloader(c)'
      /\ batch' \in [Downloader -> Batch]
      /\ overtaken' \subseteq Downloader \X Call
  BY <1>1, <1>2, MarkedKeeps
<1> QED
  BY <1>1, <1>3, <1>4, <1>5 DEF RecordingsInv, RecordingsTypeOK

LEMMA CountFailureKeeps ==
  ASSUME RecordingsInv, NEW w \in Downloader, CountFailure(w)
  PROVE  RecordingsInv'
<1>0. PICK d \in Call : d = batch[w].doing
  BY DEF RecordingsInv, Claimed, CountFailure
<1>1. /\ call \in [Call -> CallRow] /\ told \in [Call -> Nat]
      /\ batch[w].doing \in Call /\ UNCHANGED <<told, abandoned>> /\ Marked(w)
      /\ call' = [call EXCEPT ![d].attempts = @ + 1,
                              ![d].pending = @ /\ ~GivesUp(d)]
  BY <1>0 DEF RecordingsInv, RecordingsTypeOK, CountFailure, Marked
<1>2. /\ \A c \in Call : call'[c].claim = call[c].claim
      /\ \A c \in Call \ {d} : call'[c] = call[c]
      /\ call'[d].stored = call[d].stored
      /\ call'[d].attempts = call[d].attempts + 1
      /\ call'[d].pending = (call[d].pending /\ ~GivesUp(d))
  BY <1>1 DEF CallRow
<1>3. call[d].attempts \in Nat /\ MaxAttempts \in Nat
  BY <1>1, RecordingsAssumption DEF CallRow
<1>4. StoredIsDone(d)' /\ GivenUpAfterTrying(d)'
  <2>1. StoredIsDone(d) /\ GivenUpAfterTrying(d)
    BY <1>1 DEF RecordingsInv
  <2>2. GivesUp(d) => call'[d].attempts >= MaxAttempts
    BY <1>2 DEF GivesUp
  <2>3. StoredIsDone(d)'
    BY <2>1, <1>2 DEF StoredIsDone
  <2>4. ASSUME told[d] > 0, ~call'[d].pending, ~call'[d].stored
        PROVE  call'[d].attempts >= MaxAttempts
    <3>1. CASE call[d].pending
      BY <2>2, <2>4, <3>1, <1>2
    <3>2. CASE ~call[d].pending
      <4>1. call[d].attempts >= MaxAttempts
        BY <2>1, <2>4, <3>2, <1>2 DEF GivenUpAfterTrying
      <4> QED
        BY <4>1, <1>2, <1>3
    <3> QED
      BY <3>1, <3>2
  <2> QED
    BY <2>3, <2>4, <1>1 DEF GivenUpAfterTrying
<1>5. \A c \in Call \ {d} : StoredIsDone(c)' /\ GivenUpAfterTrying(c)'
  BY <1>1, <1>2 DEF RecordingsInv, StoredIsDone, GivenUpAfterTrying
<1>6. call' \in [Call -> CallRow]
  <2>1. (call[d].pending /\ ~GivesUp(d)) \in BOOLEAN
    OBVIOUS
  <2>2. call[d].attempts + 1 \in Nat
    BY <1>3
  <2> QED
    BY <2>1, <2>2, <1>1 DEF CallRow
<1>7. /\ \A v \in Downloader : Claimed(v)'
      /\ \A c \in Call : OneDownloader(c)'
      /\ batch' \in [Downloader -> Batch]
      /\ overtaken' \subseteq Downloader \X Call
  BY <1>1, <1>2, MarkedKeeps
<1>8. RecordingsTypeOK'
  BY <1>1, <1>6, <1>7 DEF RecordingsInv, RecordingsTypeOK
<1>9. \A c \in Call : StoredIsDone(c)' /\ GivenUpAfterTrying(c)'
  BY <1>4, <1>5
<1> QED
  BY <1>7, <1>8, <1>9 DEF RecordingsInv

LEMMA AbandonKeeps ==
  ASSUME RecordingsInv, NEW w \in Downloader, Abandon(w)
  PROVE  RecordingsInv'
<1>1. /\ batch \in [Downloader -> Batch] /\ overtaken \subseteq Downloader \X Call
      /\ abandoned' \in 0..MaxAbandoned /\ UNCHANGED <<call, told>>
      /\ batch' = [batch EXCEPT ![w] = NoBatch]
      /\ overtaken' = {x \in overtaken : x[1] # w}
  BY RecordingsAssumption DEF RecordingsInv, RecordingsTypeOK, Abandon
<1>2. batch'[w] = NoBatch /\ \A v \in Downloader \ {w} : batch'[v] = batch[v]
  BY <1>1
<1>3. /\ \A c \in Call : ~Holds(w, c)'
      /\ \A v \in Downloader \ {w}, c \in Call : Holds(v, c)' <=> Holds(v, c)
  BY <1>2, RecordingsAssumption DEF Holds, NoBatch
<1>4. \A v \in Downloader : Claimed(v)'
  BY <1>1, <1>2, <1>3 DEF RecordingsInv, Claimed, NoBatch
<1>5. ASSUME NEW c \in Call PROVE OneDownloader(c)'
  BY <1>1, <1>3 DEF RecordingsInv, OneDownloader
<1>6. NoBatch \in Batch
  BY DEF NoBatch, Batch
<1>7. RecordingsTypeOK'
  BY <1>1, <1>6 DEF RecordingsInv, RecordingsTypeOK
<1>8. \A c \in Call : StoredIsDone(c)' /\ GivenUpAfterTrying(c)'
  BY <1>1 DEF RecordingsInv, StoredIsDone, GivenUpAfterTrying
<1> QED
  BY <1>4, <1>5, <1>7, <1>8 DEF RecordingsInv

LEMMA GrowStaleKeeps ==
  ASSUME RecordingsInv, NEW c \in Call, GrowStale(c)
  PROVE  RecordingsInv'
<1>1. /\ call \in [Call -> CallRow]
      /\ call' = [call EXCEPT ![c].claim = "stale"]
      /\ UNCHANGED <<batch, told, abandoned, overtaken>>
  BY DEF RecordingsInv, RecordingsTypeOK, GrowStale
<1>2. \A d \in Call : /\ call'[d].stored = call[d].stored
                      /\ call'[d].attempts = call[d].attempts
                      /\ call'[d].pending = call[d].pending
                      /\ call[d].claim # "none" => call'[d].claim # "none"
  BY <1>1 DEF CallRow
<1>3. call' \in [Call -> CallRow]
  BY <1>1 DEF CallRow
<1>4. \A d \in Call : StoredIsDone(d)' /\ GivenUpAfterTrying(d)'
  BY <1>1, <1>2 DEF RecordingsInv, StoredIsDone, GivenUpAfterTrying
<1>5. /\ \A w \in Downloader : Claimed(w)'
      /\ \A d \in Call : OneDownloader(d)'
  BY <1>1, <1>2, BatchesKept
<1> QED
  BY <1>1, <1>3, <1>4, <1>5 DEF RecordingsInv, RecordingsTypeOK

LEMMA RecordingsInductive ==
  RecordingsInv /\ [RecordingsNext]_recordingVars => RecordingsInv'
<1>1. ASSUME RecordingsInv, UNCHANGED recordingVars PROVE RecordingsInv'
  BY <1>1 DEF recordingVars, RecordingsInv, RecordingsTypeOK, Claimed, Holds,
              StoredIsDone, GivenUpAfterTrying, OneDownloader
<1> QED
  BY <1>1, TellKeeps, ClaimBatchKeeps, DownloadKeeps, StoreKeyKeeps,
     CountFailureKeeps, AbandonKeeps, GrowStaleKeeps
     DEF RecordingsNext, RecordingsGoOn


-----------------------------------------------------------------------------
(* Outbox *)

LEMMA InitOutboxInv == OutboxInit => OutboxInv
<1> SUFFICES ASSUME OutboxInit PROVE OutboxInv
  OBVIOUS
<1>1. OutboxTypeOK
  BY OutboxAssumption
     DEF OutboxInit, OutboxTypeOK, OutboxRow, Task, NoTask
<1>2. \A p \in Process : task[p] = NoTask
  BY DEF OutboxInit
<1>3. \A p \in Process : TaskSound(p)
  BY <1>2 DEF TaskSound, NoTask
<1>4. \A p \in Process, m \in Message : task[p].message # m
  BY <1>2, OutboxAssumption DEF NoTask
<1>5. \A m \in Message :
        OneAttempt(m) /\ SentTwiceOnlyExcused(m) /\ StatusIsTrue(m)
  BY <1>4 DEF OutboxInit, OneAttempt, SentTwiceOnlyExcused, StatusIsTrue
<1> QED
  BY <1>1, <1>3, <1>5 DEF OutboxInv

(* What the invariant says about one message and the tasks at it, given    *)
(* once for the steps that leave the other messages alone.                 *)
LEMMA OtherMessages ==
  ASSUME OutboxInv, NEW m \in Message, NEW n \in Message, n # m,
         outbox'[n] = outbox[n], received'[n] = received[n],
         n \in excused' <=> n \in excused,
         \A p \in Process : \/ task'[p] = task[p]
                            \/ task[p].message # n /\ task'[p].message # n
  PROVE  OneAttempt(n)' /\ SentTwiceOnlyExcused(n)' /\ StatusIsTrue(n)'
<1>1. \A p \in Process : /\ task'[p].message = n <=> task[p].message = n
                         /\ task[p].message = n => task'[p] = task[p]
  OBVIOUS
<1>2. OneAttempt(n) /\ SentTwiceOnlyExcused(n) /\ StatusIsTrue(n)
  BY DEF OutboxInv
<1> QED
  BY <1>1, <1>2 DEF OneAttempt, SentTwiceOnlyExcused, StatusIsTrue

LEMMA EnqueueMessageKeeps ==
  ASSUME OutboxInv, NEW m \in Message, EnqueueMessage(m)
  PROVE  OutboxInv'
<1>1. PICK own \in {0, 1} : queued' = [queued EXCEPT ![m] = own]
  BY DEF EnqueueMessage
<1>2. /\ outbox \in [Message -> OutboxRow] /\ task \in [Process -> Task]
      /\ queued \in [Message -> 0..MaxQueued]
      /\ outbox[m].status = "absent" /\ UNCHANGED <<task, died, received, excused>>
      /\ outbox' = [outbox EXCEPT ![m] = [@ EXCEPT !.status = "pending", !.due = TRUE]]
  BY DEF OutboxInv, OutboxTypeOK, EnqueueMessage
<1>3. /\ outbox'[m].status = "pending" /\ outbox'[m].retries = 0
      /\ \A n \in Message \ {m} : outbox'[n] = outbox[n]
  BY <1>2 DEF OutboxInv, StatusIsTrue, OutboxRow
<1>4. \A p \in Process : task[p].message # m
  BY <1>2, OutboxAssumption DEF OutboxInv, TaskSound
<1>5. OutboxTypeOK'
  <2>1. outbox' \in [Message -> OutboxRow]
    BY <1>2 DEF OutboxRow
  <2>2. queued' \in [Message -> 0..MaxQueued]
    BY <1>1, <1>2, OutboxAssumption
  <2> QED
    BY <2>1, <2>2, <1>2 DEF OutboxInv, OutboxTypeOK
<1>6. \A p \in Process : TaskSound(p)'
  BY <1>2, <1>3 DEF OutboxInv, TaskSound, OutboxTypeOK, Task
<1>7. OneAttempt(m)' /\ SentTwiceOnlyExcused(m)' /\ StatusIsTrue(m)'
  <2>1. m \notin excused => received[m] = 0
    BY <1>2, <1>4 DEF OutboxInv, OneAttempt, OutboxTypeOK
  <2> QED
    BY <2>1, <1>2, <1>3, <1>4, OutboxAssumption
       DEF OutboxInv, OneAttempt, SentTwiceOnlyExcused, StatusIsTrue
<1>8. \A n \in Message \ {m} :
        OneAttempt(n)' /\ SentTwiceOnlyExcused(n)' /\ StatusIsTrue(n)'
  BY <1>2, <1>3, OtherMessages
<1>9. \A n \in Message :
        OneAttempt(n)' /\ SentTwiceOnlyExcused(n)' /\ StatusIsTrue(n)'
  BY <1>7, <1>8
<1> QED
  BY <1>5, <1>6, <1>9 DEF OutboxInv

(* Beat and the clock change neither the status nor what is known of it.   *)
LEMMA DispatchKeeps ==
  ASSUME OutboxInv, NEW m \in Message, Dispatch(m)
  PROVE  OutboxInv'
<1>1. queued' \in [Message -> 0..MaxQueued]
  BY OutboxAssumption DEF OutboxInv, OutboxTypeOK, Dispatch
<1>2. UNCHANGED <<outbox, task, died, received, excused>>
  BY DEF Dispatch
<1> QED
  BY <1>1, <1>2
     DEF OutboxInv, OutboxTypeOK, TaskSound, OneAttempt, SentTwiceOnlyExcused,
         StatusIsTrue

LEMMA FallDueKeeps ==
  ASSUME OutboxInv, NEW m \in Message, FallDue(m)
  PROVE  OutboxInv'
<1>1. /\ outbox \in [Message -> OutboxRow]
      /\ outbox' = [outbox EXCEPT ![m].due = TRUE]
      /\ UNCHANGED <<queued, task, died, received, excused>>
  BY DEF OutboxInv, OutboxTypeOK, FallDue
<1>2. /\ outbox' \in [Message -> OutboxRow]
      /\ \A n \in Message : /\ outbox'[n].status = outbox[n].status
                            /\ outbox'[n].retries = outbox[n].retries
  BY <1>1 DEF OutboxRow
<1>3. OutboxTypeOK'
  BY <1>1, <1>2 DEF OutboxInv, OutboxTypeOK
<1>4. \A p \in Process : TaskSound(p)'
  BY <1>1, <1>2, OutboxAssumption DEF OutboxInv, OutboxTypeOK, TaskSound, Task
<1>5. \A n \in Message :
        OneAttempt(n)' /\ SentTwiceOnlyExcused(n)' /\ StatusIsTrue(n)'
  BY <1>1, <1>2
     DEF OutboxInv, OneAttempt, SentTwiceOnlyExcused, StatusIsTrue
<1> QED
  BY <1>3, <1>4, <1>5 DEF OutboxInv

LEMMA TakeKeeps ==
  ASSUME OutboxInv, NEW p \in Process, NEW m \in Message, Take(p, m)
  PROVE  OutboxInv'
<1>1. /\ OutboxTypeOK /\ task[p] = NoTask /\ UNCHANGED <<outbox, died, received>>
      /\ queued[m] > 0 /\ queued' = [queued EXCEPT ![m] = @ - 1]
  BY DEF OutboxInv, Take
<1>2. queued' \in [Message -> 0..MaxQueued]
  BY <1>1, OutboxAssumption DEF OutboxTypeOK
<1>3. CASE ~StillWanted(m)
  <2>1. UNCHANGED <<task, excused>>
    BY <1>3 DEF Take
  <2> QED
    BY <2>1, <1>1, <1>2
       DEF OutboxInv, OutboxTypeOK, TaskSound, OneAttempt,
           SentTwiceOnlyExcused, StatusIsTrue
<1>4. CASE StillWanted(m)
  <2>1. /\ task' = [task EXCEPT ![p] = [message |-> m, at |-> "send"]]
        /\ excused' = IF \E q \in Process : task[q].message = m
                        THEN excused \cup {m} ELSE excused
        /\ outbox[m].status = "pending"
    BY <1>4 DEF Take, StillWanted
  <2>2. /\ task'[p].message = m /\ task'[p].at = "send"
        /\ \A q \in Process \ {p} : task'[q] = task[q]
    BY <2>1, <1>1 DEF OutboxTypeOK
  <2>3. OutboxTypeOK'
    <3>1. task' \in [Process -> Task]
      BY <2>1, <1>1 DEF OutboxTypeOK, Task
    <3>2. excused' \subseteq Message
      BY <2>1, <1>1 DEF OutboxTypeOK
    <3> QED
      BY <3>1, <3>2, <1>1, <1>2 DEF OutboxTypeOK
  <2>4. \A q \in Process : TaskSound(q)'
    BY <2>1, <2>2, <1>1, OutboxAssumption DEF OutboxInv, TaskSound
  <2>5. OneAttempt(m)' /\ SentTwiceOnlyExcused(m)' /\ StatusIsTrue(m)'
    <3>1. SentTwiceOnlyExcused(m)' /\ StatusIsTrue(m)'
      BY <2>1, <1>1 DEF OutboxInv, SentTwiceOnlyExcused, StatusIsTrue
    <3>2. ASSUME m \notin excused' PROVE OneAttempt(m)'
      <4>1. m \notin excused /\ \A q \in Process : task[q].message # m
        BY <2>1, <3>2
      <4>2. received[m] = 0
        BY <4>1, <2>1, <1>1 DEF OutboxInv, OneAttempt, OutboxTypeOK
      <4> QED
        BY <4>1, <4>2, <2>1, <2>2, <1>1 DEF OneAttempt
    <3> QED
      BY <3>1, <3>2 DEF OneAttempt
  <2>6. \A n \in Message \ {m} :
          OneAttempt(n)' /\ SentTwiceOnlyExcused(n)' /\ StatusIsTrue(n)'
    <3>1. task[p].message = NoMessage
      BY <1>1 DEF NoTask
    <3> QED
      BY <3>1, <2>1, <2>2, <1>1, OutboxAssumption, OtherMessages
  <2>7. \A n \in Message :
          OneAttempt(n)' /\ SentTwiceOnlyExcused(n)' /\ StatusIsTrue(n)'
    BY <2>5, <2>6
  <2> QED
    BY <2>3, <2>4, <2>7 DEF OutboxInv
<1> QED
  BY <1>3, <1>4

LEMMA SendKeeps ==
  ASSUME OutboxInv, NEW p \in Process, Send(p)
  PROVE  OutboxInv'
<1>1. PICK m \in Message : m = task[p].message
  BY DEF OutboxInv, OutboxTypeOK, TaskSound, Task, Send
<1>2. PICK arrives \in BOOLEAN, answered \in BOOLEAN :
       /\ answered => arrives
       /\ task' = [task EXCEPT ![p].at = IF answered THEN "sent" ELSE "failed"]
       /\ received' = [received EXCEPT ![m] = IF arrives /\ @ < 2 THEN @ + 1 ELSE @]
       /\ excused' = IF arrives /\ ~answered THEN excused \cup {m} ELSE excused
  BY <1>1 DEF Send
<1>3. /\ OutboxTypeOK /\ task[p].at = "send" /\ UNCHANGED <<outbox, queued, died>>
      /\ received[m] \in 0..2
  BY <1>1 DEF Send, OutboxInv, OutboxTypeOK
<1>4. /\ task'[p].message = m /\ task'[p].at = IF answered THEN "sent" ELSE "failed"
      /\ \A q \in Process \ {p} : task'[q] = task[q]
      /\ \A q \in Process : task'[q].message = task[q].message
  BY <1>1, <1>2, <1>3 DEF OutboxTypeOK, Task
<1>5. /\ received'[m] = IF arrives /\ received[m] < 2 THEN received[m] + 1
                        ELSE received[m]
      /\ \A n \in Message \ {m} : received'[n] = received[n]
      /\ \A n \in Message : received[n] > 0 => received'[n] > 0
  BY <1>2, <1>3 DEF OutboxTypeOK
<1>6. OutboxTypeOK'
  <2>1. task' \in [Process -> Task]
    BY <1>2, <1>3 DEF OutboxTypeOK, Task
  <2>2. received' \in [Message -> 0..2] /\ excused' \subseteq Message
    BY <1>2, <1>3 DEF OutboxTypeOK
  <2> QED
    BY <2>1, <2>2, <1>3 DEF OutboxTypeOK
<1>7. ASSUME NEW q \in Process PROVE TaskSound(q)'
  <2>1. CASE q = p
    <3>1. outbox[m].status # "absent"
      BY <1>1, <1>3 DEF OutboxInv, TaskSound
    <3>2. answered => received'[m] > 0
      BY <1>2, <1>3, <1>5
    <3> QED
      BY <2>1, <3>1, <3>2, <1>3, <1>4, OutboxAssumption DEF TaskSound
  <2>2. CASE q # p
    <3>1. task[q].at # "idle" => task[q].message \in Message
      BY <1>3 DEF OutboxInv, OutboxTypeOK, TaskSound, Task
    <3> QED
      BY <2>2, <3>1, <1>3, <1>4, <1>5 DEF OutboxInv, TaskSound
  <2> QED
    BY <2>1, <2>2
<1>8. OneAttempt(m)' /\ SentTwiceOnlyExcused(m)' /\ StatusIsTrue(m)'
  <2>1. StatusIsTrue(m)'
    BY <1>3, <1>5 DEF OutboxInv, StatusIsTrue
  <2>2. ASSUME m \notin excused'
        PROVE  /\ m \notin excused /\ received[m] = 0
               /\ arrives => answered
               /\ outbox[m].status = "pending"
               /\ \A q \in Process : task[q].message = m => q = p
    BY <2>2, <1>1, <1>2, <1>3 DEF OutboxInv, OneAttempt
  <2>3. SentTwiceOnlyExcused(m)'
    BY <2>2, <1>5 DEF SentTwiceOnlyExcused
  <2>4. OneAttempt(m)'
    BY <2>2, <1>3, <1>4, <1>5 DEF OneAttempt
  <2> QED
    BY <2>1, <2>3, <2>4
<1>9. \A n \in Message \ {m} :
        OneAttempt(n)' /\ SentTwiceOnlyExcused(n)' /\ StatusIsTrue(n)'
  BY <1>1, <1>2, <1>3, <1>4, <1>5, OtherMessages
<1>10. \A n \in Message :
         OneAttempt(n)' /\ SentTwiceOnlyExcused(n)' /\ StatusIsTrue(n)'
  BY <1>8, <1>9
<1> QED
  BY <1>6, <1>7, <1>10 DEF OutboxInv

LEMMA MarkSentKeeps ==
  ASSUME OutboxInv, NEW p \in Process, MarkSent(p)
  PROVE  OutboxInv'
<1>1. PICK m \in Message : m = task[p].message
  BY DEF OutboxInv, OutboxTypeOK, TaskSound, Task, MarkSent
<1>2. /\ OutboxTypeOK /\ task[p].at = "sent"
      /\ outbox' = IF outbox[m].status = "pending"
                     THEN [outbox EXCEPT ![m].status = "sent"] ELSE outbox
      /\ task' = [task EXCEPT ![p] = NoTask]
      /\ UNCHANGED <<queued, died, received, excused>>
  BY <1>1 DEF MarkSent, OutboxInv
<1>3. /\ outbox'[m].status = IF outbox[m].status = "pending" THEN "sent"
                             ELSE outbox[m].status
      /\ outbox'[m].retries = outbox[m].retries
      /\ \A n \in Message \ {m} : outbox'[n] = outbox[n]
  BY <1>2 DEF OutboxTypeOK, OutboxRow
<1>4. task'[p] = NoTask /\ \A q \in Process \ {p} : task'[q] = task[q]
  BY <1>2 DEF OutboxTypeOK
<1>5. received[m] > 0
  BY <1>1, <1>2 DEF OutboxInv, TaskSound
<1>6. OutboxTypeOK'
  <2>1. outbox' \in [Message -> OutboxRow]
    BY <1>2 DEF OutboxTypeOK, OutboxRow
  <2>2. task' \in [Process -> Task]
    BY <1>2 DEF OutboxTypeOK, Task, NoTask
  <2> QED
    BY <2>1, <2>2, <1>2 DEF OutboxTypeOK
<1>7. ASSUME NEW q \in Process PROVE TaskSound(q)'
  <2>1. CASE q = p
    BY <2>1, <1>4 DEF TaskSound, NoTask
  <2>2. CASE q # p
    <3>1. task[q].at # "idle" =>
            task[q].message \in Message /\ outbox[task[q].message].status # "absent"
      BY <1>2 DEF OutboxInv, OutboxTypeOK, TaskSound, Task
    <3>2. task[q].at # "idle" => outbox'[task[q].message].status # "absent"
      BY <3>1, <1>3
    <3> QED
      BY <2>2, <3>2, <1>2, <1>4 DEF OutboxInv, TaskSound
  <2> QED
    BY <2>1, <2>2
<1>8. OneAttempt(m)' /\ SentTwiceOnlyExcused(m)' /\ StatusIsTrue(m)'
  <2>1. StatusIsTrue(m)' /\ SentTwiceOnlyExcused(m)'
    BY <1>2, <1>3, <1>5 DEF OutboxInv, StatusIsTrue, SentTwiceOnlyExcused
  <2>2. ASSUME m \notin excused
        PROVE  /\ outbox'[m].status = "sent"
               /\ \A q \in Process : task'[q].message # m
    BY <2>2, <1>1, <1>3, <1>4, OutboxAssumption DEF OutboxInv, OneAttempt, NoTask
  <2> QED
    BY <2>1, <2>2, <1>2 DEF OneAttempt
<1>9. \A n \in Message \ {m} :
        OneAttempt(n)' /\ SentTwiceOnlyExcused(n)' /\ StatusIsTrue(n)'
  <2>1. NoTask.message \notin Message
    BY OutboxAssumption DEF NoTask
  <2> QED
    BY <2>1, <1>1, <1>2, <1>3, <1>4, OtherMessages
<1>10. \A n \in Message :
         OneAttempt(n)' /\ SentTwiceOnlyExcused(n)' /\ StatusIsTrue(n)'
  BY <1>8, <1>9
<1> QED
  BY <1>6, <1>7, <1>10 DEF OutboxInv

LEMMA MarkRetryKeeps ==
  ASSUME OutboxInv, NEW p \in Process, MarkRetry(p)
  PROVE  OutboxInv'
<1>1. PICK m \in Message : m = task[p].message
  BY DEF OutboxInv, OutboxTypeOK, TaskSound, Task, MarkRetry
<1>2. /\ OutboxTypeOK /\ task[p].at = "failed"
      /\ outbox' = [outbox EXCEPT ![m] =
           [status |-> AfterFailure(m), retries |-> @.retries + 1, due |-> FALSE]]
      /\ task' = [task EXCEPT ![p] = NoTask]
      /\ UNCHANGED <<queued, died, received, excused>>
  BY <1>1 DEF MarkRetry, OutboxInv
<1>3. /\ outbox[m].retries \in Nat /\ MaxRetries \in Nat
      /\ AfterFailure(m) \in {"pending", "dead_letter"}
  BY <1>2, OutboxAssumption DEF OutboxTypeOK, OutboxRow, AfterFailure
<1>4. /\ outbox'[m].status = AfterFailure(m)
      /\ outbox'[m].retries = outbox[m].retries + 1
      /\ \A n \in Message \ {m} : outbox'[n] = outbox[n]
  BY <1>2 DEF OutboxTypeOK
<1>5. task'[p] = NoTask /\ \A q \in Process \ {p} : task'[q] = task[q]
  BY <1>2 DEF OutboxTypeOK
<1>6. OutboxTypeOK'
  <2>1. outbox' \in [Message -> OutboxRow]
    BY <1>2, <1>3 DEF OutboxTypeOK, OutboxRow
  <2>2. task' \in [Process -> Task]
    BY <1>2 DEF OutboxTypeOK, Task, NoTask
  <2> QED
    BY <2>1, <2>2, <1>2 DEF OutboxTypeOK
<1>7. ASSUME NEW q \in Process PROVE TaskSound(q)'
  <2>1. CASE q = p
    BY <2>1, <1>5 DEF TaskSound, NoTask
  <2>2. CASE q # p
    <3>1. task[q].at # "idle" =>
            task[q].message \in Message /\ outbox[task[q].message].status # "absent"
      BY <1>2 DEF OutboxInv, OutboxTypeOK, TaskSound, Task
    <3>2. task[q].at # "idle" => outbox'[task[q].message].status # "absent"
      BY <3>1, <1>3, <1>4
    <3> QED
      BY <2>2, <3>2, <1>2, <1>5 DEF OutboxInv, TaskSound
  <2> QED
    BY <2>1, <2>2
<1>8. OneAttempt(m)' /\ SentTwiceOnlyExcused(m)' /\ StatusIsTrue(m)'
  <2>1. SentTwiceOnlyExcused(m)'
    BY <1>2 DEF OutboxInv, SentTwiceOnlyExcused
  <2>2. StatusIsTrue(m)'
    BY <1>3, <1>4 DEF StatusIsTrue, AfterFailure
  <2>3. ASSUME m \notin excused
        PROVE  received[m] = 0 /\ \A q \in Process : task'[q].message # m
    BY <2>3, <1>1, <1>2, <1>5, OutboxAssumption DEF OutboxInv, OneAttempt, NoTask
  <2> QED
    BY <2>1, <2>2, <2>3, <1>2 DEF OneAttempt
<1>9. \A n \in Message \ {m} :
        OneAttempt(n)' /\ SentTwiceOnlyExcused(n)' /\ StatusIsTrue(n)'
  <2>1. NoTask.message \notin Message
    BY OutboxAssumption DEF NoTask
  <2> QED
    BY <2>1, <1>1, <1>2, <1>4, <1>5, OtherMessages
<1>10. \A n \in Message :
         OneAttempt(n)' /\ SentTwiceOnlyExcused(n)' /\ StatusIsTrue(n)'
  BY <1>8, <1>9
<1> QED
  BY <1>6, <1>7, <1>10 DEF OutboxInv

LEMMA TaskDiesKeeps ==
  ASSUME OutboxInv, NEW p \in Process, TaskDies(p)
  PROVE  OutboxInv'
<1>1. PICK m \in Message : m = task[p].message
  <2>1. task[p].at # "idle"
    BY DEF OutboxInv, OutboxTypeOK, TaskSound, Task, NoTask, TaskDies
  <2> QED
    BY <2>1 DEF OutboxInv, OutboxTypeOK, TaskSound, Task
<1>2. /\ OutboxTypeOK /\ UNCHANGED <<outbox, queued, received>>
      /\ died < MaxDied /\ died' = died + 1
      /\ excused' = IF task[p].at = "sent" THEN excused \cup {m} ELSE excused
      /\ task' = [task EXCEPT ![p] = NoTask]
  BY <1>1 DEF TaskDies, OutboxInv
<1>3. task'[p] = NoTask /\ \A q \in Process \ {p} : task'[q] = task[q]
  BY <1>2 DEF OutboxTypeOK
<1>4. OutboxTypeOK'
  <2>1. task' \in [Process -> Task]
    BY <1>2 DEF OutboxTypeOK, Task, NoTask
  <2>2. died' \in 0..MaxDied /\ excused' \subseteq Message
    BY <1>2, OutboxAssumption DEF OutboxTypeOK
  <2> QED
    BY <2>1, <2>2, <1>2 DEF OutboxTypeOK
<1>5. \A q \in Process : TaskSound(q)'
  BY <1>2, <1>3 DEF OutboxInv, TaskSound, NoTask
<1>6. OneAttempt(m)' /\ SentTwiceOnlyExcused(m)' /\ StatusIsTrue(m)'
  <2>1. StatusIsTrue(m)' /\ SentTwiceOnlyExcused(m)'
    BY <1>2 DEF OutboxInv, StatusIsTrue, SentTwiceOnlyExcused
  <2>2. ASSUME m \notin excused'
        PROVE  /\ m \notin excused /\ received[m] = 0
               /\ \A q \in Process : task'[q].message # m
    BY <2>2, <1>1, <1>2, <1>3, OutboxAssumption DEF OutboxInv, OneAttempt, NoTask
  <2> QED
    BY <2>1, <2>2, <1>2 DEF OneAttempt
<1>7. \A n \in Message \ {m} :
        OneAttempt(n)' /\ SentTwiceOnlyExcused(n)' /\ StatusIsTrue(n)'
  <2>1. NoTask.message \notin Message
    BY OutboxAssumption DEF NoTask
  <2> QED
    BY <2>1, <1>1, <1>2, <1>3, OtherMessages
<1>8. \A n \in Message :
        OneAttempt(n)' /\ SentTwiceOnlyExcused(n)' /\ StatusIsTrue(n)'
  BY <1>6, <1>7
<1> QED
  BY <1>4, <1>5, <1>8 DEF OutboxInv

LEMMA OutboxInductive ==
  OutboxInv /\ [OutboxNext]_outboxVars => OutboxInv'
<1>1. ASSUME OutboxInv, UNCHANGED outboxVars PROVE OutboxInv'
  BY <1>1 DEF outboxVars, OutboxInv, OutboxTypeOK, TaskSound, OneAttempt,
              SentTwiceOnlyExcused, StatusIsTrue
<1> QED
  BY <1>1, EnqueueMessageKeeps, DispatchKeeps, TakeKeeps, SendKeeps,
     MarkSentKeeps, MarkRetryKeeps, TaskDiesKeeps, FallDueKeeps
     DEF OutboxNext, OutboxGoesOn

-----------------------------------------------------------------------------
(* The pull of the deals *)

LEMMA InitPullsFenced == LeadsInit => PullsFenced
<1> SUFFICES ASSUME LeadsInit PROVE PullsFenced
  OBVIOUS
<1>1. /\ sale = NoLeadSale /\ pull = [p \in Puller |-> NoPull]
      /\ posted = 0 /\ paid = 0 /\ payment = {} /\ lock = FALSE
      /\ turns = 0 /\ unposted = 0 /\ expired = FALSE
      /\ deal \in [price: Price, stage: {"open"}]
  BY DEF LeadsInit
<1>2. NoLeadSale \in LeadSale /\ NoPull \in Pull
  BY DEF NoLeadSale, LeadSale, NoPull, Pull, LeadPC, Stage
<1>3. LeadTypeOK
  <2>1. deal \in [price: Price, stage: Stage]
    BY <1>1 DEF Stage
  <2>2. 0 \in 0..MaxTurns
    BY LeadAssumption
  <2>3. /\ sale \in LeadSale /\ pull \in [Puller -> Pull]
        /\ payment \subseteq Paying
    BY <1>1, <1>2
  <2>4. posted \in Int /\ paid \in Int /\ unposted \in Int /\ turns \in 0..MaxTurns
    BY <1>1, <2>2
  <2>5. lock \in BOOLEAN /\ expired \in BOOLEAN
    BY <1>1
  <2> QED
    BY <2>1, <2>3, <2>4, <2>5 DEF LeadTypeOK
<1>4. OneAtATime /\ \A p \in Puller : Fenced(p)
  BY <1>1 DEF OneAtATime, Fenced, NoPull, NoLeadSale
<1> QED
  BY <1>1, <1>3, <1>4 DEF PullsFenced, NoLeadSale

(* A step of one pull that was at work stays with that pull.               *)
LEMMA SameHolder ==
  ASSUME PullsFenced, NEW p \in Puller, pull[p].pc # "off",
         UNCHANGED <<lock, expired>>,
         \A q \in Puller \ {p} : pull'[q] = pull[q]
  PROVE  OneAtATime'
BY DEF PullsFenced, OneAtATime

(* What the type invariant says of the parts of the state.                 *)
LEMMA LeadTypes ==
  ASSUME PullsFenced
  PROVE  /\ deal.price \in Price /\ deal.stage \in Stage
         /\ sale \in LeadSale /\ sale.version \in Nat
         /\ sale.price \in Price \cup {0} /\ sale.price \in Nat
         /\ posted \in Int /\ paid \in Int /\ Owes \in Int
         /\ unposted \in Int /\ lock \in BOOLEAN /\ expired \in BOOLEAN
         /\ turns \in 0..MaxTurns /\ payment \subseteq Paying
         /\ pull \in [Puller -> Pull]
         /\ \A p \in Puller : /\ pull[p] \in Pull
                              /\ pull[p].price \in Price \cup {0}
                              /\ pull[p].price \in Nat
                              /\ pull[p].stage \in Stage
                              /\ pull[p].owes \in Int
                              /\ pull[p].seen \in Nat
<1>1. LeadTypeOK
  BY DEF PullsFenced
<1>2. \A p \in Puller : pull[p] \in Pull
  BY <1>1 DEF LeadTypeOK
<1>3. Price \cup {0} \subseteq Nat
  BY LeadAssumption
<1>4. sale.version \in Nat /\ sale.price \in Price \cup {0}
  BY <1>1 DEF LeadTypeOK, LeadSale
<1>5. \A p \in Puller : /\ pull[p].price \in Price \cup {0}
                        /\ pull[p].stage \in Stage
                        /\ pull[p].owes \in Int /\ pull[p].seen \in Nat
  BY <1>2 DEF Pull
<1>6. Owes \in Int
  BY <1>1 DEF LeadTypeOK, Owes
<1> QED
  BY <1>1, <1>2, <1>3, <1>4, <1>5, <1>6 DEF LeadTypeOK

(* What a step has to do to the pulls and the sale for the pulls to stay   *)
(* fenced.                                                                 *)
PullsKept(p) ==
  /\ pull' \in [Puller -> Pull] /\ sale' \in LeadSale
  /\ \A q \in Puller : Fenced(q)'
  /\ sale'.version = 0 => sale'.status = "active"
  /\ \A q \in Puller \ {p} : pull'[q] = pull[q]

SaleMoves ==
  /\ sale' \in LeadSale
  /\ sale' = sale \/ sale'.version > sale.version

(* A pull goes on with what it now knows of the sale.                      *)
LEMMA PullTakes ==
  ASSUME PullsFenced, NEW p \in Puller, NEW row \in Pull,
         pull' = [pull EXCEPT ![p] = row], SaleMoves,
         row.seen <= sale.version,
         row.pc = "price" /\ row.seen = sale.version =>
           sale' = sale /\ sale.status \notin Closed,
         row.pc = "close" /\ row.seen = sale.version =>
           sale' = sale /\ sale.status = "active"
  PROVE  PullsKept(p)
<1>1. /\ pull \in [Puller -> Pull] /\ sale.version \in Nat
      /\ \A q \in Puller : pull[q].seen \in Nat
      /\ row.seen \in Nat
  BY LeadTypes DEF Pull
<1>2. pull'[p] = row /\ \A q \in Puller \ {p} : pull'[q] = pull[q]
  BY <1>1
<1>3. pull' \in [Puller -> Pull]
  BY <1>1
<1>9. sale'.version \in Nat /\ (sale' = sale \/ sale'.version > sale.version)
  BY <1>1 DEF SaleMoves, LeadSale
<1>4. ASSUME NEW q \in Puller PROVE Fenced(q)'
  <2>1. CASE q = p
    <3>1. /\ row.seen <= sale'.version
          /\ row.pc = "price" /\ row.seen = sale'.version => sale'.status \notin Closed
          /\ row.pc = "close" /\ row.seen = sale'.version => sale'.status = "active"
      BY <1>9, <1>1
    <3> QED
      BY <2>1, <1>2, <3>1 DEF Fenced, SameVersion
  <2>2. CASE q # p
    <3>1. Fenced(q) /\ pull'[q] = pull[q] /\ pull[q].seen \in Nat
      BY <2>2, <1>1, <1>2 DEF PullsFenced
    <3>2. CASE sale' = sale
      BY <3>1, <3>2 DEF Fenced, SameVersion
    <3>3. CASE sale'.version > sale.version
      BY <3>1, <3>3, <1>9, <1>1 DEF Fenced, SameVersion
    <3> QED
      BY <3>2, <3>3, <1>9
  <2> QED
    BY <2>1, <2>2
<1>5. sale'.version = 0 => sale'.status = "active"
  BY <1>9, <1>1 DEF PullsFenced
<1> QED
  BY <1>2, <1>3, <1>4, <1>5 DEF SaleMoves, PullsKept

LEMMA GoesTakes ==
  ASSUME PullsFenced, NEW p \in Puller, NEW pc \in LeadPC,
         NEW price \in Price \cup {0}, NEW seen \in Nat, NEW owes \in Int,
         Goes(p, pc, price, seen, owes)
  PROVE  \E row \in Pull : /\ pull' = [pull EXCEPT ![p] = row]
                           /\ row.pc = pc /\ row.seen = seen
<1> DEFINE row == [pc |-> pc, price |-> price, stage |-> pull[p].stage,
                   seen |-> seen, owes |-> owes]
<1>1. row \in Pull
  BY DEF PullsFenced, LeadTypeOK, Pull
<1>2. pull' = [pull EXCEPT ![p] = row]
  BY DEF Goes
<1> QED
  BY <1>1, <1>2

(* Where the next step of a pull writes no sale it has read before, all is *)
(* kept.                                                                   *)
LEMMA PullGoesOn ==
  ASSUME PullsFenced, NEW p \in Puller, NEW pc \in LeadPC \ {"price", "close"},
         NEW owes \in Int, Goes(p, pc, 0, 0, owes), SaleMoves
  PROVE  PullsKept(p)
<1>1. PICK row \in Pull : /\ pull' = [pull EXCEPT ![p] = row]
                          /\ row.pc = pc /\ row.seen = 0
  <2>1. pc \in LeadPC /\ 0 \in Price \cup {0} /\ 0 \in Nat
    OBVIOUS
  <2> QED
    BY <2>1, GoesTakes
<1>2. 0 <= sale.version
  BY LeadTypes
<1> QED
  BY <1>1, <1>2, PullTakes

LEMMA PullEnds ==
  ASSUME PullsFenced, NEW p \in Puller, NEW pc \in {"off", "release"},
         pull' = [pull EXCEPT ![p] = [NoPull EXCEPT !.pc = pc]], SaleMoves
  PROVE  PullsKept(p)
<1> DEFINE row == [NoPull EXCEPT !.pc = pc]
<1>1. row \in Pull /\ row.pc = pc /\ row.seen = 0
  BY DEF NoPull, Pull, LeadPC, Stage
<1>2. 0 <= sale.version
  BY LeadTypes
<1> QED
  BY <1>1, <1>2, PullTakes

LEMMA SaleRests ==
  ASSUME PullsFenced, UNCHANGED sale
  PROVE  SaleMoves
BY LeadTypes DEF SaleMoves

(* A write of the sale's row raises its version.                           *)
LEMMA SaleWritten ==
  ASSUME PullsFenced, NEW price \in Price \cup {0},
         NEW to \in {"active"} \cup Closed,
         sale' = [price |-> price, status |-> to, version |-> sale.version + 1]
  PROVE  SaleMoves
<1>1. sale.version + 1 \in Nat /\ sale.version + 1 > sale.version
  BY LeadTypes
<1> QED
  BY <1>1 DEF LeadSale, SaleMoves

(* The parts of the row.                                                   *)
LEMMA SaleRow ==
  ASSUME PullsFenced
  PROVE  /\ sale = [price |-> sale.price, status |-> sale.status,
                    version |-> sale.version]
         /\ sale.price \in Price \cup {0}
         /\ sale.status \in {"active"} \cup Closed /\ sale.version \in Nat
BY LeadTypes DEF LeadSale

(* A step of a pull that is at work, with the types of what it may write.  *)
LEMMA PullStep ==
  ASSUME PullsFenced, NEW p \in Puller, pull[p].pc # "off", PullsKept(p),
         UNCHANGED <<deal, lock, turns, expired>>,
         posted' \in Int, paid' \in Int, unposted' \in Int,
         payment' \subseteq Paying
  PROVE  PullsFenced'
<1>1. OneAtATime'
  BY SameHolder DEF PullsKept
<1>2. LeadTypeOK'
  BY DEF PullsFenced, PullsKept, LeadTypeOK
<1> QED
  BY <1>1, <1>2 DEF PullsFenced, PullsKept

(* The lock is taken when nobody has it, or when it expired under someone. *)
LEMMA AcquireKeeps ==
  ASSUME PullsFenced, NEW p \in Puller, Acquire(p)
  PROVE  PullsFenced'
<1>1. /\ pull[p].pc = "off" /\ ~lock /\ lock' = TRUE /\ Goes(p, "list", 0, 0, 0)
      /\ UNCHANGED <<deal, sale, posted, paid, payment, turns, unposted, expired>>
  BY DEF Acquire
<1>2. SaleMoves
  BY <1>1, SaleRests
<1>3. PullsKept(p)
  <2>1. "list" \in LeadPC \ {"price", "close"} /\ 0 \in Int
    BY DEF LeadPC
  <2> QED
    BY <2>1, <1>1, <1>2, PullGoesOn
<1>4. OneAtATime'
  BY <1>1, <1>3 DEF PullsKept, PullsFenced, OneAtATime
<1>5. LeadTypeOK'
  BY <1>1, <1>3 DEF PullsKept, PullsFenced, LeadTypeOK
<1> QED
  BY <1>3, <1>4, <1>5 DEF PullsKept, PullsFenced

LEMMA ListKeeps ==
  ASSUME PullsFenced, NEW p \in Puller, List(p) \/ ListsNothing(p)
  PROVE  PullsFenced'
<1>1. /\ pull[p].pc = "list"
      /\ UNCHANGED <<deal, sale, posted, paid, payment, lock, turns, unposted, expired>>
  BY DEF List, ListsNothing
<1>2. SaleMoves
  BY <1>1, SaleRests
<1>3. PullsKept(p)
  <2>1. CASE List(p)
    <3> DEFINE row == [pull[p] EXCEPT !.pc = "look", !.price = deal.price,
                                      !.stage = deal.stage]
    <3>1. pull' = [pull EXCEPT ![p] = row]
      BY <2>1 DEF List
    <3>2. row \in Pull /\ row.pc = "look" /\ row.seen = pull[p].seen
      BY LeadTypes DEF Pull, LeadPC
    <3>3. row.seen <= sale.version
      BY <3>2 DEF PullsFenced, Fenced
    <3> HIDE DEF row
    <3> QED
      BY <3>1, <3>2, <3>3, <1>2, PullTakes
  <2>2. CASE ListsNothing(p)
    BY <2>2, <1>2, PullEnds DEF ListsNothing, Ends
  <2> QED
    BY <2>1, <2>2
<1> QED
  BY <1>1, <1>3, LeadTypes, PullStep

LEMMA LookKeeps ==
  ASSUME PullsFenced, NEW p \in Puller, Look(p)
  PROVE  PullsFenced'
<1>1. /\ pull[p].pc = "look"
      /\ UNCHANGED <<deal, sale, posted, paid, payment, lock, turns, unposted, expired>>
  BY DEF Look
<1>2. PICK pc \in {"create", "price", "stage"} :
        /\ Goes(p, pc, pull[p].price, sale.version, pull[p].price - sale.price)
        /\ pc = "price" => FollowsPrice(sale)
  BY DEF Look
<1>3. PICK row \in Pull : /\ pull' = [pull EXCEPT ![p] = row]
                          /\ row.pc = pc /\ row.seen = sale.version
  <2>1. pc \in LeadPC /\ pull[p].price - sale.price \in Int
    BY LeadTypes DEF LeadPC
  <2> QED
    <3>1. sale.version \in Nat /\ pull[p].price \in Price \cup {0}
      BY LeadTypes
    <3> QED
      BY <2>1, <3>1, <1>2, GoesTakes
<1>4. SaleMoves
  BY <1>1, SaleRests
<1>5. row.seen <= sale.version /\ (row.pc = "price" => sale.status \notin Closed)
  BY <1>2, <1>3, LeadTypes DEF FollowsPrice
<1>6. PullsKept(p)
  BY <1>1, <1>2, <1>3, <1>4, <1>5, PullTakes
<1> QED
  BY <1>1, <1>6, LeadTypes, PullStep

(* Whatever writes the sale moves it on. *)
LEMMA CreateLeadSaleMoves ==
  ASSUME PullsFenced, NEW p \in Puller, CreateLeadSale(p)
  PROVE  SaleMoves
<1>1. CASE sale' = [price |-> pull[p].price, status |-> "active", version |-> 1]
           /\ sale.version = 0
  BY <1>1, LeadTypes DEF LeadSale, SaleMoves
<1>2. CASE UNCHANGED sale
  BY <1>2, SaleRests
<1> QED
  BY <1>1, <1>2 DEF CreateLeadSale

LEMMA CreateLeadSaleKeeps ==
  ASSUME PullsFenced, NEW p \in Puller, CreateLeadSale(p)
  PROVE  PullsFenced'
<1>1. /\ pull[p].pc = "create"
      /\ UNCHANGED <<deal, posted, paid, payment, lock, turns, unposted, expired>>
  BY DEF CreateLeadSale
<1>2. SaleMoves
  BY CreateLeadSaleMoves
<1>3. PullsKept(p)
  <2>1. CASE Ends(p)
    BY <2>1, <1>2, PullEnds DEF Ends
  <2>2. CASE Goes(p, "charge", 0, 0, pull[p].price)
    <3>1. "charge" \in LeadPC \ {"price", "close"} /\ pull[p].price \in Int
      BY LeadTypes DEF LeadPC
    <3> QED
      BY <2>2, <3>1, <1>2, PullGoesOn
  <2> QED
    BY <2>1, <2>2 DEF CreateLeadSale
<1> QED
  BY <1>1, <1>3, LeadTypes, PullStep

LEMMA RepriceMoves ==
  ASSUME PullsFenced, NEW p \in Puller, Reprice(p)
  PROVE  SaleMoves
<1>1. CASE sale' = [sale EXCEPT !.price = pull[p].price, !.version = @ + 1]
  <2>1. sale' = [price |-> pull[p].price, status |-> sale.status,
                 version |-> sale.version + 1]
    BY <1>1, SaleRow
  <2> QED
    BY <2>1, SaleRow, LeadTypes, SaleWritten
<1>2. CASE UNCHANGED sale
  BY <1>2, SaleRests
<1> QED
  BY <1>1, <1>2 DEF Reprice

LEMMA RepriceKeeps ==
  ASSUME PullsFenced, NEW p \in Puller, Reprice(p)
  PROVE  PullsFenced'
<1>1. /\ pull[p].pc = "price"
      /\ UNCHANGED <<deal, posted, paid, payment, lock, turns, unposted, expired>>
  BY DEF Reprice
<1>2. SaleMoves
  BY RepriceMoves
<1>3. PICK pc \in {"adjust", "stage"}, owes \in Int : Goes(p, pc, 0, 0, owes)
  BY LeadTypes DEF Reprice
<1>4. PullsKept(p)
  <2>1. pc \in LeadPC \ {"price", "close"}
    BY DEF LeadPC
  <2> QED
    BY <2>1, <1>2, <1>3, PullGoesOn
<1> QED
  BY <1>1, <1>4, LeadTypes, PullStep

LEMMA PostKeeps ==
  ASSUME PullsFenced, NEW p \in Puller, PostLeadCharge(p) \/ PostAdjustment(p)
  PROVE  PullsFenced'
<1>1. /\ pull[p].pc # "off" /\ posted' = posted + pull[p].owes
      /\ UNCHANGED <<deal, sale, paid, payment, lock, turns, unposted, expired>>
  BY DEF PostLeadCharge, PostAdjustment
<1>2. posted' \in Int
  BY <1>1, LeadTypes
<1>3. SaleMoves
  BY <1>1, SaleRests
<1>4. PullsKept(p)
  <2>1. CASE Ends(p)
    BY <2>1, <1>3, PullEnds DEF Ends
  <2>2. CASE Goes(p, "stage", 0, 0, 0)
    <3>1. "stage" \in LeadPC \ {"price", "close"} /\ 0 \in Int
      BY DEF LeadPC
    <3> QED
      BY <2>2, <3>1, <1>3, PullGoesOn
  <2> QED
    BY <2>1, <2>2 DEF PostLeadCharge, PostAdjustment
<1> QED
  BY <1>1, <1>2, <1>4, LeadTypes, PullStep

LEMMA ByStageKeeps ==
  ASSUME PullsFenced, NEW p \in Puller, ByStage(p) \/ ReadOwed(p)
  PROVE  PullsFenced'
<1>1. /\ pull[p].pc # "off"
      /\ UNCHANGED <<deal, sale, posted, paid, payment, lock, turns, unposted, expired>>
  BY DEF ByStage, ReadOwed
<1>2. SaleMoves
  BY <1>1, SaleRests
<1>3. \/ Goes(p, "close", 0, sale.version, 0) /\ sale.status = "active"
      \/ \E pc \in {"owed", "pay"}, owes \in Int : Goes(p, pc, 0, 0, owes)
      \/ Ends(p)
  BY LeadTypes DEF ByStage, ReadOwed
<1>4. PullsKept(p)
  <2>1. CASE Goes(p, "close", 0, sale.version, 0) /\ sale.status = "active"
    <3>1. PICK row \in Pull : /\ pull' = [pull EXCEPT ![p] = row]
                              /\ row.pc = "close" /\ row.seen = sale.version
      <4>1. "close" \in LeadPC /\ 0 \in Price \cup {0} /\ 0 \in Int
        BY DEF LeadPC
      <4> QED
        <5>1. sale.version \in Nat
          BY LeadTypes
        <5> QED
          BY <2>1, <4>1, <5>1, GoesTakes
    <3>2. row.seen <= sale.version /\ sale' = sale
      BY <3>1, <1>1, LeadTypes
    <3> QED
      BY <2>1, <3>1, <3>2, <1>2, PullTakes
  <2>2. ASSUME NEW pc \in {"owed", "pay"}, NEW owes \in Int, Goes(p, pc, 0, 0, owes)
        PROVE  PullsKept(p)
    <3>1. pc \in LeadPC \ {"price", "close"}
      BY DEF LeadPC
    <3> QED
      BY <2>2, <3>1, <1>2, PullGoesOn
  <2>3. CASE Ends(p)
    BY <2>3, <1>2, PullEnds DEF Ends
  <2> QED
    BY <1>3, <2>1, <2>2, <2>3
<1> QED
  BY <1>1, <1>4, LeadTypes, PullStep

LEMMA CloseLeadSaleMoves ==
  ASSUME PullsFenced, NEW p \in Puller, CloseLeadSale(p)
  PROVE  SaleMoves /\ sale'.price = sale.price
<1>1. PICK to \in Closed :
        sale' = IF SameVersion(p)
                  THEN [sale EXCEPT !.status = to, !.version = @ + 1] ELSE sale
  BY DEF CloseLeadSale, Closed
<1>2. CASE SameVersion(p)
  <2>1. sale' = [price |-> sale.price, status |-> to, version |-> sale.version + 1]
    BY <1>1, <1>2, SaleRow
  <2>2. SaleMoves
    BY <2>1, SaleRow, SaleWritten
  <2> QED
    BY <2>1, <2>2
<1>3. CASE ~SameVersion(p)
  BY <1>1, <1>3, SaleRests
<1> QED
  BY <1>2, <1>3

LEMMA CloseLeadSaleKeeps ==
  ASSUME PullsFenced, NEW p \in Puller, CloseLeadSale(p)
  PROVE  PullsFenced'
<1>1. /\ pull[p].pc = "close"
      /\ UNCHANGED <<deal, posted, paid, payment, lock, turns, unposted, expired>>
  BY DEF CloseLeadSale
<1>2. SaleMoves
  BY CloseLeadSaleMoves
<1>3. PullsKept(p)
  <2>1. CASE Goes(p, "owed", 0, 0, 0)
    <3>1. "owed" \in LeadPC \ {"price", "close"} /\ 0 \in Int
      BY DEF LeadPC
    <3> QED
      BY <2>1, <3>1, <1>2, PullGoesOn
  <2>2. CASE Ends(p)
    BY <2>2, <1>2, PullEnds DEF Ends
  <2> QED
    BY <2>1, <2>2 DEF CloseLeadSale
<1> QED
  BY <1>1, <1>3, LeadTypes, PullStep

(* A payment may complete an active sale and does nothing else to it.      *)
LEMMA PaysWhat ==
  ASSUME PullsFenced, NEW key \in Stage \cup {"desk"}, NEW amount \in Int,
         Pays(key, amount)
  PROVE  /\ payment' \subseteq Paying /\ paid' \in Int
         /\ SaleMoves /\ sale'.price = sale.price
         /\ sale' = sale \/ sale.status = "active"
<1>1. payment' \subseteq Paying /\ paid' \in Int
  BY LeadTypes DEF Pays, Paying
<1>2. CASE sale' = [sale EXCEPT !.status = "completed", !.version = @ + 1]
           /\ sale.status = "active"
  <2>1. sale' = [price |-> sale.price, status |-> "completed",
                 version |-> sale.version + 1]
    BY <1>2, SaleRow
  <2>2. SaleMoves
    BY <2>1, SaleRow, SaleWritten DEF Closed
  <2> QED
    BY <1>1, <1>2, <2>1, <2>2
<1>3. CASE UNCHANGED sale
  BY <1>1, <1>3, SaleRests
<1> QED
  BY <1>2, <1>3 DEF Pays

LEMMA PayOwedMoves ==
  ASSUME PullsFenced, NEW p \in Puller, PayOwed(p)
  PROVE  /\ payment' \subseteq Paying /\ paid' \in Int
         /\ SaleMoves /\ sale'.price = sale.price
<1>1. CASE Pays(pull[p].stage, pull[p].owes)
  BY <1>1, LeadTypes, PaysWhat
<1>2. CASE UNCHANGED <<sale, paid, payment>>
  BY <1>2, LeadTypes, SaleRests
<1> QED
  BY <1>1, <1>2 DEF PayOwed

LEMMA PayOwedKeeps ==
  ASSUME PullsFenced, NEW p \in Puller, PayOwed(p)
  PROVE  PullsFenced'
<1>1. /\ pull[p].pc = "pay" /\ Ends(p)
      /\ UNCHANGED <<deal, posted, lock, turns, unposted, expired>>
  BY DEF PayOwed
<1>2. payment' \subseteq Paying /\ paid' \in Int /\ SaleMoves
  BY PayOwedMoves
<1>3. PullsKept(p)
  BY <1>1, <1>2, PullEnds DEF Ends
<1> QED
  BY <1>1, <1>2, <1>3, LeadTypes, PullStep

LEMMA ReleaseKeeps ==
  ASSUME PullsFenced, NEW p \in Puller, Release(p)
  PROVE  PullsFenced'
<1>1. /\ pull[p].pc = "release" /\ lock' = FALSE
      /\ pull' = [pull EXCEPT ![p] = NoPull]
      /\ UNCHANGED <<deal, sale, posted, paid, payment, turns, unposted, expired>>
  BY DEF Release
<1>2. SaleMoves
  BY <1>1, SaleRests
<1>3. pull' = [pull EXCEPT ![p] = [NoPull EXCEPT !.pc = "off"]]
  BY <1>1 DEF NoPull
<1>4. PullsKept(p)
  BY <1>2, <1>3, PullEnds
<1>5. pull'[p].pc = "off"
  BY <1>1, LeadTypes DEF NoPull
<1>6. OneAtATime'
  BY <1>1, <1>4, <1>5 DEF PullsKept, PullsFenced, OneAtATime
<1>7. LeadTypeOK'
  BY <1>1, <1>4 DEF PullsKept, PullsFenced, LeadTypeOK
<1> QED
  BY <1>4, <1>6, <1>7 DEF PullsKept, PullsFenced

LEMMA TornPullKeeps ==
  ASSUME PullsFenced, NEW p \in Puller, TornPull(p)
  PROVE  PullsFenced'
<1>1. /\ pull[p].pc # "off" /\ turns' \in 0..MaxTurns
      /\ UNCHANGED <<deal, sale, posted, paid, payment, lock, expired>>
  BY LeadTypes, LeadAssumption DEF TornPull, Turn
<1>2. PICK pc \in {"off", "release"} :
        pull' = [pull EXCEPT ![p] = [NoPull EXCEPT !.pc = pc]]
  BY DEF TornPull
<1>3. unposted' \in Int
  BY LeadTypes DEF TornPull
<1>4. PullsKept(p)
  BY <1>1, <1>2, SaleRests, PullEnds
<1>5. OneAtATime'
  BY <1>1, <1>4, SameHolder DEF PullsKept
<1>6. LeadTypeOK'
  BY <1>1, <1>3, <1>4, LeadTypes DEF PullsKept, PullsFenced, LeadTypeOK
<1> QED
  BY <1>4, <1>5, <1>6 DEF PullsKept, PullsFenced

(* A step that leaves every pull and the version of the sale as they are,  *)
(* or raises the version, keeps the pulls fenced.                          *)
LEMMA PullsRest ==
  ASSUME PullsFenced, UNCHANGED pull, SaleMoves
  PROVE  /\ \A p \in Puller : Fenced(p)'
         /\ sale'.version = 0 => sale'.status = "active"
<1>1. /\ sale.version \in Nat /\ sale'.version \in Nat
      /\ \A p \in Puller : pull[p].seen \in Nat /\ Fenced(p)
  BY LeadTypes DEF PullsFenced, SaleMoves, LeadSale
<1>2. CASE sale' = sale
  BY <1>1, <1>2 DEF PullsFenced, Fenced, SameVersion
<1>3. CASE sale'.version > sale.version
  BY <1>1, <1>3 DEF Fenced, SameVersion
<1> QED
  BY <1>2, <1>3 DEF SaleMoves

(* A reversal may reopen a completed sale and does nothing else to it.     *)
LEMMA DeskReversesMoves ==
  ASSUME PullsFenced, DeskReverses
  PROVE  /\ payment' \subseteq Paying /\ paid' \in Int
         /\ SaleMoves /\ sale'.price = sale.price
         /\ \/ sale' = sale
            \/ sale.status = "completed" /\ paid' < paid
<1>1. PICK x \in payment :
        /\ x.amount > 0 /\ paid' = paid - x.amount
        /\ payment' = (payment \ {x}) \cup {[x EXCEPT !.amount = 0]}
  BY DEF DeskReverses
<1>2. x \in Paying /\ [x EXCEPT !.amount = 0] \in Paying
  BY LeadTypes DEF Paying
<1>3. x.amount \in Int /\ paid \in Int
  BY <1>2, LeadTypes DEF Paying
<1>4. payment' \subseteq Paying /\ paid' \in Int /\ paid' < paid
  BY <1>1, <1>2, <1>3, LeadTypes
<1>5. CASE sale' = [sale EXCEPT !.status = "active", !.version = @ + 1]
           /\ sale.status = "completed"
  <2>1. sale' = [price |-> sale.price, status |-> "active",
                 version |-> sale.version + 1]
    BY <1>5, SaleRow
  <2>2. SaleMoves
    BY <2>1, SaleRow, SaleWritten
  <2> QED
    BY <1>4, <1>5, <2>1, <2>2
<1>6. CASE UNCHANGED sale
  BY <1>4, <1>6, SaleRests
<1> QED
  BY <1>5, <1>6 DEF DeskReverses

LEMMA DeskEditsMoves ==
  ASSUME PullsFenced, DeskEdits
  PROVE  /\ unposted' \in Int /\ SaleMoves
         /\ sale'.price - unposted' = sale.price - unposted
<1>1. PICK price \in Price, to \in {sale.status} \cup Closed :
        /\ sale' = [price |-> price, status |-> to, version |-> sale.version + 1]
        /\ unposted' = unposted + price - sale.price
  BY DEF DeskEdits
<1>2. price \in Int /\ to \in {"active"} \cup Closed
  BY LeadAssumption, LeadTypes DEF LeadSale
<1>3. SaleMoves
  BY <1>1, <1>2, SaleWritten
<1>4. unposted' \in Int /\ sale'.price - unposted' = sale.price - unposted
  BY <1>1, <1>2, LeadTypes
<1> QED
  BY <1>3, <1>4

LEMMA DesksMove ==
  ASSUME PullsFenced, Desks
  PROVE  /\ payment' \subseteq Paying /\ paid' \in Int
         /\ unposted' \in Int /\ SaleMoves
         /\ sale'.price - unposted' = sale.price - unposted
         /\ UNCHANGED <<deal, posted, lock, pull, expired>>
<1>1. CASE DeskPays
  <2>1. PICK amount \in Price : Pays("desk", amount)
    BY <1>1 DEF DeskPays
  <2>2. amount \in Int
    BY LeadAssumption
  <2> QED
    BY <1>1, <2>1, <2>2, LeadTypes, PaysWhat DEF DeskPays
<1>2. CASE DeskReverses
  BY <1>2, LeadTypes, DeskReversesMoves DEF DeskReverses
<1>3. CASE DeskRefunds
  <2>1. PICK amount \in Price : paid' = paid - amount
    BY <1>3 DEF DeskRefunds
  <2>2. amount \in Int
    BY LeadAssumption
  <2> QED
    BY <1>3, <2>1, <2>2, LeadTypes, SaleRests DEF DeskRefunds
<1>4. CASE DeskEdits
  BY <1>4, LeadTypes, DeskEditsMoves DEF DeskEdits
<1> QED
  BY <1>1, <1>2, <1>3, <1>4 DEF Desks

(* The lock expires, managers and desks go on.                             *)
LEMMA OthersKeep ==
  ASSUME PullsFenced, Expire \/ DealChanges \/ Desks
  PROVE  PullsFenced'
<1>1. UNCHANGED pull
  BY DesksMove DEF Expire, DealChanges
<1>2. turns' \in 0..MaxTurns
  BY LeadTypes, LeadAssumption
     DEF Expire, DealChanges, Desks, DeskPays, DeskReverses, DeskRefunds,
         DeskEdits, Turn
<1>3. CASE Expire
  <2>1. /\ lock' = FALSE /\ UNCHANGED <<deal, sale, posted, paid, payment, unposted>>
        /\ expired' = (expired \/ \E p \in Puller : pull[p].pc # "off")
    BY <1>3 DEF Expire
  <2>2. OneAtATime'
    BY <1>1, <2>1 DEF OneAtATime
  <2>3. LeadTypeOK'
    BY <1>1, <1>2, <2>1, LeadTypes DEF PullsFenced, LeadTypeOK
  <2> QED
    BY <1>1, <2>1, <2>2, <2>3, SaleRests, PullsRest DEF PullsFenced
<1>4. CASE DealChanges
  <2>1. /\ deal' \in [price: Price, stage: Stage]
        /\ UNCHANGED <<sale, posted, paid, payment, lock, unposted, expired>>
    BY <1>4 DEF DealChanges
  <2>2. OneAtATime'
    BY <1>1, <2>1 DEF PullsFenced, OneAtATime
  <2>3. LeadTypeOK'
    BY <1>1, <1>2, <2>1 DEF PullsFenced, LeadTypeOK
  <2> QED
    BY <1>1, <2>1, <2>2, <2>3, SaleRests, PullsRest DEF PullsFenced
<1>5. CASE Desks
  <2>1. /\ UNCHANGED <<deal, posted, lock, expired>>
        /\ payment' \subseteq Paying /\ paid' \in Int
        /\ unposted' \in Int /\ SaleMoves
    BY <1>5, DesksMove
  <2>2. OneAtATime'
    BY <1>1, <2>1 DEF PullsFenced, OneAtATime
  <2>3. LeadTypeOK'
    BY <1>1, <1>2, <2>1 DEF SaleMoves, PullsFenced, LeadTypeOK
  <2> QED
    BY <1>1, <2>1, <2>2, <2>3, PullsRest DEF PullsFenced
<1> QED
  BY <1>3, <1>4, <1>5

LEMMA PullsFencedInductive ==
  PullsFenced /\ [LeadsNext]_leadVars => PullsFenced'
<1>1. ASSUME PullsFenced, UNCHANGED leadVars PROVE PullsFenced'
  BY <1>1 DEF leadVars, PullsFenced, LeadTypeOK, OneAtATime, Fenced, SameVersion
<1> QED
  BY <1>1, AcquireKeeps, ListKeeps, LookKeeps, CreateLeadSaleKeeps,
     RepriceKeeps, PostKeeps, ByStageKeeps, CloseLeadSaleKeeps, PayOwedKeeps,
     ReleaseKeeps, TornPullKeeps, OthersKeep DEF LeadsNext, Pulls

(* A closed sale has been written since a pull read it open, so the pull's *)
(* write finds another version.                                            *)
LEMMA ClosedSalesKept ==
  ASSUME PullsFenced, [LeadsNext]_leadVars, sale.status \in Closed
  PROVE  /\ \/ sale'.status = sale.status
            \/ sale.status = "completed" /\ paid' < paid
         /\ sale'.price = sale.price \/ unposted' # unposted
<1>1. sale.status # "active" /\ sale.version # 0
  BY DEF PullsFenced, Closed
<1>2. ASSUME NEW p \in Puller,
             \/ CreateLeadSale(p) \/ Reprice(p) \/ CloseLeadSale(p)
      PROVE  UNCHANGED sale
  BY <1>1, <1>2
     DEF PullsFenced, Fenced, CreateLeadSale, Reprice, CloseLeadSale
<1>3. ASSUME NEW p \in Puller, PayOwed(p) PROVE UNCHANGED sale
  BY <1>1, <1>3 DEF PayOwed, Pays
<1>4. CASE DeskPays
  BY <1>1, <1>4 DEF DeskPays, Pays
<1>5. CASE DeskEdits
  <2>1. PICK price \in Price, to \in {sale.status} \cup Closed :
          /\ sale.status \in Closed => to = sale.status
          /\ sale' = [price |-> price, status |-> to, version |-> sale.version + 1]
          /\ unposted' = unposted + price - sale.price
    BY <1>5 DEF DeskEdits
  <2>2. price \in Int /\ sale.price \in Int /\ unposted \in Int
    BY LeadAssumption, LeadTypes
  <2> QED
    BY <2>1, <2>2
<1>6. CASE DeskReverses
  BY <1>6, DeskReversesMoves
<1>7. CASE UNCHANGED sale
  BY <1>7
<1> QED
  BY <1>2, <1>3, <1>4, <1>5, <1>6, <1>7
     DEF LeadsNext, Pulls, Desks, DeskRefunds, leadVars, Acquire, List, ListsNothing, Look,
         PostLeadCharge, PostAdjustment, ByStage, ReadOwed, Release, TornPull,
         Expire, DealChanges

(* The amounts that pulls are about to post. *)
DueOf(row) == IF row.pc \in {"charge", "adjust"} THEN row.owes ELSE 0
Due == Total([p \in Posting |-> pull[p].owes], Posting)

PriceAddsUp == sale.price = posted + unposted + Due

LEMMA PriceAsTotal == PriceIsPosted <=> PriceAddsUp
<1>1. MapThenSumSet(LAMBDA p : pull[p].owes, Posting) = Due
  BY DEF Due, Total, MapThenSumSet, MapThenFoldSet
<1> QED
  BY <1>1 DEF PriceIsPosted, PriceAddsUp

(* Every amount is a whole number. *)
WholeAmounts ==
  /\ sale.price \in Int /\ posted \in Int /\ unposted \in Int
  /\ \A p \in Puller : pull[p].owes \in Int /\ DueOf(pull[p]) \in Int

LEMMA AmountsAreWhole == PullsFenced => WholeAmounts
<1> SUFFICES ASSUME PullsFenced PROVE WholeAmounts
  OBVIOUS
<1>1. \A p \in Puller : DueOf(pull[p]) \in Int
  BY LeadTypes DEF DueOf
<1> QED
  BY <1>1, LeadTypes DEF WholeAmounts

LEMMA AmountsStayWhole == PullsFenced' => WholeAmounts'
  BY AmountsAreWhole, PTL

(* A step of one pull changes what is due by its own amounts.              *)
LEMMA DueMoves ==
  ASSUME PullsFenced, PullsFenced', IsFiniteSet(Posting), NEW p \in Puller,
         \A q \in Puller \ {p} : pull'[q] = pull[q]
  PROVE  /\ IsFiniteSet(Posting') /\ Due \in Int
         /\ Due' = Due - DueOf(pull[p]) + DueOf(pull'[p])
<1> DEFINE S == Posting
           f == [q \in S |-> pull[q].owes]
           T == {q \in Puller : pull'[q].pc \in {"charge", "adjust"}}
           g == [q \in T |-> pull'[q].owes]
<1>1. Due = Total(f, S) /\ Due' = Total(g, T)
  BY DEF Due, Posting
<1>2. S \subseteq Puller /\ T \subseteq Puller
  BY DEF Posting
<1>3. \A q \in Puller : pull[q].owes \in Int /\ pull'[q].owes \in Int
  BY DEF PullsFenced, LeadTypeOK, Pull
<1>4. T \ {p} = S \ {p}
  BY DEF Posting
<1>5. IsFiniteSet(T)
  <2>1. IsFiniteSet(S \cup {p}) /\ T \subseteq S \cup {p}
    BY <1>4, FS_AddElement
  <2> HIDE DEF S, T
  <2> QED
    BY <2>1, FS_Subset
<1>6. /\ \A q \in S : f[q] \in Int /\ f[q] = pull[q].owes
      /\ \A q \in T : g[q] \in Int /\ g[q] = pull'[q].owes
  BY <1>2, <1>3
<1>7. \A q \in S \ {p} : f[q] = g[q]
  BY <1>2, <1>4, <1>6
<1>8. /\ p \in S => DueOf(pull[p]) = f[p]
      /\ p \notin S => DueOf(pull[p]) = 0
  BY <1>6 DEF DueOf, Posting
<1>9. /\ p \in T => DueOf(pull'[p]) = g[p]
      /\ p \notin T => DueOf(pull'[p]) = 0
  BY <1>6 DEF DueOf
<1>10. IsFiniteSet(S) /\ IsFiniteSet(S \ {p})
  BY FS_Subset
<1>11. /\ Total(f, S) = Total(f, S \ {p}) + DueOf(pull[p])
       /\ Total(g, T) = Total(g, S \ {p}) + DueOf(pull'[p])
       /\ Total(f, S \ {p}) = Total(g, S \ {p})
       /\ Total(f, S \ {p}) \in Int
  <2> HIDE DEF S, T, f, g
  <2>1. \A q \in S : f[q] \in Int
    BY <1>6
  <2>2. Total(f, S) = Total(f, S \ {p}) + IF p \in S THEN f[p] ELSE 0
    BY <1>10, <2>1, TotalApart
  <2>3. \A q \in T : g[q] \in Int
    BY <1>6
  <2>4. Total(g, T) = Total(g, T \ {p}) + IF p \in T THEN g[p] ELSE 0
    BY <1>5, <2>3, TotalApart
  <2>5. Total(f, S \ {p}) = Total(g, S \ {p})
    BY <1>7, <1>10, TotalSame
  <2>6. Total(f, S \ {p}) \in Int
    <3>1. \A q \in S \ {p} : f[q] \in Int
      BY <2>1
    <3> QED
      BY <1>10, <3>1, TotalInt
  <2> QED
    BY <1>4, <1>8, <1>9, <2>2, <2>4, <2>5, <2>6
<1>12. DueOf(pull[p]) \in Int /\ DueOf(pull'[p]) \in Int
  BY <1>3 DEF DueOf
<1>13. Posting' = T
  BY DEF Posting
<1> HIDE DEF S, T, f, g, Total
<1> QED
  BY <1>1, <1>5, <1>11, <1>12, <1>13

(* Where Goes and Ends leave a pull. *)
LEMMA Arrives ==
  ASSUME PullsFenced, NEW p \in Puller
  PROVE  /\ \A pc, price, seen, owes : Goes(p, pc, price, seen, owes) =>
              /\ pull'[p].pc = pc /\ pull'[p].owes = owes
              /\ pull'[p].price = price
              /\ \A q \in Puller \ {p} : pull'[q] = pull[q]
         /\ \A pc : pull' = [pull EXCEPT ![p] = [NoPull EXCEPT !.pc = pc]] =>
              /\ pull'[p].pc = pc /\ pull'[p].owes = 0
              /\ \A q \in Puller \ {p} : pull'[q] = pull[q]
BY DEF PullsFenced, LeadTypeOK, Goes, NoPull

(* What a step of a pull does to the sale, to the other pulls and to the   *)
(* difference between the price, the entries and what it is to post.       *)
PullAccounts(p) ==
  /\ SaleMoves
  /\ \A q \in Puller \ {p} : pull'[q] = pull[q]
  /\ pull'[p].pc = "price" =>
       sale' = sale /\ pull'[p].owes = pull'[p].price - sale.price
  /\ sale'.price - posted' - unposted' - DueOf(pull'[p])
       = sale.price - posted - unposted - DueOf(pull[p])

LEMMA QuietAccounts ==
  ASSUME PullsFenced, NEW p \in Puller,
         \/ Acquire(p) \/ List(p) \/ ListsNothing(p) \/ Look(p)
         \/ ByStage(p) \/ ReadOwed(p) \/ Release(p)
  PROVE  PullAccounts(p)
<1>1. UNCHANGED <<sale, posted, unposted>> /\ SaleMoves
  BY SaleRests DEF Acquire, List, ListsNothing, Look, ByStage, ReadOwed, Release
<1>2. DueOf(pull[p]) = 0
  BY DEF DueOf, Acquire, List, ListsNothing, Look, ByStage, ReadOwed, Release
<1>3. /\ \A q \in Puller \ {p} : pull'[q] = pull[q]
      /\ pull'[p].pc \notin {"charge", "adjust"}
      /\ pull'[p].pc = "price" => pull'[p].owes = pull'[p].price - sale.price
  <2>1. CASE List(p)
    BY <2>1, LeadTypes DEF List, Pull
  <2>2. CASE Acquire(p)
    BY <2>2, Arrives DEF Acquire
  <2>3. CASE Look(p)
    BY <2>3, Arrives DEF Look
  <2>4. CASE ListsNothing(p)
    BY <2>4, Arrives DEF ListsNothing, Ends
  <2>5. CASE ByStage(p) \/ ReadOwed(p)
    <3>1. \/ Ends(p)
          \/ \E pc \in {"close", "owed", "pay"}, seen \in Nat, owes \in Int :
               Goes(p, pc, 0, seen, owes)
      BY <2>5, LeadTypes DEF ByStage, ReadOwed
    <3> QED
      BY <3>1, Arrives DEF Ends
  <2>6. CASE Release(p)
    BY <2>6, LeadTypes DEF Release, NoPull
  <2> QED
    BY <2>1, <2>2, <2>3, <2>4, <2>5, <2>6
<1> QED
  BY <1>1, <1>2, <1>3 DEF PullAccounts, DueOf

LEMMA WriteAccounts ==
  ASSUME PullsFenced, ChangesKnown, NEW p \in Puller,
         \/ CreateLeadSale(p) \/ Reprice(p) \/ CloseLeadSale(p) \/ PayOwed(p)
  PROVE  PullAccounts(p)
<1>1. /\ sale.price \in Int /\ pull[p].price \in Int /\ pull[p].owes \in Int
      /\ posted \in Int /\ unposted \in Int
  BY LeadTypes
<1>2. /\ DueOf(pull[p]) = 0 /\ posted' = posted /\ unposted' = unposted
  BY DEF DueOf, CreateLeadSale, Reprice, CloseLeadSale, PayOwed
<1>3. SaleMoves
  BY CreateLeadSaleMoves, RepriceMoves, CloseLeadSaleMoves, PayOwedMoves
<1>4. /\ \A q \in Puller \ {p} : pull'[q] = pull[q]
      /\ pull'[p].pc # "price"
      /\ sale'.price - DueOf(pull'[p]) = sale.price
  <2>1. CASE CreateLeadSale(p)
    <3>1. CASE sale.version = 0
      <4>1. /\ sale'.price = pull[p].price /\ sale.price = 0
            /\ Goes(p, "charge", 0, 0, pull[p].price)
        BY <2>1, <3>1 DEF CreateLeadSale, ChangesKnown
      <4>2. pull'[p].pc = "charge" /\ pull'[p].owes = pull[p].price
        BY <4>1, Arrives
      <4> QED
        BY <1>1, <4>1, <4>2, Arrives DEF DueOf
    <3>2. CASE sale.version # 0
      <4>1. Ends(p) /\ sale' = sale
        BY <2>1, <3>2 DEF CreateLeadSale
      <4>2. pull'[p].pc = "release"
        BY <4>1, Arrives DEF Ends
      <4> QED
        BY <1>1, <4>1, <4>2, Arrives DEF Ends, DueOf
    <3> QED
      BY <3>1, <3>2
  <2>2. CASE Reprice(p)
    <3>1. CASE SameVersion(p)
      <4>1. /\ sale'.price = pull[p].price
            /\ Goes(p, "adjust", 0, 0, pull[p].owes)
        BY <2>2, <3>1, SaleRow DEF Reprice
      <4>2. pull[p].owes = pull[p].price - sale.price
        BY <2>2, <3>1 DEF Reprice, ChangesKnown, KnowsChange
      <4>3. pull'[p].pc = "adjust" /\ pull'[p].owes = pull[p].owes
        BY <4>1, Arrives
      <4> QED
        BY <1>1, <4>1, <4>2, <4>3, Arrives DEF DueOf
    <3>2. CASE ~SameVersion(p)
      <4>1. Goes(p, "stage", 0, 0, 0) /\ sale' = sale
        BY <2>2, <3>2 DEF Reprice
      <4>2. pull'[p].pc = "stage"
        BY <4>1, Arrives
      <4> QED
        BY <1>1, <4>1, <4>2, Arrives DEF DueOf
    <3> QED
      BY <3>1, <3>2
  <2>3. CASE CloseLeadSale(p) \/ PayOwed(p)
    <3>1. Goes(p, "owed", 0, 0, 0) \/ Ends(p)
      BY <2>3 DEF CloseLeadSale, PayOwed
    <3>2. sale'.price = sale.price
      BY <2>3, CloseLeadSaleMoves, PayOwedMoves
    <3>3. /\ \A q \in Puller \ {p} : pull'[q] = pull[q]
          /\ pull'[p].pc \in {"owed", "release"}
      BY <3>1, Arrives DEF Ends
    <3> QED
      BY <1>1, <3>2, <3>3 DEF DueOf
  <2> QED
    BY <2>1, <2>2, <2>3
<1>5. DueOf(pull'[p]) \in Int /\ sale'.price \in Int
  <2>1. PullsFenced'
    BY CreateLeadSaleKeeps, RepriceKeeps, CloseLeadSaleKeeps, PayOwedKeeps
  <2> QED
    BY <2>1, AmountsStayWhole DEF WholeAmounts
<1> QED
  BY <1>1, <1>2, <1>3, <1>4, <1>5 DEF PullAccounts

LEMMA PostAccounts ==
  ASSUME PullsFenced, NEW p \in Puller,
         PostLeadCharge(p) \/ PostAdjustment(p) \/ TornPull(p)
  PROVE  PullAccounts(p)
<1>1. /\ sale.price \in Int /\ pull[p].owes \in Int
      /\ posted \in Int /\ unposted \in Int
  BY LeadTypes
<1>2. sale' = sale /\ SaleMoves
  BY SaleRests DEF PostLeadCharge, PostAdjustment, TornPull
<1>3. posted' + unposted' = posted + unposted + DueOf(pull[p])
      /\ posted' \in Int /\ unposted' \in Int
  BY <1>1 DEF PostLeadCharge, PostAdjustment, TornPull, DueOf
<1>4. /\ \A q \in Puller \ {p} : pull'[q] = pull[q]
      /\ pull'[p].pc \in {"stage", "release", "off"}
  BY Arrives DEF PostLeadCharge, PostAdjustment, TornPull, Ends
<1>5. DueOf(pull[p]) \in Int /\ DueOf(pull'[p]) = 0
  BY <1>1, <1>4 DEF DueOf
<1> QED
  BY <1>1, <1>2, <1>3, <1>4, <1>5 DEF PullAccounts

(* What the other pulls know of the sale stays true, or their write will   *)
(* find another version.                                                   *)
LEMMA ChangeStaysKnown ==
  ASSUME PullsFenced, ChangesKnown, SaleMoves, NEW q \in Puller,
         pull'[q] = pull[q]
  PROVE  KnowsChange(q)'
<1>1. /\ pull[q].seen \in Nat /\ sale.version \in Nat
      /\ sale'.version \in Nat /\ pull[q].seen <= sale.version
  BY LeadTypes DEF PullsFenced, Fenced, SaleMoves, LeadSale
<1>2. CASE sale' = sale
  BY <1>2 DEF ChangesKnown, KnowsChange, SameVersion
<1>3. CASE sale'.version > sale.version
  BY <1>1, <1>3 DEF KnowsChange, SameVersion
<1> QED
  BY <1>2, <1>3 DEF SaleMoves

LEMMA NoPriceBefore ==
  ASSUME PullsFenced, ChangesKnown, SaleMoves
  PROVE  sale'.version = 0 => sale'.price = 0
<1>1. sale.version \in Nat /\ sale'.version \in Nat
  BY LeadTypes DEF SaleMoves, LeadSale
<1> QED
  BY <1>1 DEF ChangesKnown, SaleMoves

LEMMA PullAddsUp ==
  ASSUME PullsFenced, ChangesKnown, PriceAddsUp, PullsFenced',
         NEW p \in Puller, PullAccounts(p)
  PROVE  ChangesKnown' /\ PriceAddsUp'
<1>1. /\ IsFiniteSet(Posting') /\ Due \in Int
      /\ Due' = Due - DueOf(pull[p]) + DueOf(pull'[p])
  BY DueMoves DEF ChangesKnown, PullAccounts
<1>2. PriceAddsUp'
  <2>1. WholeAmounts /\ WholeAmounts'
    BY AmountsAreWhole, AmountsStayWhole
  <2> QED
    BY <1>1, <2>1 DEF WholeAmounts, PullAccounts, PriceAddsUp
<1>3. ASSUME NEW q \in Puller PROVE KnowsChange(q)'
  <2>1. CASE q = p
    BY <2>1 DEF PullAccounts, KnowsChange
  <2>2. CASE q # p
    BY <2>2, ChangeStaysKnown DEF PullAccounts
  <2> QED
    BY <2>1, <2>2
<1> QED
  BY <1>1, <1>2, <1>3, NoPriceBefore DEF ChangesKnown, PullAccounts

LEMMA RestAddsUp ==
  ASSUME PullsFenced, ChangesKnown, PriceAddsUp, PullsFenced',
         UNCHANGED <<pull, posted>>, SaleMoves,
         sale'.price - unposted' = sale.price - unposted
  PROVE  ChangesKnown' /\ PriceAddsUp'
<1>1. Posting' = Posting /\ Due' = Due
  BY DEF Posting, Due
<1>2. \A q \in Puller : KnowsChange(q)'
  BY ChangeStaysKnown
<1>3. Due \in Int
  <2>1. \A q \in Posting : pull[q].owes \in Int
    BY LeadTypes DEF Posting
  <2> DEFINE f == [q \in Posting |-> pull[q].owes]
  <2>2. \A q \in Posting : f[q] \in Int
    BY <2>1
  <2> HIDE DEF f
  <2>3. Total(f, Posting) \in Int
    BY <2>2, TotalInt DEF ChangesKnown
  <2> QED
    BY <2>3 DEF Due, f
<1>4. /\ sale.price \in Int /\ posted \in Int /\ unposted \in Int
      /\ sale'.price \in Int /\ unposted' \in Int
  BY AmountsAreWhole, AmountsStayWhole DEF WholeAmounts
<1>5. PriceAddsUp'
  BY <1>1, <1>3, <1>4 DEF PriceAddsUp
<1> QED
  BY <1>1, <1>2, <1>5, NoPriceBefore DEF ChangesKnown

LEMMA AddsUpInductive ==
  PullsFenced /\ ChangesKnown /\ PriceAddsUp /\ [LeadsNext]_leadVars =>
    ChangesKnown' /\ PriceAddsUp'
<1> SUFFICES ASSUME PullsFenced, ChangesKnown, PriceAddsUp,
                    [LeadsNext]_leadVars
             PROVE  ChangesKnown' /\ PriceAddsUp'
  OBVIOUS
<1>1. PullsFenced'
  BY PullsFencedInductive
<1>2. ASSUME NEW p \in Puller, Pulls(p)
      PROVE  ChangesKnown' /\ PriceAddsUp'
  <2>1. PullAccounts(p)
    BY <1>2, QuietAccounts, WriteAccounts, PostAccounts DEF Pulls
  <2> QED
    BY <1>1, <2>1, PullAddsUp
<1>3. CASE Desks
  BY <1>1, <1>3, DesksMove, RestAddsUp
<1>4. CASE Expire \/ DealChanges \/ UNCHANGED leadVars
  <2>1. UNCHANGED <<pull, posted, sale, unposted>>
    BY <1>4 DEF Expire, DealChanges, leadVars
  <2> QED
    BY <1>1, <2>1, SaleRests, RestAddsUp
<1> QED
  BY <1>2, <1>3, <1>4 DEF LeadsNext

LEMMA InitAddsUp == LeadsInit => ChangesKnown /\ PriceAddsUp
<1> SUFFICES ASSUME LeadsInit PROVE ChangesKnown /\ PriceAddsUp
  OBVIOUS
<1>1. /\ sale = NoLeadSale /\ pull = [p \in Puller |-> NoPull]
      /\ posted = 0 /\ unposted = 0
  BY DEF LeadsInit
<1>2. Posting = {}
  BY <1>1 DEF Posting, NoPull
<1>3. Due = 0
  BY <1>2, TotalOfNone DEF Due
<1> QED
  BY <1>1, <1>2, <1>3, FS_EmptySet
     DEF ChangesKnown, KnowsChange, PriceAddsUp, NoLeadSale, NoPull

-----------------------------------------------------------------------------
(* The loops together *)

LEMMA EachLoopStarts ==
  BackgroundInit => Init /\ RecordingsInit /\ OutboxInit /\ LeadsInit
BY DEF BackgroundInit

(* A step of one loop leaves the others where they are.                    *)
LEMMA EachLoopSteps ==
  [BackgroundNext]_backgroundVars =>
    /\ [Next]_vars /\ [RecordingsNext]_recordingVars
    /\ [OutboxNext]_outboxVars /\ [LeadsNext]_leadVars
BY DEF BackgroundNext, backgroundVars

(* The recordings of a tenant's calls: a stored one is not fetched again,  *)
(* none is forgotten before its last attempt, and two workers download the *)
(* same one only when a claim has gone stale under the first.              *)
THEOREM RecordingsCorrect == BackgroundSpec => []RecordingsInv
<1>1. BackgroundInit => RecordingsInv
  BY EachLoopStarts, InitRecordingsInv
<1>2. RecordingsInv /\ [BackgroundNext]_backgroundVars => RecordingsInv'
  BY EachLoopSteps, RecordingsInductive
<1> QED
  BY <1>1, <1>2, PTL DEF BackgroundSpec

(* The outbox: what is marked sent was received, a message is dead only    *)
(* after its last retry, and none arrives twice unless attempts overlapped *)
(* or an answer or a mark was lost, however many processes dispatch.       *)
THEOREM OutboxCorrect == BackgroundSpec => []OutboxInv
<1>1. BackgroundInit => OutboxInv
  BY EachLoopStarts, InitOutboxInv
<1>2. OutboxInv /\ [BackgroundNext]_backgroundVars => OutboxInv'
  BY EachLoopSteps, OutboxInductive
<1> QED
  BY <1>1, <1>2, PTL DEF BackgroundSpec

(* The pull of the deals: the lock keeps pulls apart until it expires in   *)
(* one's hands, and a pull that writes the sale as it has read it writes   *)
(* an open one, whatever became of the lock.                               *)
THEOREM PullsAreFenced == BackgroundSpec => []PullsFenced
<1>1. BackgroundInit => PullsFenced
  BY EachLoopStarts, InitPullsFenced
<1>2. PullsFenced /\ [BackgroundNext]_backgroundVars => PullsFenced'
  BY EachLoopSteps, PullsFencedInductive
<1> QED
  BY <1>1, <1>2, PTL DEF BackgroundSpec

(* Whatever becomes of the lock, of the processes and of the sale, the     *)
(* price is what was posted, what a pull is about to post and what is      *)
(* known to be missing: no change of the price is posted twice or dropped. *)
THEOREM PricesArePosted == BackgroundSpec => []LeadInv
<1>1. BackgroundInit => ChangesKnown /\ PriceAddsUp
  BY EachLoopStarts, InitAddsUp
<1>2. PullsFenced /\ ChangesKnown /\ PriceAddsUp
        /\ [BackgroundNext]_backgroundVars
      => ChangesKnown' /\ PriceAddsUp'
  BY EachLoopSteps, AddsUpInductive
<1>3. PullsFenced /\ ChangesKnown /\ PriceAddsUp => LeadInv
  BY PriceAsTotal DEF LeadInv
<1> QED
  BY <1>1, <1>2, <1>3, PullsAreFenced, PTL DEF BackgroundSpec

(* No pull reopens, reprices or closes again a sale that is closed: a desk *)
(* does, and reopens it by a reversal only; for any number of processes    *)
(* and prices.                                                             *)
THEOREM ClosedSalesStay == BackgroundSpec => PullsLeaveClosedSales
<1>1. PullsFenced /\ [BackgroundNext]_backgroundVars =>
        [sale.status \in Closed =>
           /\ \/ sale'.status = sale.status
              \/ sale.status = "completed" /\ paid' < paid
           /\ sale'.price = sale.price \/ unposted' # unposted]_leadVars
  BY EachLoopSteps, ClosedSalesKept
<1> QED
  BY <1>1, PullsAreFenced, PTL DEF BackgroundSpec, PullsLeaveClosedSales

(* The job queue keeps its invariant beside the other loops.               *)
THEOREM QueueCorrectInBackground == BackgroundSpec => []QueueInv
<1>1. BackgroundInit => QueueInv
  BY EachLoopStarts, InitQueueInv
<1>2. QueueInv /\ [BackgroundNext]_backgroundVars => QueueInv'
  BY EachLoopSteps, QueueInductive
<1> QED
  BY <1>1, <1>2, PTL DEF BackgroundSpec
=============================================================================
