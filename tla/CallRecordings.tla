--------------------------- MODULE CallRecordings ---------------------------
(***************************************************************************)
(* The recordings of one tenant's calls.  A webhook, or the pull of the    *)
(* calls from AmoCRM, leaves the provider's URL in the row of the call;    *)
(* every application process runs a worker that claims such rows in        *)
(* batches, downloads one recording after the other and stores it in the   *)
(* bucket under a key made of the call's id.  Which URL it was is left     *)
(* out: the row has room for one, and the key does not depend on it.       *)
(***************************************************************************)
EXTENDS Integers, FiniteSets, FiniteSetsExt

CONSTANTS
  Call,          \* rows of calls, numbered in the order of created_at
  Downloader,    \* application processes
  BatchSize,     \* _BATCH_SIZE_PER_TENANT
  MaxAttempts,   \* calls_recording_max_attempts
  MaxTold,       \* bound on the events that bring a URL
  MaxAbandoned,  \* bound on the batches that end before their time
  NoCall

ASSUME RecordingsAssumption ==
  /\ Call \subseteq Nat /\ NoCall \notin Call
  /\ {BatchSize, MaxAttempts, MaxTold, MaxAbandoned} \subseteq Nat

VARIABLES
  call,       \* the columns of the recording in the row of each call
  batch,      \* what each downloader has claimed and not finished
  told,       \* told[c]: events that brought a URL for call c
  abandoned,  \* batches that ended before their time
  (* History, for the properties only. *)
  overtaken   \* <<w, c>>: the claim of w on c grew stale and went to another

recordingVars == <<call, batch, told, abandoned, overtaken>>

-----------------------------------------------------------------------------
\* claim says what recording_claimed_at is: NULL, younger than 5 minutes, older
CallRow == [pending: BOOLEAN, stored: BOOLEAN, attempts: Nat,
            claim: {"none", "fresh", "stale"}]
Batch   == [todo: SUBSET Call, doing: Call \cup {NoCall},
            got: {"nothing", "file", "error"}]
NoBatch == [todo |-> {}, doing |-> NoCall, got |-> "nothing"]

Holds(w, c) == c \in batch[w].todo \cup {batch[w].doing}

(* claim_calls_with_pending_recording picks a row.  Mutants: the plain     *)
(* SELECT it replaced, which looks at no claim; claims that never expire.  *)
ClaimableCallListed(c) == call[c].pending
ClaimableCallOnce(c) == call[c].pending /\ call[c].claim = "none"
ClaimableCall(c) == call[c].pending /\ call[c].claim # "fresh"

GivesUp(c) == call[c].attempts + 1 >= MaxAttempts

-----------------------------------------------------------------------------
RecordingsInit ==
  /\ call = [c \in Call |-> [pending |-> FALSE, stored |-> FALSE,
                             attempts |-> 0, claim |-> "none"]]
  /\ batch = [w \in Downloader |-> NoBatch]
  /\ told = [c \in Call |-> 0]
  /\ abandoned = 0
  /\ overtaken = {}

(* An event with a recording's URL: set_pending_recording_url, "only when  *)
(* no recording is already stored".                                        *)
Tell(c) ==
  /\ MapThenSumSet(LAMBDA d : told[d], Call) < MaxTold
  /\ told' = [told EXCEPT ![c] = @ + 1]
  /\ call' = [call EXCEPT ![c].pending = @ \/ ~call[c].stored]
  /\ UNCHANGED <<batch, abandoned, overtaken>>

(* The oldest rows that nobody downloads, all claimed in one statement. *)
ClaimBatch(w) ==
  LET due == {c \in Call : ClaimableCall(c)} IN
  /\ batch[w] = NoBatch /\ due # {}
  /\ \E claimed \in SUBSET due :
       /\ Cardinality(claimed) =
            IF Cardinality(due) < BatchSize THEN Cardinality(due) ELSE BatchSize
       /\ \A c \in claimed, d \in due \ claimed : c < d
       /\ call' = [c \in Call |-> IF c \in claimed
                     THEN [call[c] EXCEPT !.claim = "fresh"] ELSE call[c]]
       /\ batch' = [batch EXCEPT ![w].todo = claimed]
       /\ overtaken' = overtaken \cup
            {x \in Downloader \X claimed :
               Holds(x[1], x[2]) /\ call[x[2]].claim = "stale"}
  /\ UNCHANGED <<told, abandoned>>

(* download_recording and put_object, outside of any transaction.  A file  *)
(* that is in the bucket may still be reported as an error.                *)
Download(w, c) ==
  /\ batch[w].doing = NoCall /\ c \in batch[w].todo
  /\ \E got \in {"file", "error"} :
       batch' = [batch EXCEPT ![w] =
         [todo |-> @.todo \ {c}, doing |-> c, got |-> got]]
  /\ UNCHANGED <<call, told, abandoned, overtaken>>

Marked(w) ==
  /\ batch' = [batch EXCEPT ![w] = [NoBatch EXCEPT !.todo = batch[w].todo]]
  /\ overtaken' = overtaken \ {<<w, batch[w].doing>>}
  /\ UNCHANGED <<told, abandoned>>

\* update_call_recording_key
StoreKey(w) ==
  /\ batch[w].got = "file"
  /\ call' = [call EXCEPT ![batch[w].doing].stored = TRUE,
                          ![batch[w].doing].pending = FALSE]
  /\ Marked(w)

\* mark_call_recording_failed: the claim stays, and delays the next attempt
CountFailure(w) ==
  /\ batch[w].got = "error"
  /\ LET c == batch[w].doing IN
     call' = [call EXCEPT ![c].attempts = @ + 1,
                          ![c].pending = @ /\ ~GivesUp(c)]
  /\ Marked(w)

(* The process ends, or a mark fails and with it the rest of the batch.    *)
(* The claims stay in the rows.                                            *)
Abandon(w) ==
  /\ abandoned < MaxAbandoned /\ batch[w] # NoBatch
  /\ abandoned' = abandoned + 1
  /\ batch' = [batch EXCEPT ![w] = NoBatch]
  /\ overtaken' = {x \in overtaken : x[1] # w}
  /\ UNCHANGED <<call, told>>

\* Five minutes pass, whether or not the batch has come to this call.
GrowStale(c) ==
  /\ call[c].claim = "fresh"
  /\ call' = [call EXCEPT ![c].claim = "stale"]
  /\ UNCHANGED <<batch, told, abandoned, overtaken>>

-----------------------------------------------------------------------------
\* What happens by itself: the workers' loops and the clock
RecordingsGoOn ==
  \/ \E w \in Downloader :
       \/ ClaimBatch(w) \/ StoreKey(w) \/ CountFailure(w)
       \/ \E c \in Call : Download(w, c)
  \/ \E c \in Call : GrowStale(c)

RecordingsNext ==
  \/ RecordingsGoOn
  \/ \E c \in Call : Tell(c)
  \/ \E w \in Downloader : Abandon(w)

-----------------------------------------------------------------------------
RecordingsTypeOK ==
  /\ call \in [Call -> CallRow] /\ batch \in [Downloader -> Batch]
  /\ told \in [Call -> Nat] /\ abandoned \in 0..MaxAbandoned
  /\ overtaken \subseteq Downloader \X Call

\* What is in a batch is claimed, and is there once.
Claimed(w) == /\ \A c \in Call : Holds(w, c) => call[c].claim # "none"
              /\ batch[w].doing \notin batch[w].todo
              /\ batch[w].got # "nothing" => batch[w].doing \in Call

\* A recording that is in the bucket is not fetched again.
StoredIsDone(c) == call[c].stored => ~call[c].pending

(* A recording that nobody fetches any more, though there was a URL, has   *)
(* failed as often as the settings say: no event, late answer or lost      *)
(* batch makes the workers forget it earlier.                              *)
GivenUpAfterTrying(c) ==
  told[c] > 0 /\ ~call[c].pending /\ ~call[c].stored
    => call[c].attempts >= MaxAttempts

(* Two workers have one call in their batches only if one of them held it  *)
(* for so long that it was claimed again.                                  *)
OneDownloader(c) ==
  \A v, w \in Downloader :
    v # w /\ Holds(v, c) /\ Holds(w, c)
      => <<v, c>> \in overtaken \/ <<w, c>> \in overtaken

(* However webhooks, workers, failures and stale claims interleave, a call *)
(* ends with its recording or after all its attempts, and only the stale   *)
(* claim of a slow worker lets another do the same work.                   *)
RecordingsInv ==
  /\ RecordingsTypeOK
  /\ \A w \in Downloader : Claimed(w)
  /\ \A c \in Call : StoredIsDone(c) /\ GivenUpAfterTrying(c) /\ OneDownloader(c)
=============================================================================
