------------------------- MODULE NotificationOutbox -------------------------
(***************************************************************************)
(* The outbox of one tenant's Telegram messages.  A request or a schedule  *)
(* writes a row; Celery's Beat lists the rows that are due every half      *)
(* minute and puts a task for each into the broker, whether or not one is  *)
(* there already; Celery's processes take tasks, send and write down what  *)
(* came of it.  A task leaves the broker when it is taken (there is no     *)
(* acks_late), so that it is lost with its process.                        *)
(***************************************************************************)
EXTENDS Integers

CONSTANTS
  Message,      \* rows of notification_outbox
  Process,      \* processes of the Celery worker
  MaxRetries,   \* notification_outbox.max_retries
  MaxQueued,    \* bound on the tasks for one message in the broker
  MaxDied,      \* bound on the tasks that end before their mark
  NoMessage

ASSUME OutboxAssumption ==
  /\ {MaxRetries, MaxQueued} \subseteq Nat \ {0} /\ MaxDied \in Nat
  /\ NoMessage \notin Message

VARIABLES
  outbox,     \* status, retry_count and next_attempt_at of each row
  queued,     \* tasks for each message in the broker
  task,       \* what each process is doing
  died,       \* tasks that ended before their mark
  (* History, for the properties only. *)
  received,   \* how often Telegram got the message: 0, 1 or 2 for more
  excused     \* messages that may have been sent again unknowingly

outboxVars == <<outbox, queued, task, died, received, excused>>

-----------------------------------------------------------------------------
\* due: next_attempt_at has come
OutboxRow == [status: {"absent", "pending", "sent", "dead_letter"},
              retries: Nat, due: BOOLEAN]
Task == [message: Message \cup {NoMessage},
         at: {"idle", "send", "sent", "failed"}]
NoTask == [message |-> NoMessage, at |-> "idle"]

(* What a delivery does with the row it has read first.  Mutant: it sends  *)
(* whatever it was asked to.                                               *)
StillWantedAlways(m) == TRUE
StillWanted(m) == outbox[m].status = "pending"

\* The status after one more failure
AfterFailure(m) ==
  IF outbox[m].retries + 1 >= MaxRetries THEN "dead_letter" ELSE "pending"

-----------------------------------------------------------------------------
OutboxInit ==
  /\ outbox = [m \in Message |->
                 [status |-> "absent", retries |-> 0, due |-> FALSE]]
  /\ queued = [m \in Message |-> 0]
  /\ task = [p \in Process |-> NoTask]
  /\ died = 0
  /\ received = [m \in Message |-> 0]
  /\ excused = {}

(* A report waits for the next tick of Beat; a schedule that ran puts the  *)
(* task into the broker itself.                                            *)
EnqueueMessage(m) ==
  /\ outbox[m].status = "absent"
  /\ outbox' = [outbox EXCEPT ![m] = [@ EXCEPT !.status = "pending", !.due = TRUE]]
  /\ \E own \in {0, 1} : queued' = [queued EXCEPT ![m] = own]
  /\ UNCHANGED <<task, died, received, excused>>

\* dispatch_due_outbox: due is due, also while an attempt is under way.
Dispatch(m) ==
  /\ outbox[m].status = "pending" /\ outbox[m].due
  /\ queued[m] < MaxQueued
  /\ queued' = [queued EXCEPT ![m] = @ + 1]
  /\ UNCHANGED <<outbox, task, died, received, excused>>

(* deliver_outbox_message reads the row and goes on if it still reads      *)
(* pending; whether it is due is not looked at again.                      *)
Take(p, m) ==
  /\ task[p] = NoTask /\ queued[m] > 0
  /\ queued' = [queued EXCEPT ![m] = @ - 1]
  /\ IF StillWanted(m)
       THEN /\ task' = [task EXCEPT ![p] = [message |-> m, at |-> "send"]]
            /\ excused' = IF \E q \in Process : task[q].message = m
                            THEN excused \cup {m} ELSE excused
       ELSE UNCHANGED <<task, excused>>
  /\ UNCHANGED <<outbox, died, received>>

(* The call of Telegram's API: no bot, no file, no network, or a message   *)
(* that arrived and an answer that did not.                                *)
Send(p) ==
  LET m == task[p].message IN
  /\ task[p].at = "send"
  /\ \E arrives, answered \in BOOLEAN :
       /\ answered => arrives
       /\ task' = [task EXCEPT ![p].at = IF answered THEN "sent" ELSE "failed"]
       /\ received' = [received EXCEPT ![m] = IF arrives /\ @ < 2 THEN @ + 1 ELSE @]
       /\ excused' = IF arrives /\ ~answered THEN excused \cup {m} ELSE excused
  /\ UNCHANGED <<outbox, queued, died>>

\* mark_outbox_sent leaves a row alone that is not pending ...
MarkSent(p) ==
  LET m == task[p].message IN
  /\ task[p].at = "sent"
  /\ outbox' = IF outbox[m].status = "pending"
                 THEN [outbox EXCEPT ![m].status = "sent"] ELSE outbox
  /\ task' = [task EXCEPT ![p] = NoTask]
  /\ UNCHANGED <<queued, died, received, excused>>

\* ... and mark_outbox_retry_or_dead_letter writes it whatever it reads.
MarkRetry(p) ==
  LET m == task[p].message IN
  /\ task[p].at = "failed"
  /\ outbox' = [outbox EXCEPT ![m] =
       [status |-> AfterFailure(m), retries |-> @.retries + 1, due |-> FALSE]]
  /\ task' = [task EXCEPT ![p] = NoTask]
  /\ UNCHANGED <<queued, died, received, excused>>

\* A process dies, or the transaction of its mark fails.
TaskDies(p) ==
  /\ died < MaxDied /\ task[p] # NoTask
  /\ died' = died + 1
  /\ excused' = IF task[p].at = "sent"
                   THEN excused \cup {task[p].message} ELSE excused
  /\ task' = [task EXCEPT ![p] = NoTask]
  /\ UNCHANGED <<outbox, queued, received>>

\* The backoff ends.
FallDue(m) ==
  /\ outbox[m].status = "pending" /\ ~outbox[m].due
  /\ outbox' = [outbox EXCEPT ![m].due = TRUE]
  /\ UNCHANGED <<queued, task, died, received, excused>>

-----------------------------------------------------------------------------
\* What happens by itself: Beat, the processes and the clock
OutboxGoesOn ==
  \/ \E m \in Message : Dispatch(m) \/ FallDue(m)
  \/ \E p \in Process :
       \/ Send(p) \/ MarkSent(p) \/ MarkRetry(p)
       \/ \E m \in Message : Take(p, m)

OutboxNext ==
  \/ OutboxGoesOn
  \/ \E m \in Message : EnqueueMessage(m)
  \/ \E p \in Process : TaskDies(p)

-----------------------------------------------------------------------------
OutboxTypeOK ==
  /\ outbox \in [Message -> OutboxRow] /\ queued \in [Message -> 0..MaxQueued]
  /\ task \in [Process -> Task] /\ died \in 0..MaxDied
  /\ received \in [Message -> 0..2] /\ excused \subseteq Message

\* A task at work has a message that was written; one that reported success
\* has sent it.
TaskSound(p) ==
  /\ task[p].message = NoMessage <=> task[p].at = "idle"
  /\ task[p].at # "idle" => outbox[task[p].message].status # "absent"
  /\ task[p].at = "sent" => received[task[p].message] > 0

\* Without an excuse a message has one attempt at a time, and none once it
\* was sent.
OneAttempt(m) ==
  m \notin excused =>
    /\ \A p, q \in Process : task[p].message = m /\ task[q].message = m => p = q
    /\ \A p \in Process : task[p].message = m =>
         /\ outbox[m].status = "pending"
         /\ task[p].at # "sent" => received[m] = 0
    /\ received[m] > 0 =>
         outbox[m].status = "sent" \/ \E p \in Process : task[p].message = m

(* Tasks pile up in the broker, yet a group reads a message twice only if  *)
(* two attempts overlapped, an answer was lost or a mark was.              *)
SentTwiceOnlyExcused(m) == received[m] > 1 => m \in excused

\* The status tells the truth.
StatusIsTrue(m) ==
  /\ outbox[m].status = "absent" => outbox[m].retries = 0
  /\ outbox[m].status = "sent" => received[m] > 0
  /\ outbox[m].status = "dead_letter" => outbox[m].retries >= MaxRetries
  /\ outbox[m].status = "pending" => outbox[m].retries < MaxRetries

(* Whatever Beat enqueues again, and whatever processes do with it at the  *)
(* same time: a message marked sent arrived, a dead one used up its        *)
(* retries, and none is sent again but for an excuse.                      *)
OutboxInv ==
  /\ OutboxTypeOK
  /\ \A p \in Process : TaskSound(p)
  /\ \A m \in Message :
       OneAttempt(m) /\ SentTwiceOnlyExcused(m) /\ StatusIsTrue(m)
=============================================================================
