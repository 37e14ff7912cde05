-------------------------- MODULE NotificationQueue --------------------------
(***************************************************************************)
(* backend/services/notification_queue.py: the SQLite queue behind every   *)
(* notification, with the write batch that spares the flash storage.       *)
(* Each SQL statement that commits is one step; a batch write holds        *)
(* _batch_lock across its awaits.                                          *)
(***************************************************************************)
EXTENDS Integers, FiniteSets

CONSTANTS
  Notification,  \* notifications; one value may stand for several in turn
  Unreadable,    \* those whose rows, from another version, no longer parse
  FlushSize,     \* _batch_size: the write batch is written when it is this long
  MaxRetries,    \* max_retries of a notification
  Faults         \* what may fail: "disk" (a statement raises), "crash", "timeout"

ASSUME QueueAssumption ==
  /\ Unreadable \subseteq Notification
  /\ FlushSize \in Nat \ {0} /\ MaxRetries \in Nat \ {0}
  /\ Faults \subseteq {"disk", "crash", "timeout"}

VARIABLES
  status,      \* status column of each notification's row; "none": no row
  retries,     \* its retry_count column
  due,         \* its scheduled_for is NULL or past
  writeBatch,  \* _write_batch
  lock,        \* who holds _batch_lock to write the batch
  committed,   \* the holder's transaction is committed, the batch not yet cleared
  timer        \* a _batch_timer task is running

rowVars == <<status, retries, due>>
batchVars == <<writeBatch, lock, committed, timer>>
queueVars == <<rowVars, batchVars>>

\* The file may hold rows from before that cannot be read.
QueueInit ==
  /\ status = [n \in Notification |-> IF n \in Unreadable THEN "pending" ELSE "none"]
  /\ retries = [n \in Notification |-> 0]
  /\ due = [n \in Notification |-> n \in Unreadable]
  /\ writeBatch = {} /\ lock = "free" /\ committed = FALSE /\ timer = FALSE
-----------------------------------------------------------------------------
(* The write batch                                                         *)

\* Mutant: the batch is extended without taking _batch_lock.
AddToBatch_Unlocked(n) ==
  /\ n \notin writeBatch /\ status[n] = "none"
  /\ writeBatch' = writeBatch \union {n}
  /\ timer' = TRUE
  /\ lock' = IF lock = "free" /\ Cardinality(writeBatch') >= FlushSize THEN "enqueue" ELSE lock
  /\ UNCHANGED <<rowVars, committed>>

\* Mutant: a full batch starts no timer, and neither does one being filled.
AddToBatch_NoTimer(n) ==
  /\ lock = "free"
  /\ n \notin writeBatch /\ status[n] = "none"
  /\ writeBatch' = writeBatch \union {n}
  /\ lock' = IF Cardinality(writeBatch') >= FlushSize THEN "enqueue" ELSE "free"
  /\ UNCHANGED <<rowVars, committed, timer>>

\* enqueue.
AddToBatch(n) ==
  /\ lock = "free"
  /\ n \notin writeBatch /\ status[n] = "none"
  /\ writeBatch' = writeBatch \union {n}
  /\ timer' = TRUE
  /\ lock' = IF Cardinality(writeBatch') >= FlushSize THEN "enqueue" ELSE "free"
  /\ UNCHANGED <<rowVars, committed>>

TimerFires ==
  /\ timer /\ lock = "free"
  /\ IF writeBatch = {}
     THEN timer' = FALSE /\ UNCHANGED lock
     ELSE lock' = "timer" /\ UNCHANGED timer
  /\ UNCHANGED <<rowVars, writeBatch, committed>>

\* close, up to the lock; the maintenance task has no state of its own.
CloseBegins ==
  /\ lock = "free"
  /\ IF writeBatch = {}
     THEN timer' = FALSE /\ UNCHANGED lock
     ELSE lock' = "close" /\ UNCHANGED timer
  /\ UNCHANGED <<rowVars, writeBatch, committed>>

\* The lock is released; the timer task that held it is done, and close
\* cancels the timer.
Release ==
  /\ lock' = "free" /\ committed' = FALSE
  /\ timer' = (timer /\ lock = "enqueue")

\* Mutant: each row is committed on its own.
FlushCommits_RowByRow ==
  /\ lock # "free" /\ ~committed
  /\ \E m \in writeBatch : status' = [status EXCEPT ![m] = "pending"]
  /\ committed' = (\A n \in writeBatch : status'[n] # "none")
  /\ retries' = retries /\ due' = [n \in Notification |-> due[n] \/ n \in writeBatch]
  /\ UNCHANGED <<writeBatch, lock, timer>>

\* INSERT OR REPLACE of every row of the batch; some are scheduled for later.
FlushCommits ==
  /\ lock # "free" /\ ~committed
  /\ committed' = TRUE
  /\ status' = [n \in Notification |-> IF n \in writeBatch THEN "pending" ELSE status[n]]
  /\ retries' = [n \in Notification |-> IF n \in writeBatch THEN 0 ELSE retries[n]]
  /\ \E later \in SUBSET writeBatch :
       due' = [n \in Notification |-> IF n \in writeBatch THEN n \notin later ELSE due[n]]
  /\ UNCHANGED <<writeBatch, lock, timer>>

\* Mutant: the written batch is kept.
FlushEnds_KeepsBatch == committed /\ Release /\ UNCHANGED <<rowVars, writeBatch>>

FlushEnds == committed /\ writeBatch' = {} /\ Release /\ UNCHANGED rowVars

FlushFails ==
  /\ "disk" \in Faults /\ lock # "free" /\ ~committed
  /\ Release
  /\ UNCHANGED <<rowVars, writeBatch>>
-----------------------------------------------------------------------------
(* The rows                                                                *)

\* Mutant: rows being processed are selected again.
Ready_Processing == {n \in Notification : status[n] \in {"pending", "processing"} /\ due[n]}

Ready == {n \in Notification : status[n] = "pending" /\ due[n]}

\* What dequeue_batch(size) may select; which rows come first (priority, then
\* age) is left open.
Selections(size) ==
  {S \in SUBSET Ready : Cardinality(S) = IF Cardinality(Ready) < size THEN Cardinality(Ready) ELSE size}

\* Mutant: one row that does not parse ends the whole dequeue.
Parsed_AllOrNone(S) == IF S \cap Unreadable = {} THEN S ELSE {}

\* The rows of S dequeue_batch goes on with; the others stay as they are.
Parsed(S) == S \ Unreadable

\* UPDATE ... SET status = 'processing' WHERE id IN S, whatever they are by now.
MarkProcessing(S) ==
  /\ status' = [n \in Notification |->
       IF n \in S /\ status[n] # "none" THEN "processing" ELSE status[n]]
  /\ UNCHANGED <<retries, due, batchVars>>

MarkComplete(n) ==
  /\ status' = [status EXCEPT ![n] = IF @ = "none" THEN @ ELSE "sent"]
  /\ UNCHANGED <<retries, due, batchVars>>

\* Mutant: one retry too many.
MarkFailed_OffByOne(n, count) ==
  IF count <= MaxRetries /\ status[n] # "none"
  THEN /\ status' = [status EXCEPT ![n] = "pending"]
       /\ retries' = [retries EXCEPT ![n] = count]
       /\ due' = [due EXCEPT ![n] = FALSE]
       /\ UNCHANGED batchVars
  ELSE UNCHANGED queueVars

\* Mutant: a retry is scheduled but its status stays 'processing'.
MarkFailed_KeepsStatus(n, count) ==
  IF count < MaxRetries /\ status[n] # "none"
  THEN /\ retries' = [retries EXCEPT ![n] = count]
       /\ due' = [due EXCEPT ![n] = FALSE]
       /\ UNCHANGED <<status, batchVars>>
  ELSE UNCHANGED queueVars

\* The write of mark_failed, given the incremented retry_count it has read.
\* _move_to_dlq works on a connection of its own and closes it without a
\* commit, which takes back both its INSERT and its DELETE.
MarkFailed(n, count) ==
  IF count < MaxRetries /\ status[n] # "none"
  THEN /\ status' = [status EXCEPT ![n] = "pending"]
       /\ retries' = [retries EXCEPT ![n] = count]
       /\ due' = [due EXCEPT ![n] = FALSE]
       /\ UNCHANGED batchVars
  ELSE UNCHANGED queueVars

RetryDue(n) ==
  /\ status[n] = "pending" /\ ~due[n]
  /\ due' = [due EXCEPT ![n] = TRUE]
  /\ UNCHANGED <<status, retries, batchVars>>

\* cleanup_old_notifications deletes the rows sent 30 days ago or earlier.
Cleanup ==
  /\ \E old \in SUBSET {n \in Notification \ writeBatch : status[n] = "sent"} :
       /\ old # {}
       /\ status' = [n \in Notification |-> IF n \in old THEN "none" ELSE status[n]]
  /\ UNCHANGED <<retries, due, batchVars>>

\* The process is gone, or has dropped the queue object: the rows remain.
QueueForgotten ==
  /\ writeBatch' = {} /\ lock' = "free" /\ committed' = FALSE /\ timer' = FALSE
  /\ UNCHANGED rowVars
-----------------------------------------------------------------------------
\* The variables hold the values the code gives them; a retry_count below
\* max_retries is all mark_failed ever writes.
QueueTypeOK ==
  /\ status \in [Notification -> {"none", "pending", "processing", "sent"}]
  /\ retries \in [Notification -> 0..(MaxRetries - 1)]
  /\ due \in [Notification -> BOOLEAN]
  /\ writeBatch \subseteq Notification
  /\ lock \in {"free", "enqueue", "timer", "close"}
  /\ committed \in BOOLEAN /\ timer \in BOOLEAN
  /\ committed => lock # "free"
=============================================================================
