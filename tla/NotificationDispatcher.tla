----------------------- MODULE NotificationDispatcher -----------------------
(***************************************************************************)
(* backend/services/async_notification_dispatcher.py over the queue: the   *)
(* worker loop, the batches it hands to tasks of their own, calls of       *)
(* force_queue_processing, and stop and start as the notification feature  *)
(* makes them.                                                             *)
(***************************************************************************)
EXTENDS NotificationQueue

CONSTANTS
  BatchSize,      \* batch_size
  MaxConcurrent,  \* max_concurrent_batches
  Forcer,         \* callers of force_queue_processing
  ForceLimit      \* the batches one such call processes at most

ASSUME DispatcherAssumption ==
  /\ BatchSize \in Nat \ {0} /\ MaxConcurrent \in Nat \ {0} /\ ForceLimit \in Nat \ {0}
  /\ "worker" \notin Forcer /\ Forcer \cap 1..MaxConcurrent = {}

Slot == 1..MaxConcurrent           \* places of _active_batches
Handler == Slot \union Forcer      \* who runs a _process_batch
Dequeuer == {"worker"} \union Forcer

VARIABLES
  life,    \* of the feature: "down", "up", "stopping", "closing", "flushing"
  pc,      \* where each caller of dequeue_batch is
  picked,  \* the rows it has selected and not yet marked
  work,    \* each handler's _process_single_notification per notification
  active,  \* the slots that _active_batches holds
  forced,  \* processed_batches of each forcer
  tries,   \* attempts to deliver a notification, for the properties
  raced    \* notifications two dequeuers selected at once, for the properties

dispatcherVars == <<life, pc, picked, work, active, forced, tries, raced>>
vars == <<queueVars, dispatcherVars>>

Idle == [at |-> "idle", count |-> 0]
At(stage) == [at |-> stage, count |-> 0]
NoWork == [n \in Notification |-> Idle]
Busy(h) == work[h] # NoWork
Handled(n) == \E h \in Handler : work[h][n] # Idle

Init ==
  /\ QueueInit
  /\ life = "down"
  /\ pc = [d \in Dequeuer |-> "none"]
  /\ picked = [d \in Dequeuer |-> {}]
  /\ work = [h \in Handler |-> NoWork]
  /\ active = {}
  /\ forced = [f \in Forcer |-> 0]
  /\ tries = [n \in Notification |-> 0]
  /\ raced = {}

\* A notification is new, whatever its value stood for before.
Enqueue(n) ==
  /\ life # "down"
  /\ ~Handled(n) /\ \A d \in Dequeuer : n \notin picked[d]
  /\ AddToBatch(n)
  /\ tries' = [tries EXCEPT ![n] = 0] /\ raced' = raced \ {n}
  /\ UNCHANGED <<life, pc, picked, work, active, forced>>

\* What the queue does on its own.
QueueStep ==
  /\ TimerFires \/ FlushCommits \/ FlushEnds \/ FlushFails \/ Cleanup
  /\ UNCHANGED dispatcherVars

Scheduled(n) == RetryDue(n) /\ UNCHANGED dispatcherVars
-----------------------------------------------------------------------------
(* Dequeuers                                                               *)

\* The head of _worker_loop: leave, or go and dequeue if there is capacity.
WorkerChecks ==
  /\ pc["worker"] = "loop"
  /\ \/ life # "up" /\ pc' = [pc EXCEPT !["worker"] = "none"]
     \/ /\ life = "up" /\ Cardinality(active) < MaxConcurrent
        /\ pc' = [pc EXCEPT !["worker"] = "dequeuing"]
  /\ UNCHANGED <<queueVars, life, picked, work, active, forced, tries, raced>>

ForceCalled(f) ==
  /\ life = "up" /\ pc[f] = "none"
  /\ pc' = [pc EXCEPT ![f] = "dequeuing"]
  /\ forced' = [forced EXCEPT ![f] = 0]
  /\ UNCHANGED <<queueVars, life, picked, work, active, tries, raced>>

\* Where a dequeuer goes on when it got no batch.
WithoutBatch(d) == IF d = "worker" THEN "loop" ELSE "none"

\* SELECT, fetchall and parsing of dequeue_batch.
Select(d) ==
  /\ pc[d] = "dequeuing"
  /\ \E S \in Selections(BatchSize) :
       /\ picked' = [picked EXCEPT ![d] = Parsed(S)]
       /\ pc' = [pc EXCEPT ![d] = IF Parsed(S) = {} THEN WithoutBatch(d) ELSE "marking"]
  /\ raced' = raced \union {n \in picked'[d] : \E e \in Dequeuer \ {d} : n \in picked[e]}
  /\ UNCHANGED <<queueVars, life, work, active, forced, tries>>

DequeueFails(d) ==
  /\ "disk" \in Faults /\ pc[d] \in {"dequeuing", "marking"}
  /\ pc' = [pc EXCEPT ![d] = WithoutBatch(d)]
  /\ picked' = [picked EXCEPT ![d] = {}]
  /\ UNCHANGED <<queueVars, life, work, active, forced, tries, raced>>

\* Handler h starts _process_batch on what d has selected and marked.
HandOver(d, h) ==
  /\ pc[d] = "marking"
  /\ MarkProcessing(picked[d])
  /\ work' = [work EXCEPT ![h] = [n \in Notification |->
       IF n \in picked[d] THEN At("sending") ELSE Idle]]
  /\ picked' = [picked EXCEPT ![d] = {}]

\* _active_batches after a batch is added and the finished ones are removed.
Activate(s) == active' = {t \in active : Busy(t)} \union {s}

\* The slot is a name for the task: any free one will do.
FreeSlot == CHOOSE s \in Slot : s \notin active

WorkerHandsOver(s) ==
  /\ s \notin active /\ s = FreeSlot
  /\ HandOver("worker", s) /\ Activate(s)
  /\ pc' = [pc EXCEPT !["worker"] = "loop"]
  /\ UNCHANGED <<life, forced, tries, raced>>

ForceHandsOver(f) ==
  /\ HandOver(f, f)
  /\ pc' = [pc EXCEPT ![f] = "processing"]
  /\ UNCHANGED <<life, active, forced, tries, raced>>

\* Mutant: the safety limit is not looked at.
ForceDone_NoLimit(f) ==
  /\ pc[f] = "processing" /\ ~Busy(f)
  /\ pc' = [pc EXCEPT ![f] = "dequeuing"]
  /\ UNCHANGED <<queueVars, life, picked, work, active, forced, tries, raced>>

\* force_queue_processing after one of its batches.
ForceDone(f) ==
  /\ pc[f] = "processing" /\ ~Busy(f)
  /\ forced' = [forced EXCEPT ![f] = @ + 1]
  /\ pc' = [pc EXCEPT ![f] = IF forced'[f] >= ForceLimit THEN "none" ELSE "dequeuing"]
  /\ UNCHANGED <<queueVars, life, picked, work, active, tries, raced>>
-----------------------------------------------------------------------------
(* _process_single_notification                                            *)

Moves(h, n, stage) ==
  /\ work' = [work EXCEPT ![h][n] = stage]
  /\ UNCHANGED <<life, pc, picked, active, forced, raced>>

\* The recipient's side accepts the notification, or it does not.  The count
\* stops one above what a retry policy allows.
Send(h, n) ==
  /\ work[h][n].at = "sending"
  /\ \E answer \in {"delivered", "refused"} : Moves(h, n, At(answer))
  /\ tries' = [tries EXCEPT ![n] = IF @ <= MaxRetries THEN @ + 1 ELSE @]
  /\ UNCHANGED queueVars

RecordSent(h, n) ==
  /\ work[h][n].at = "delivered"
  /\ Moves(h, n, Idle) /\ MarkComplete(n)
  /\ UNCHANGED tries

\* Mutant: the count read is not incremented.
ReadRetries_NoIncrement(h, n) ==
  /\ work[h][n].at = "refused"
  /\ Moves(h, n, IF status[n] = "none" THEN Idle ELSE [at |-> "counted", count |-> retries[n]])
  /\ UNCHANGED <<queueVars, tries>>

\* mark_failed reads the row ...
ReadRetries(h, n) ==
  /\ work[h][n].at = "refused"
  /\ Moves(h, n, IF status[n] = "none" THEN Idle ELSE [at |-> "counted", count |-> retries[n] + 1])
  /\ UNCHANGED <<queueVars, tries>>

\* ... and then writes it.
RecordFailed(h, n) ==
  /\ work[h][n].at = "counted"
  /\ Moves(h, n, Idle) /\ MarkFailed(n, work[h][n].count)
  /\ UNCHANGED tries

\* mark_complete and mark_failed return False when they raise; nobody looks.
RecordLost(h, n) ==
  /\ "disk" \in Faults /\ work[h][n].at \in {"delivered", "refused", "counted"}
  /\ Moves(h, n, Idle)
  /\ UNCHANGED <<queueVars, tries>>
-----------------------------------------------------------------------------
(* The feature starts and stops its queue and its dispatcher               *)

Start ==
  /\ life = "down"
  /\ life' = "up"
  /\ pc' = [pc EXCEPT !["worker"] = "loop"]
  /\ active' = {}
  /\ UNCHANGED <<queueVars, picked, work, forced, tries, raced>>

StopCalled ==
  /\ life = "up" /\ life' = "stopping"
  /\ UNCHANGED <<queueVars, pc, picked, work, active, forced, tries, raced>>

Drained == pc["worker"] = "none" /\ \A s \in active : ~Busy(s)

StopWaits ==
  /\ life = "stopping" /\ Drained /\ life' = "closing"
  /\ UNCHANGED <<queueVars, pc, picked, work, active, forced, tries, raced>>

\* stop gives up waiting and cancels the worker and its batches.
StopTimesOut ==
  /\ "timeout" \in Faults /\ life = "stopping" /\ ~Drained
  /\ life' = "closing"
  /\ pc' = [pc EXCEPT !["worker"] = "none"]
  /\ picked' = [picked EXCEPT !["worker"] = {}]
  /\ work' = [h \in Handler |-> IF h \in Slot THEN NoWork ELSE work[h]]
  /\ UNCHANGED <<queueVars, active, forced, tries, raced>>

CloseQueue ==
  /\ life = "closing" /\ life' = "flushing" /\ CloseBegins
  /\ UNCHANGED <<pc, picked, work, active, forced, tries, raced>>

\* close has returned and the feature drops the objects.
Closed ==
  /\ life = "flushing" /\ lock = "free"
  /\ life' = "down" /\ QueueForgotten
  /\ UNCHANGED <<pc, picked, work, active, forced, tries, raced>>

Crash ==
  /\ "crash" \in Faults /\ life # "down"
  /\ life' = "down" /\ QueueForgotten
  /\ pc' = [d \in Dequeuer |-> "none"]
  /\ picked' = [d \in Dequeuer |-> {}]
  /\ work' = [h \in Handler |-> NoWork]
  /\ active' = {}
  /\ forced' = [f \in Forcer |-> 0]
  /\ UNCHANGED <<tries, raced>>
-----------------------------------------------------------------------------
Worker == WorkerChecks \/ Select("worker") \/ \E s \in Slot : WorkerHandsOver(s)
Forcing(f) == Select(f) \/ ForceHandsOver(f) \/ ForceDone(f)
Process(h, n) == Send(h, n) \/ RecordSent(h, n) \/ ReadRetries(h, n) \/ RecordFailed(h, n)
Stopping == StopWaits \/ CloseQueue \/ Closed

Next ==
  \/ \E n \in Notification : Enqueue(n) \/ Scheduled(n)
  \/ QueueStep \/ Worker
  \/ \E f \in Forcer : ForceCalled(f) \/ Forcing(f)
  \/ \E d \in Dequeuer : DequeueFails(d)
  \/ \E h \in Handler, n \in Notification : Process(h, n) \/ RecordLost(h, n)
  \/ Start \/ StopCalled \/ StopTimesOut \/ Stopping \/ Crash

Spec == Init /\ [][Next]_vars

\* Tasks go on, retries fall due, and the disk does not fail for ever.  Nobody
\* need enqueue, stop, start, force or clean up.
Fairness ==
  /\ WF_vars(TimerFires /\ UNCHANGED dispatcherVars)
  /\ SF_vars(FlushCommits /\ UNCHANGED dispatcherVars)
  /\ WF_vars(FlushEnds /\ UNCHANGED dispatcherVars)
  /\ WF_vars(WorkerChecks) /\ SF_vars(Select("worker"))
  /\ SF_vars(\E s \in Slot : WorkerHandsOver(s))
  /\ \A f \in Forcer : WF_vars(Forcing(f))
  /\ \A n \in Notification : WF_vars(Scheduled(n))
  /\ \A h \in Handler, n \in Notification : WF_vars(Process(h, n))
  /\ WF_vars(Stopping)

FairSpec == Spec /\ Fairness
-----------------------------------------------------------------------------
(* Properties                                                              *)

Stage == [at : {"idle", "sending", "delivered", "refused", "counted"}, count : 0..MaxRetries]

\* The variables hold the values the code gives them.
TypeOK ==
  /\ QueueTypeOK
  /\ life \in {"down", "up", "stopping", "closing", "flushing"}
  /\ pc \in [Dequeuer -> {"none", "loop", "dequeuing", "marking", "processing"}]
  /\ picked \in [Dequeuer -> SUBSET Notification]
  /\ work \in [Handler -> [Notification -> Stage]]
  /\ active \subseteq Slot
  /\ forced \in [Forcer -> 0..ForceLimit]
  /\ tries \in [Notification -> 0..(MaxRetries + 1)]
  /\ raced \subseteq Notification

\* A notification enqueue has accepted.
Accepted == writeBatch \union {n \in Notification : status[n] # "none"}

\* The queue and its dispatcher implement Delivery, in which nothing is promised
\* of a notification once the worker and a force_queue_processing have selected
\* it between each other's SELECT and UPDATE.
FateOf == [n \in Notification |->
  CASE status[n] # "none" /\ n \in raced         -> "doubled"
    [] status[n] = "sent" /\ n \notin raced      -> "sent"
    [] status[n] \in {"pending", "processing"} /\ n \notin raced -> "stored"
    [] status[n] = "none" /\ n \in writeBatch    -> "accepted"
    [] OTHER                                     -> "absent"]
Promise == INSTANCE Delivery WITH fate <- FateOf
DeliveryKept == Promise!Spec

\* While the feature is up, no step loses an accepted notification before it
\* is sent: neither a failed write nor one that overlaps an enqueue.
NothingVanishes ==
  [][life' # "down" => \A n \in Accepted : n \in Accepted' \/ status[n] = "sent"]_vars

\* "Mark as processing to prevent duplicate processing": that two have the same
\* notification, selected or in hand, comes of nothing but both having selected
\* it before either marked it; failed updates, lost results, crashes and stops
\* that give up waiting never lead to it.
Exclusive ==
  \A n \in Notification \ raced :
    \A h \in Handler : work[h][n] # Idle =>
      /\ \A g \in Handler \ {h} : work[g][n] = Idle
      /\ \A d \in Dequeuer : n \notin picked[d]

\* What is recorded as sent is never delivered again, restarts, failed writes
\* and forced processing included, unless two had selected it at once.
SentOnce ==
  [][\A h \in Handler, n \in Notification \ raced :
       work[h][n].at = "sending" /\ work'[h][n].at = "delivered" => status[n] # "sent"]_vars

\* mark_failed counts the first try among the retries: through any restarts,
\* lost results and forced processing a notification is tried max_retries times
\* at most, unless two had selected it at once.
TriesBounded == \A n \in Notification \ raced : tries[n] <= MaxRetries

\* A row is 'processing' only while a task has its notification in hand or
\* every try has been used up, if nothing fails and no stop times out.
HandledOrSpent ==
  \A n \in Notification : status[n] = "processing" => Handled(n) \/ tries[n] >= MaxRetries

\* An enqueued notification reaches the database without another call.
Stored == \A n \in Notification : n \in writeBatch ~> n \notin writeBatch

\* The batches in _active_batches have used up the worker's capacity, of which
\* it takes none back before it adds another.
Stalled == active = Slot

\* A notification that is due is taken up while the dispatcher runs, whatever
\* rows beside it cannot be read, if a batch has room for all that is due and
\* max_concurrent_batches batches were never under way at once.
TakenUp ==
  \A n \in Notification \ Unreadable : life = "up" /\ n \in Ready ~>
    life # "up" \/ n \notin Ready \/ Stalled \/ Cardinality(Ready) > BatchSize

\* force_queue_processing returns, however much is enqueued meanwhile.
ForceReturns == \A f \in Forcer : pc[f] # "none" ~> pc[f] = "none"
=============================================================================
