------------------------- MODULE NotificationProofs -------------------------
(***************************************************************************)
(* Theorems about the notification queue and its dispatcher for any number *)
(* of notifications, batch sizes and limits, and whatever fails.           *)
(***************************************************************************)
EXTENDS NotificationDispatcher, FiniteSetTheorems, TLAPS
-----------------------------------------------------------------------------
(* Types                                                                   *)

\* A force_queue_processing under way has batches left.
TypeInv ==
  /\ TypeOK
  /\ \A f \in Forcer : pc[f] # "none" => forced[f] < ForceLimit

LEMMA StagesTyped ==
  /\ Idle \in Stage /\ NoWork \in [Notification -> Stage]
  /\ \A s \in {"idle", "sending", "delivered", "refused", "counted"} : At(s) \in Stage
BY QueueAssumption DEF Idle, At, NoWork, Stage

\* Every action of the queue keeps its types, whoever takes it.
LEMMA QueueTyped ==
  ASSUME QueueTypeOK,
         \/ \E n \in Notification : AddToBatch(n) \/ RetryDue(n) \/ MarkComplete(n)
         \/ \E n \in Notification, k \in 0..MaxRetries : MarkFailed(n, k)
         \/ \E S \in SUBSET Notification : MarkProcessing(S)
         \/ TimerFires \/ CloseBegins \/ FlushCommits \/ FlushEnds \/ FlushFails
         \/ Cleanup \/ QueueForgotten \/ UNCHANGED queueVars
  PROVE  QueueTypeOK'
<1>1. ASSUME NEW n \in Notification, AddToBatch(n) \/ RetryDue(n) \/ MarkComplete(n) PROVE QueueTypeOK'
  <2>1. CASE AddToBatch(n)
    BY <2>1 DEF QueueTypeOK, AddToBatch, rowVars
  <2>2. CASE RetryDue(n)
    BY <2>2 DEF QueueTypeOK, RetryDue, batchVars
  <2>3. CASE MarkComplete(n)
    BY <2>3 DEF QueueTypeOK, MarkComplete, batchVars
  <2> QED BY <1>1, <2>1, <2>2, <2>3
<1>2. ASSUME NEW n \in Notification, NEW k \in 0..MaxRetries, MarkFailed(n, k) PROVE QueueTypeOK'
  <2>1. CASE UNCHANGED queueVars
    BY <2>1 DEF QueueTypeOK, queueVars, rowVars, batchVars
  <2>2. CASE ~UNCHANGED queueVars
    <3>1. k < MaxRetries /\ k \in 0..(MaxRetries - 1)
      BY <1>2, <2>2, QueueAssumption DEF MarkFailed
    <3>2. /\ status' = [status EXCEPT ![n] = "pending"] /\ due' = [due EXCEPT ![n] = FALSE]
          /\ retries' = [retries EXCEPT ![n] = k] /\ UNCHANGED batchVars
      BY <1>2, <2>2 DEF MarkFailed
    <3> QED BY <3>1, <3>2 DEF QueueTypeOK, batchVars
  <2> QED BY <2>1, <2>2
<1>3. ASSUME NEW S \in SUBSET Notification, MarkProcessing(S) PROVE QueueTypeOK'
  BY <1>3 DEF QueueTypeOK, MarkProcessing, batchVars
<1>4. CASE TimerFires \/ CloseBegins
  <2>1. CASE writeBatch = {}
    <3>1. timer' = FALSE /\ UNCHANGED <<rowVars, writeBatch, lock, committed>>
      BY <1>4, <2>1 DEF TimerFires, CloseBegins
    <3> QED BY <3>1 DEF QueueTypeOK, rowVars
  <2>2. CASE writeBatch # {}
    BY <1>4, <2>2 DEF QueueTypeOK, TimerFires, CloseBegins, rowVars
  <2> QED BY <2>1, <2>2
<1>5. CASE FlushCommits
  <2>1. retries' \in [Notification -> 0..(MaxRetries - 1)]
    BY <1>5, QueueAssumption DEF QueueTypeOK, FlushCommits
  <2>2. due' \in [Notification -> BOOLEAN]
    BY <1>5 DEF QueueTypeOK, FlushCommits
  <2>3. status' \in [Notification -> {"none", "pending", "processing", "sent"}]
    BY <1>5 DEF QueueTypeOK, FlushCommits
  <2> QED BY <1>5, <2>1, <2>2, <2>3 DEF QueueTypeOK, FlushCommits
<1>6. CASE FlushEnds \/ FlushFails \/ QueueForgotten
  BY <1>6 DEF QueueTypeOK, FlushEnds, FlushFails, QueueForgotten, Release, rowVars
<1>7. CASE Cleanup
  BY <1>7 DEF QueueTypeOK, Cleanup, batchVars
<1>8. CASE UNCHANGED queueVars
  BY <1>8 DEF QueueTypeOK, queueVars, rowVars, batchVars
<1> QED BY <1>1, <1>2, <1>3, <1>4, <1>5, <1>6, <1>7, <1>8

\* The dispatcher's half of the type invariant.
DispatcherTyped ==
  /\ life \in {"down", "up", "stopping", "closing", "flushing"}
  /\ pc \in [Dequeuer -> {"none", "loop", "dequeuing", "marking", "processing"}]
  /\ picked \in [Dequeuer -> SUBSET Notification]
  /\ work \in [Handler -> [Notification -> Stage]]
  /\ active \subseteq Slot
  /\ forced \in [Forcer -> 0..ForceLimit]
  /\ tries \in [Notification -> 0..(MaxRetries + 1)]
  /\ raced \subseteq Notification
  /\ \A f \in Forcer : pc[f] # "none" => forced[f] < ForceLimit

LEMMA TypeInvSplit == TypeInv <=> QueueTypeOK /\ DispatcherTyped
BY DEF TypeInv, TypeOK, DispatcherTyped

LEMMA TypeStep == TypeInv /\ [Next]_vars => TypeInv'
<1> SUFFICES ASSUME QueueTypeOK, DispatcherTyped, [Next]_vars
             PROVE  QueueTypeOK' /\ DispatcherTyped'
  BY TypeInvSplit, PTL
<1> USE DEF DispatcherTyped
<1>1. CASE \E n \in Notification : Enqueue(n)
  <2>1. QueueTypeOK'
    BY <1>1, QueueTyped DEF Enqueue
  <2>2. tries' \in [Notification -> 0..(MaxRetries + 1)]
    BY <1>1, QueueAssumption DEF Enqueue
  <2> QED BY <1>1, <2>1, <2>2 DEF Enqueue
<1>2. CASE \E n \in Notification : Scheduled(n)
  BY <1>2, QueueTyped DEF Scheduled, dispatcherVars
<1>3. CASE QueueStep
  BY <1>3, QueueTyped DEF QueueStep, dispatcherVars
<1>4. CASE WorkerChecks
  BY <1>4, QueueTyped DEF WorkerChecks, Dequeuer
<1>5. ASSUME NEW d \in Dequeuer, Select(d) \/ DequeueFails(d) PROVE QueueTypeOK' /\ DispatcherTyped'
  <2>1. \A S \in Selections(BatchSize) : Parsed(S) \in SUBSET Notification
    BY DEF Selections, Ready, Parsed
  <2>2. WithoutBatch(d) \in {"none", "loop"} /\ (d \in Forcer => WithoutBatch(d) = "none")
    BY DispatcherAssumption DEF WithoutBatch
  <2>3. QueueTypeOK'
    BY <1>5, QueueTyped DEF Select, DequeueFails
  <2>4. picked' \in [Dequeuer -> SUBSET Notification]
    BY <1>5, <2>1 DEF Select, DequeueFails
  <2>5. PICK point \in {"none", "loop", "marking"} :
          pc' = [pc EXCEPT ![d] = point] /\ (d \in Forcer => point # "loop") /\ pc[d] # "none"
    BY <1>5, <2>2 DEF Select, DequeueFails
  <2>6. pc' \in [Dequeuer -> {"none", "loop", "dequeuing", "marking", "processing"}]
        /\ \A f \in Forcer : pc'[f] # "none" => forced[f] < ForceLimit
    BY <2>5 DEF Dequeuer
  <2>7. raced' \subseteq Notification
    BY <1>5, <2>4 DEF Select, DequeueFails
  <2> QED BY <1>5, <2>3, <2>4, <2>6, <2>7 DEF Select, DequeueFails
<1>6. ASSUME NEW s \in Slot, WorkerHandsOver(s) PROVE QueueTypeOK' /\ DispatcherTyped'
  <2>1. QueueTypeOK' /\ picked' \in [Dequeuer -> SUBSET Notification]
        /\ work' \in [Handler -> [Notification -> Stage]]
    BY <1>6, QueueTyped, StagesTyped DEF WorkerHandsOver, HandOver, Dequeuer, Handler
  <2>2. active' \subseteq Slot
    BY <1>6 DEF WorkerHandsOver, Activate
  <2>3. pc' = [pc EXCEPT !["worker"] = "loop"] /\ UNCHANGED <<life, forced, tries, raced>>
    BY <1>6 DEF WorkerHandsOver
  <2> QED BY <2>1, <2>2, <2>3, DispatcherAssumption DEF Dequeuer
<1>7. ASSUME NEW f \in Forcer, ForceHandsOver(f) PROVE QueueTypeOK' /\ DispatcherTyped'
  <2>1. QueueTypeOK' /\ picked' \in [Dequeuer -> SUBSET Notification]
        /\ work' \in [Handler -> [Notification -> Stage]]
    BY <1>7, QueueTyped, StagesTyped DEF ForceHandsOver, HandOver, Dequeuer, Handler
  <2>2. pc[f] # "none" /\ pc' = [pc EXCEPT ![f] = "processing"] /\ UNCHANGED <<life, active, forced, tries, raced>>
    BY <1>7 DEF ForceHandsOver, HandOver
  <2> QED BY <2>1, <2>2 DEF Dequeuer
<1>8. ASSUME NEW f \in Forcer, ForceCalled(f) \/ ForceDone(f) PROVE QueueTypeOK' /\ DispatcherTyped'
  <2>1. QueueTypeOK'
    BY <1>8, QueueTyped DEF ForceCalled, ForceDone
  <2>2. CASE ForceCalled(f)
    BY <2>1, <2>2, DispatcherAssumption DEF ForceCalled, Dequeuer
  <2>3. CASE ForceDone(f)
    <3>1. forced[f] + 1 \in 0..ForceLimit
      BY <2>3, DispatcherAssumption DEF ForceDone
    <3>2. forced' \in [Forcer -> 0..ForceLimit] /\ forced'[f] = forced[f] + 1
      BY <2>3, <3>1 DEF ForceDone
    <3>3. CASE forced'[f] >= ForceLimit
      BY <2>1, <2>3, <3>2, <3>3, DispatcherAssumption DEF ForceDone, Dequeuer
    <3>4. CASE forced'[f] < ForceLimit
      BY <2>1, <2>3, <3>2, <3>4, DispatcherAssumption DEF ForceDone, Dequeuer
    <3> QED BY <3>2, <3>3, <3>4, DispatcherAssumption
  <2> QED BY <1>8, <2>2, <2>3
<1>9. ASSUME NEW h \in Handler, NEW n \in Notification, Process(h, n) \/ RecordLost(h, n)
      PROVE  QueueTypeOK' /\ DispatcherTyped'
  <2>1. ASSUME NEW stage \in Stage, Moves(h, n, stage), QueueTypeOK',
               tries' \in [Notification -> 0..(MaxRetries + 1)]
        PROVE  QueueTypeOK' /\ DispatcherTyped'
    BY <2>1 DEF Moves
  <2>2. CASE Send(h, n)
    <3>1. tries' \in [Notification -> 0..(MaxRetries + 1)]
      BY <2>2, QueueAssumption DEF Send
    <3>2. QueueTypeOK'
      BY <2>2, QueueTyped DEF Send
    <3>3. PICK answer \in {"delivered", "refused"} : Moves(h, n, At(answer))
      BY <2>2 DEF Send
    <3> QED BY <2>1, <3>1, <3>2, <3>3, StagesTyped
  <2>3. CASE RecordSent(h, n)
    BY <2>1, <2>3, QueueTyped, StagesTyped DEF RecordSent
  <2>4. CASE ReadRetries(h, n)
    <3>1. retries[n] + 1 \in 0..MaxRetries
      BY QueueAssumption DEF QueueTypeOK
    <3>2. [at |-> "counted", count |-> retries[n] + 1] \in Stage
      BY <3>1 DEF Stage
    <3> QED BY <2>1, <2>4, <3>2, QueueTyped, StagesTyped DEF ReadRetries
  <2>5. CASE RecordFailed(h, n)
    <3>1. work[h][n].count \in 0..MaxRetries
      BY DEF Stage
    <3> QED BY <2>1, <2>5, <3>1, QueueTyped, StagesTyped DEF RecordFailed
  <2>6. CASE RecordLost(h, n)
    BY <2>1, <2>6, QueueTyped, StagesTyped DEF RecordLost
  <2> QED BY <1>9, <2>2, <2>3, <2>4, <2>5, <2>6 DEF Process
<1>10. CASE Start \/ StopCalled \/ StopWaits
  <2>1. QueueTypeOK'
    BY <1>10, QueueTyped DEF Start, StopCalled, StopWaits
  <2>2. CASE Start
    BY <2>1, <2>2, DispatcherAssumption DEF Start, Dequeuer
  <2>3. CASE StopCalled \/ StopWaits
    BY <2>1, <2>3 DEF StopCalled, StopWaits
  <2> QED BY <1>10, <2>2, <2>3
<1>11. CASE StopTimesOut
  <2>1. QueueTypeOK'
    BY <1>11, QueueTyped DEF StopTimesOut
  <2> QED BY <1>11, <2>1, StagesTyped DEF StopTimesOut, Dequeuer
<1>12. CASE CloseQueue \/ Closed
  BY <1>12, QueueTyped DEF CloseQueue, Closed
<1>13. CASE Crash
  <2>1. QueueTypeOK'
    BY <1>13, QueueTyped DEF Crash
  <2>2. forced' \in [Forcer -> 0..ForceLimit] /\ \A f \in Forcer : forced'[f] < ForceLimit
    BY <1>13, DispatcherAssumption DEF Crash
  <2>3. pc' \in [Dequeuer -> {"none"}] /\ picked' \in [Dequeuer -> SUBSET Notification]
    BY <1>13 DEF Crash
  <2>4. work' \in [Handler -> [Notification -> Stage]]
    BY <1>13, StagesTyped DEF Crash
  <2> QED BY <1>13, <2>1, <2>2, <2>3, <2>4 DEF Crash
<1>14. CASE UNCHANGED vars
  BY <1>14, QueueTyped DEF vars, dispatcherVars
<1> HIDE DEF DispatcherTyped
<1>15. ASSUME Worker PROVE QueueTypeOK' /\ DispatcherTyped'
  <2>1. "worker" \in Dequeuer
    BY DEF Dequeuer
  <2> QED BY <1>15, <1>4, <1>5, <1>6, <2>1 DEF Worker
<1>16. ASSUME NEW f \in Forcer, Forcing(f) PROVE QueueTypeOK' /\ DispatcherTyped'
  <2>1. f \in Dequeuer
    BY DEF Dequeuer
  <2> QED BY <1>16, <1>5, <1>7, <1>8, <2>1 DEF Forcing
<1> QED BY <1>1, <1>2, <1>3, <1>5, <1>8, <1>9, <1>10, <1>11, <1>12, <1>13, <1>14, <1>15, <1>16
        DEF Next, Stopping

LEMMA InitTyped == Init => TypeInv
<1>1. ASSUME QueueInit PROVE QueueTypeOK
  <2>1. 0 \in 0..(MaxRetries - 1)
    BY QueueAssumption
  <2>2. retries \in [Notification -> 0..(MaxRetries - 1)]
    BY <1>1, <2>1 DEF QueueInit
  <2>3. status \in [Notification -> {"none", "pending", "processing", "sent"}]
    BY <1>1 DEF QueueInit
  <2>4. due \in [Notification -> BOOLEAN]
    BY <1>1 DEF QueueInit
  <2> QED BY <1>1, <2>2, <2>3, <2>4 DEF QueueInit, QueueTypeOK
<1>2. ASSUME Init PROVE DispatcherTyped
  BY <1>2, StagesTyped, QueueAssumption, DispatcherAssumption DEF Init, DispatcherTyped, Dequeuer
<1> QED BY <1>1, <1>2, TypeInvSplit DEF Init

\* The variables have their types in every reachable state.
THEOREM NotificationTypes == Spec => []TypeOK
<1>1. Init => TypeInv
  BY InitTyped
<1>2. TypeInv => TypeOK
  BY DEF TypeInv
<1> QED BY <1>1, <1>2, TypeStep, PTL DEF Spec
-----------------------------------------------------------------------------
(* Accepted notifications                                                  *)

\* The rows of the batch appear when its transaction commits.
BatchInv == \A n \in writeBatch : (status[n] = "none") <=> ~committed

\* A step of a dequeuer or a handler, or of the feature itself, neither makes
\* nor removes a row and leaves the batch alone.
LEMMA DispatcherKeepsRows ==
  ASSUME TypeInv,
         \/ \E n \in Notification : Scheduled(n)
         \/ WorkerChecks \/ \E s \in Slot : WorkerHandsOver(s)
         \/ \E d \in Dequeuer : Select(d) \/ DequeueFails(d)
         \/ \E f \in Forcer : ForceCalled(f) \/ ForceHandsOver(f) \/ ForceDone(f)
         \/ \E h \in Handler, n \in Notification : Process(h, n) \/ RecordLost(h, n)
         \/ Start \/ StopCalled \/ StopTimesOut \/ StopWaits \/ UNCHANGED vars
  PROVE  UNCHANGED batchVars /\ \A n \in Notification : status[n] = "none" <=> status'[n] = "none"
<1>1. status \in [Notification -> {"none", "pending", "processing", "sent"}]
  BY DEF TypeInv, TypeOK, QueueTypeOK
<1>2. CASE UNCHANGED queueVars
  BY <1>2 DEF queueVars, rowVars
<1>3. ASSUME NEW n \in Notification, Scheduled(n) PROVE UNCHANGED <<status, batchVars>>
  BY <1>3 DEF Scheduled, RetryDue
<1>4. \A S : MarkProcessing(S) =>
        UNCHANGED batchVars /\ \A n \in Notification : status[n] = "none" <=> status'[n] = "none"
  BY <1>1 DEF MarkProcessing
<1>5. ASSUME NEW h \in Handler, NEW n \in Notification, Process(h, n) \/ RecordLost(h, n)
      PROVE  UNCHANGED batchVars /\ \A m \in Notification : status[m] = "none" <=> status'[m] = "none"
  <2>1. CASE RecordSent(h, n)
    BY <1>1, <2>1 DEF RecordSent, MarkComplete
  <2>2. CASE RecordFailed(h, n)
    BY <1>1, <1>2, <2>2 DEF RecordFailed, MarkFailed
  <2>3. CASE Send(h, n) \/ ReadRetries(h, n) \/ RecordLost(h, n)
    BY <1>2, <2>3 DEF Send, ReadRetries, RecordLost
  <2> QED BY <1>5, <2>1, <2>2, <2>3 DEF Process
<1>6. CASE \/ \E s \in Slot : WorkerHandsOver(s)
           \/ \E f \in Forcer : ForceHandsOver(f)
  BY <1>4, <1>6 DEF WorkerHandsOver, ForceHandsOver, HandOver
<1>7. CASE \/ WorkerChecks \/ \E d \in Dequeuer : Select(d) \/ DequeueFails(d)
           \/ \E f \in Forcer : ForceCalled(f) \/ ForceDone(f)
           \/ Start \/ StopCalled \/ StopTimesOut \/ StopWaits \/ UNCHANGED vars
  BY <1>2, <1>7 DEF WorkerChecks, Select, DequeueFails, ForceCalled, ForceDone, Start,
                    StopCalled, StopTimesOut, StopWaits, vars
<1> QED BY <1>3, <1>5, <1>6, <1>7

\* What one step may do to the accepted notifications.
Keeps == life' # "down" => \A n \in Accepted : n \in Accepted' \/ status[n] = "sent"

LEMMA BatchStep ==
  ASSUME TypeInv, BatchInv, [Next]_vars
  PROVE  BatchInv' /\ Keeps
<1>1. /\ status \in [Notification -> {"none", "pending", "processing", "sent"}]
      /\ writeBatch \subseteq Notification /\ committed \in BOOLEAN
  BY DEF TypeInv, TypeOK, QueueTypeOK
<1> USE DEF BatchInv, Keeps, Accepted
<1>2. CASE UNCHANGED batchVars /\ \A n \in Notification : status[n] = "none" <=> status'[n] = "none"
  BY <1>1, <1>2 DEF batchVars
<1>3. ASSUME NEW n \in Notification, Enqueue(n) PROVE BatchInv' /\ Keeps
  <2>1. status' = status /\ committed' = committed /\ writeBatch' = writeBatch \union {n}
    BY <1>3 DEF Enqueue, AddToBatch, rowVars
  <2>2. status[n] = "none" /\ committed = FALSE
    BY <1>3 DEF Enqueue, AddToBatch, TypeInv, TypeOK, QueueTypeOK
  <2> QED BY <2>1, <2>2
<1>4. CASE TimerFires \/ CloseQueue
  BY <1>4 DEF TimerFires, CloseQueue, CloseBegins, rowVars
<1>5. CASE FlushCommits
  <2>1. \A n \in Notification : status'[n] = IF n \in writeBatch THEN "pending" ELSE status[n]
    BY <1>5 DEF FlushCommits
  <2>2. committed' = TRUE /\ writeBatch' = writeBatch
    BY <1>5 DEF FlushCommits
  <2> QED BY <1>1, <2>1, <2>2
<1>6. CASE FlushEnds
  BY <1>1, <1>6 DEF FlushEnds, rowVars
<1>7. CASE FlushFails
  BY <1>1, <1>7 DEF FlushFails, Release, rowVars
<1>8. CASE Cleanup
  <2>1. UNCHANGED batchVars
    BY <1>8 DEF Cleanup
  <2>2. PICK old \in SUBSET {n \in Notification \ writeBatch : status[n] = "sent"} :
          status' = [n \in Notification |-> IF n \in old THEN "none" ELSE status[n]]
    BY <1>8 DEF Cleanup
  <2>3. BatchInv'
    BY <1>1, <2>1, <2>2 DEF batchVars
  <2>4. Keeps
    BY <1>1, <2>1, <2>2 DEF batchVars
  <2> QED BY <2>3, <2>4
<1>9. CASE Closed \/ Crash
  BY <1>9 DEF Closed, Crash, QueueForgotten
<1> HIDE DEF BatchInv, Keeps
<1> QED BY <1>2, <1>3, <1>4, <1>5, <1>6, <1>7, <1>8, <1>9, DispatcherKeepsRows
        DEF Next, QueueStep, Worker, Forcing, Stopping, Dequeuer

\* No step but a crash, or the end of a shutdown, loses a notification that was
\* accepted and not yet sent: failed writes, writes that overlap an enqueue,
\* forced processing and timed-out stops included.
THEOREM NothingLost == Spec => NothingVanishes
<1>1. Init => TypeInv
  BY InitTyped
<1>2. Init => BatchInv
  BY DEF Init, QueueInit, BatchInv
<1>3. TypeInv /\ BatchInv /\ [Next]_vars => BatchInv'
  BY BatchStep
<1>4. TypeInv /\ BatchInv /\ [Next]_vars
        => [life' # "down" => \A n \in Accepted : n \in Accepted' \/ status[n] = "sent"]_vars
  BY BatchStep DEF Keeps
<1> QED BY <1>1, <1>2, <1>3, <1>4, TypeStep, PTL DEF Spec, NothingVanishes
-----------------------------------------------------------------------------
(* One batch at a time, but for what two have selected at once             *)

\* A notification in a batch's hands is marked so and in no other's; one that
\* is selected still waits, and only one has selected it.
Held(n) ==
  /\ \A h \in Handler : work[h][n] # Idle =>
       status[n] = "processing" /\ \A g \in Handler : work[g][n] # Idle => g = h
  /\ \A d \in Dequeuer : n \in picked[d] =>
       status[n] = "pending" /\ \A e \in Dequeuer : n \in picked[e] => e = d

HandInv == \A n \in Notification \ raced : Held(n)

\* Notification n keeps its place: what is in hand or selected stays as it is,
\* or is let go.
Kept(n) ==
  /\ \A h \in Handler : work'[h][n] # Idle => work[h][n] # Idle
  /\ \A d \in Dequeuer : n \in picked'[d] => n \in picked[d]
  /\ \/ status'[n] = status[n]
     \/ (\A d \in Dequeuer : n \notin picked[d]) /\ \A h \in Handler : work'[h][n] = Idle

LEMMA KeptHeld ==
  ASSUME NEW n \in Notification, Held(n), Kept(n)
  PROVE  Held(n)'
BY DEF Held, Kept

LEMMA KeptKeeps ==
  ASSUME HandInv, raced' = raced, \A n \in Notification \ raced : Kept(n)
  PROVE  HandInv'
BY KeptHeld DEF HandInv

\* What Moves does, entry by entry.
LEMMA MovesEntries ==
  ASSUME TypeInv, NEW h \in Handler, NEW n \in Notification, NEW stage, Moves(h, n, stage)
  PROVE  /\ work'[h][n] = stage
         /\ \A g \in Handler, m \in Notification : g # h \/ m # n => work'[g][m] = work[g][m]
         /\ picked' = picked
BY DEF TypeInv, TypeOK, Moves

\* A stage other than "idle" is a notification in hand.
LEMMA StagesBusy ==
  /\ Idle.at = "idle"
  /\ \A s \in {"sending", "delivered", "refused"} : At(s) # Idle /\ At(s).at = s
BY DEF Idle, At

\* What a dequeuer hands over was selected by it alone.
LEMMA HandOverHeld ==
  ASSUME TypeInv, HandInv, NEW d \in Dequeuer, NEW h \in Handler, HandOver(d, h),
         NEW n \in Notification \ raced
  PROVE  Held(n)'
<1>1. /\ status'[n] = IF n \in picked[d] /\ status[n] # "none" THEN "processing" ELSE status[n]
      /\ picked' = [picked EXCEPT ![d] = {}]
      /\ work'[h][n] # Idle => n \in picked[d]
      /\ \A g \in Handler \ {h} : work'[g] = work[g]
  BY DEF HandOver, MarkProcessing, TypeInv, TypeOK
<1>2. Held(n)
  BY DEF HandInv
<1>3. CASE n \in picked[d]
  <2>1. status[n] = "pending" /\ (\A g \in Handler : work[g][n] = Idle)
        /\ \A e \in Dequeuer \ {d} : n \notin picked[e]
    BY <1>2, <1>3 DEF Held
  <2>2. \A e \in Dequeuer : n \notin picked'[e]
    BY <1>1, <2>1 DEF TypeInv, TypeOK
  <2> QED BY <1>1, <1>3, <2>1, <2>2 DEF Held
<1>4. CASE n \notin picked[d]
  <2>1. \A e \in Dequeuer : n \in picked'[e] => n \in picked[e]
    BY <1>1 DEF TypeInv, TypeOK
  <2>2. Kept(n)
    BY <1>1, <1>4, <2>1 DEF Kept
  <2> QED BY <1>2, <2>2, KeptHeld
<1> QED BY <1>3, <1>4

LEMMA HandStep ==
  ASSUME TypeInv, BatchInv, HandInv, [Next]_vars
  PROVE  HandInv'
<1>1. /\ status \in [Notification -> {"none", "pending", "processing", "sent"}]
      /\ writeBatch \subseteq Notification
      /\ picked \in [Dequeuer -> SUBSET Notification]
      /\ work \in [Handler -> [Notification -> Stage]]
      /\ Slot \subseteq Handler /\ Forcer \subseteq Handler
      /\ "worker" \in Dequeuer /\ Forcer \subseteq Dequeuer
  BY DEF TypeInv, TypeOK, QueueTypeOK, Handler, Dequeuer
<1>2. CASE UNCHANGED <<status, picked, work, raced>>
  BY <1>2, KeptKeeps DEF Kept
<1>3. CASE FlushCommits /\ UNCHANGED dispatcherVars
  <2>1. \A n \in writeBatch : status[n] = "none"
    BY <1>3 DEF FlushCommits, BatchInv
  <2>2. \A n \in Notification : n \notin writeBatch => status'[n] = status[n]
    BY <1>3 DEF FlushCommits
  <2>3. \A n \in writeBatch \ raced :
          (\A d \in Dequeuer : n \notin picked[d]) /\ \A h \in Handler : work[h][n] = Idle
    BY <1>1, <2>1 DEF HandInv, Held
  <2> QED BY <1>3, <2>2, <2>3, KeptKeeps DEF Kept, dispatcherVars
<1>4. CASE Cleanup /\ UNCHANGED dispatcherVars
  <2>1. \A n \in Notification : status'[n] = status[n] \/ status[n] = "sent"
    BY <1>4 DEF Cleanup
  <2>2. \A n \in Notification \ raced : status[n] = "sent" =>
          (\A d \in Dequeuer : n \notin picked[d]) /\ \A h \in Handler : work[h][n] = Idle
    BY DEF HandInv, Held
  <2> QED BY <1>4, <2>1, <2>2, KeptKeeps DEF Kept, dispatcherVars
<1>5. ASSUME NEW d \in Dequeuer, Select(d) PROVE HandInv'
  <2>1. PICK S \in Selections(BatchSize) : picked' = [picked EXCEPT ![d] = Parsed(S)]
    BY <1>5 DEF Select
  <2>2. Parsed(S) \subseteq Ready
    BY DEF Selections, Parsed
  <2>3. UNCHANGED <<status, work>>
    BY <1>5 DEF Select, queueVars, rowVars
  <2>4. raced' = raced \union {n \in picked'[d] : \E e \in Dequeuer \ {d} : n \in picked[e]}
    BY <1>5 DEF Select
  <2>5. ASSUME NEW n \in Notification \ raced' PROVE Held(n)'
    <3>1. n \notin raced /\ Held(n)
      BY <2>4, <2>5 DEF HandInv
    <3>2. CASE n \notin Parsed(S)
      BY <1>1, <2>1, <2>3, <3>1, <3>2 DEF Held
    <3>3. CASE n \in Parsed(S)
      <4>1. \A e \in Dequeuer : n \in picked'[e] => e = d
        BY <1>1, <2>1, <2>4, <2>5, <3>3
      <4>2. status[n] = "pending"
        BY <2>2, <3>3 DEF Ready
      <4> QED BY <2>3, <3>1, <4>1, <4>2 DEF Held
    <3> QED BY <3>2, <3>3
  <2> QED BY <2>5 DEF HandInv
<1>6. ASSUME NEW d \in Dequeuer, DequeueFails(d) PROVE HandInv'
  BY <1>1, <1>6, KeptKeeps DEF DequeueFails, Kept, queueVars, rowVars
<1>7. ASSUME NEW s \in Slot, WorkerHandsOver(s) PROVE HandInv'
  BY <1>1, <1>7, HandOverHeld DEF WorkerHandsOver, HandInv
<1>8. ASSUME NEW f \in Forcer, ForceHandsOver(f) PROVE HandInv'
  BY <1>1, <1>8, HandOverHeld DEF ForceHandsOver, HandInv
<1>9. ASSUME NEW h \in Handler, NEW n \in Notification, Process(h, n) \/ RecordLost(h, n) PROVE HandInv'
  <2>1. work[h][n] # Idle
    BY <1>9, StagesBusy DEF Process, Send, RecordSent, ReadRetries, RecordFailed, RecordLost
  <2>2. PICK stage : Moves(h, n, stage)
    BY <1>9 DEF Process, Send, RecordSent, ReadRetries, RecordFailed, RecordLost
  <2>3. \A m \in Notification \ {n} : status'[m] = status[m]
    BY <1>1, <1>9 DEF Process, Send, RecordSent, ReadRetries, RecordFailed, RecordLost,
                      MarkComplete, MarkFailed, queueVars, rowVars
  <2>4. status'[n] = status[n] \/ work'[h][n] = Idle
    <3>1. CASE Send(h, n) \/ ReadRetries(h, n) \/ RecordLost(h, n)
      BY <3>1 DEF Send, ReadRetries, RecordLost, queueVars, rowVars
    <3>2. CASE RecordSent(h, n) \/ RecordFailed(h, n)
      BY <3>2, MovesEntries DEF RecordSent, RecordFailed
    <3> QED BY <1>9, <3>1, <3>2 DEF Process
  <2>5. n \notin raced =>
          (\A d \in Dequeuer : n \notin picked[d]) /\ \A g \in Handler \ {h} : work[g][n] = Idle
    BY <2>1 DEF HandInv, Held
  <2>6. \A m \in Notification \ raced : Kept(m)
    BY <2>1, <2>2, <2>3, <2>4, <2>5, MovesEntries DEF Kept
  <2>7. raced' = raced
    BY <2>2 DEF Moves
  <2> QED BY <2>6, <2>7, KeptKeeps
<1>10. CASE StopTimesOut \/ Crash
  <2>1. \A h \in Handler, n \in Notification : work'[h][n] # Idle => work[h][n] # Idle
    BY <1>1, <1>10 DEF StopTimesOut, Crash, NoWork
  <2>2. \A d \in Dequeuer : picked'[d] \subseteq picked[d]
    BY <1>1, <1>10 DEF StopTimesOut, Crash
  <2>3. UNCHANGED <<status, raced>>
    BY <1>10 DEF StopTimesOut, Crash, QueueForgotten, queueVars, rowVars
  <2> QED BY <2>1, <2>2, <2>3, KeptKeeps DEF Kept
<1>11. ASSUME NEW n \in Notification, Enqueue(n) PROVE HandInv'
  <2>1. UNCHANGED <<status, picked, work>> /\ raced' = raced \ {n}
    BY <1>11 DEF Enqueue, AddToBatch, rowVars
  <2>2. (\A h \in Handler : work[h][n] = Idle) /\ \A d \in Dequeuer : n \notin picked[d]
    BY <1>11 DEF Enqueue, Handled
  <2> QED BY <2>1, <2>2 DEF HandInv, Held
<1>12. CASE \/ \E n \in Notification : Scheduled(n)
            \/ (TimerFires \/ FlushEnds \/ FlushFails) /\ UNCHANGED dispatcherVars
            \/ WorkerChecks \/ (\E f \in Forcer : ForceCalled(f) \/ ForceDone(f))
            \/ Start \/ StopCalled \/ Stopping \/ UNCHANGED vars
  BY <1>2, <1>12 DEF Scheduled, RetryDue, TimerFires, FlushEnds, FlushFails, ForceCalled, ForceDone,
    dispatcherVars, WorkerChecks, Start, StopCalled, Stopping, StopWaits, CloseQueue, CloseBegins,
    Closed, QueueForgotten, vars, queueVars, rowVars
<1> QED BY <1>1, <1>3, <1>4, <1>5, <1>6, <1>7, <1>8, <1>9, <1>10, <1>11, <1>12
        DEF Next, QueueStep, Worker, Forcing

\* No notification is in two batches, or selected while one has it, with the
\* worker and any number of forced processings, whatever crashes, failed
\* statements and timed-out stops there are, unless two had selected it between
\* each other's SELECT and UPDATE.
THEOREM NeverTwice == Spec => []Exclusive
<1>1. Init => TypeInv /\ BatchInv /\ HandInv
  BY InitTyped DEF Init, QueueInit, BatchInv, HandInv, Held, NoWork
<1>2. TypeInv /\ BatchInv /\ HandInv /\ [Next]_vars => TypeInv' /\ BatchInv' /\ HandInv'
  BY TypeStep, BatchStep, HandStep
<1>3. HandInv => Exclusive
  BY DEF HandInv, Held, Exclusive
<1> QED BY <1>1, <1>2, <1>3, PTL DEF Spec

\* Nor is such a notification delivered again once it is recorded as sent.
THEOREM SentStays == Spec => SentOnce
<1>1. Init => TypeInv /\ BatchInv /\ HandInv
  BY InitTyped DEF Init, QueueInit, BatchInv, HandInv, Held, NoWork
<1>2. TypeInv /\ BatchInv /\ HandInv /\ [Next]_vars => TypeInv' /\ BatchInv' /\ HandInv'
  BY TypeStep, BatchStep, HandStep
<1>3. HandInv /\ [Next]_vars =>
        [\A h \in Handler, n \in Notification \ raced :
           work[h][n].at = "sending" /\ work'[h][n].at = "delivered" => status[n] # "sent"]_vars
  BY StagesBusy DEF HandInv, Held
<1> QED BY <1>1, <1>2, <1>3, PTL DEF Spec, SentOnce
-----------------------------------------------------------------------------
(* Tries                                                                   *)

\* The retry_count of a row that will be used again counts its tries.
Counted(n) ==
  /\ tries[n] <= MaxRetries
  /\ n \in writeBatch /\ ~committed => tries[n] = 0
  /\ status[n] = "pending" => tries[n] = retries[n]
  /\ \A h \in Handler :
       /\ work[h][n].at = "sending" => tries[n] = retries[n]
       /\ work[h][n].at \in {"delivered", "refused", "counted"} => tries[n] = retries[n] + 1
       /\ work[h][n].at = "counted" => work[h][n].count = retries[n] + 1

TriesInv == \A n \in Notification \ raced : Counted(n)

\* Nothing about the tries of n changes, or what counted them is let go.
SameTries(n) ==
  /\ tries'[n] = tries[n]
  /\ n \in writeBatch' /\ ~committed' => n \in writeBatch /\ ~committed
  /\ status'[n] = "pending" => status[n] = "pending"
  /\ retries'[n] = retries[n]
  /\ \A h \in Handler : work'[h][n] \in {work[h][n], Idle}

LEMMA SameCounted ==
  ASSUME NEW n \in Notification, Counted(n), SameTries(n)
  PROVE  Counted(n)'
BY StagesBusy DEF Counted, SameTries

LEMMA SameTriesKeep ==
  ASSUME TriesInv, raced \subseteq raced', \A n \in Notification \ raced : SameTries(n)
  PROVE  TriesInv'
BY SameCounted DEF TriesInv

LEMMA TriesStep ==
  ASSUME TypeInv, BatchInv, HandInv, TriesInv, [Next]_vars
  PROVE  TriesInv'
<1>1. /\ status \in [Notification -> {"none", "pending", "processing", "sent"}]
      /\ retries \in [Notification -> 0..(MaxRetries - 1)]
      /\ writeBatch \subseteq Notification /\ committed \in BOOLEAN
      /\ picked \in [Dequeuer -> SUBSET Notification]
      /\ work \in [Handler -> [Notification -> Stage]]
      /\ tries \in [Notification -> 0..(MaxRetries + 1)]
      /\ Slot \subseteq Handler /\ Forcer \subseteq Handler
      /\ "worker" \in Dequeuer /\ Forcer \subseteq Dequeuer
  BY DEF TypeInv, TypeOK, QueueTypeOK, Handler, Dequeuer
<1>2. MaxRetries \in Nat \ {0}
  BY QueueAssumption
<1>3. CASE UNCHANGED <<status, retries, writeBatch, committed, work, tries>> /\ raced \subseteq raced'
  BY <1>3, SameTriesKeep DEF SameTries
<1>4. ASSUME NEW n \in Notification, Enqueue(n) PROVE TriesInv'
  <2>1. /\ tries' = [tries EXCEPT ![n] = 0] /\ raced' = raced \ {n}
        /\ UNCHANGED <<status, retries, work, committed>> /\ writeBatch' = writeBatch \union {n}
    BY <1>4 DEF Enqueue, AddToBatch, rowVars
  <2>2. status[n] = "none" /\ \A h \in Handler : work[h][n] = Idle
    BY <1>4 DEF Enqueue, AddToBatch, Handled
  <2>3. Counted(n)'
    BY <1>1, <1>2, <2>1, <2>2, StagesBusy DEF Counted
  <2>4. \A m \in Notification \ raced : m # n => SameTries(m)
    BY <1>1, <2>1 DEF SameTries
  <2> QED BY <2>1, <2>3, <2>4, SameCounted DEF TriesInv
<1>5. CASE FlushCommits /\ UNCHANGED dispatcherVars
  <2>1. committed' = TRUE /\ work' = work /\ tries' = tries /\ raced' = raced
    BY <1>5 DEF FlushCommits, dispatcherVars
  <2>2. \A n \in Notification :
          /\ retries'[n] = IF n \in writeBatch THEN 0 ELSE retries[n]
          /\ n \notin writeBatch => status'[n] = status[n]
    BY <1>5 DEF FlushCommits
  <2>3. ASSUME NEW n \in writeBatch, n \notin raced PROVE Counted(n)'
    <3>1. status[n] = "none" /\ tries[n] = 0
      BY <1>1, <1>5, <2>3 DEF FlushCommits, BatchInv, TriesInv, Counted
    <3>2. \A h \in Handler : work[h][n] = Idle
      BY <1>1, <2>3, <3>1 DEF HandInv, Held
    <3> QED BY <1>1, <1>2, <2>1, <2>2, <2>3, <3>1, <3>2, StagesBusy DEF Counted
  <2>4. \A n \in Notification \ raced : n \notin writeBatch => SameTries(n)
    BY <2>1, <2>2 DEF SameTries
  <2> QED BY <1>1, <2>1, <2>3, <2>4, SameCounted DEF TriesInv
<1>6. CASE (FlushEnds \/ FlushFails) /\ UNCHANGED dispatcherVars
  BY <1>1, <1>6, SameTriesKeep DEF FlushEnds, FlushFails, Release, SameTries, dispatcherVars, rowVars
<1>7. CASE Cleanup /\ UNCHANGED dispatcherVars
  <2>1. \A n \in Notification : status'[n] \in {status[n], "none"}
    BY <1>7 DEF Cleanup
  <2> QED BY <1>7, <2>1, SameTriesKeep DEF Cleanup, SameTries, dispatcherVars, batchVars
<1>8. ASSUME NEW d \in Dequeuer, NEW h \in Handler, HandOver(d, h), UNCHANGED <<tries, raced>> PROVE TriesInv'
  <2>1. UNCHANGED <<retries, writeBatch, committed>>
    BY <1>8 DEF HandOver, MarkProcessing, batchVars
  <2>2. \A g \in Handler \ {h} : work'[g] = work[g]
    BY <1>1, <1>8 DEF HandOver
  <2>3. ASSUME NEW n \in Notification \ raced PROVE Counted(n)'
    <3>1. /\ status'[n] = "pending" => status[n] = "pending"
          /\ work'[h][n] = IF n \in picked[d] THEN At("sending") ELSE Idle
      BY <1>1, <1>8 DEF HandOver, MarkProcessing
    <3>2. Counted(n) /\ (n \in picked[d] => tries[n] = retries[n])
      BY DEF TriesInv, HandInv, Held, Counted
    <3> QED BY <1>8, <2>1, <2>2, <3>1, <3>2, StagesBusy DEF Counted
  <2> QED BY <1>8, <2>3 DEF TriesInv
<1>9. ASSUME NEW h \in Handler, NEW n \in Notification, Process(h, n) \/ RecordLost(h, n) PROVE TriesInv'
  <2>1. work[h][n] # Idle
    BY <1>9, StagesBusy DEF Process, Send, RecordSent, ReadRetries, RecordFailed, RecordLost
  <2>2. CASE n \in raced
    <3>1. PICK stage : Moves(h, n, stage)
      BY <1>9 DEF Process, Send, RecordSent, ReadRetries, RecordFailed, RecordLost
    <3>2. UNCHANGED batchVars
      BY <1>9, DispatcherKeepsRows
    <3>3. \A m \in Notification \ {n} :
            status'[m] = status[m] /\ retries'[m] = retries[m] /\ tries'[m] = tries[m]
      BY <1>1, <1>9 DEF Process, Send, RecordSent, ReadRetries, RecordFailed, RecordLost,
                        MarkComplete, MarkFailed, queueVars, rowVars
    <3>4. raced' = raced
      BY <3>1 DEF Moves
    <3> QED BY <2>2, <3>1, <3>2, <3>3, <3>4, MovesEntries, SameTriesKeep DEF SameTries, batchVars
  <2> SUFFICES ASSUME n \notin raced PROVE TriesInv'
    BY <2>2
  <2>3. status[n] = "processing" /\ (\A g \in Handler \ {h} : work[g][n] = Idle) /\ Counted(n)
    BY <2>1 DEF HandInv, Held, TriesInv
  <2>4. UNCHANGED batchVars /\ (n \in writeBatch => committed)
    BY <1>1, <1>9, <2>3, DispatcherKeepsRows DEF BatchInv
  <2>5. ASSUME NEW stage, Moves(h, n, stage), NEW k, NEW t,
               retries' = [retries EXCEPT ![n] = k], tries' = [tries EXCEPT ![n] = t],
               \A m \in Notification \ {n} : status'[m] = status[m],
               t <= MaxRetries, status'[n] = "pending" => t = k,
               stage.at = "sending" => t = k,
               stage.at \in {"delivered", "refused", "counted"} => t = k + 1,
               stage.at = "counted" => stage.count = k + 1
        PROVE  TriesInv'
    <3>1. \A m \in Notification \ {n} : SameTries(m)
      BY <1>1, <2>4, <2>5, MovesEntries DEF SameTries, batchVars
    <3>2. \A g \in Handler \ {h} : work'[g][n] = Idle
      BY <2>3, <2>5, MovesEntries
    <3>3. work'[h][n] = stage /\ retries'[n] = k /\ tries'[n] = t
      BY <1>1, <2>5, MovesEntries
    <3>4. n \in writeBatch' => committed'
      BY <2>4 DEF batchVars
    <3>5. Counted(n)'
      BY <2>5, <3>2, <3>3, <3>4, StagesBusy DEF Counted
    <3>6. raced' = raced
      BY <2>5 DEF Moves
    <3> QED BY <3>1, <3>5, <3>6, SameCounted DEF TriesInv
  <2>6. CASE Send(h, n)
    <3>1. PICK answer \in {"delivered", "refused"} : Moves(h, n, At(answer))
      BY <2>6 DEF Send
    <3>2. tries[n] = retries[n] /\ retries[n] \in 0..(MaxRetries - 1)
      BY <1>1, <2>3, <2>6 DEF Send, Counted
    <3>3. tries' = [tries EXCEPT ![n] = retries[n] + 1] /\ UNCHANGED <<status, retries>>
      <4>1. tries' = [tries EXCEPT ![n] = IF @ <= MaxRetries THEN @ + 1 ELSE @]
        BY <2>6 DEF Send
      <4>2. tries[n] <= MaxRetries
        BY <1>2, <3>2
      <4> QED BY <2>6, <3>2, <4>1, <4>2 DEF Send, queueVars, rowVars
    <3>4. retries' = [retries EXCEPT ![n] = retries[n]]
      BY <1>1, <3>3
    <3>5. retries[n] + 1 <= MaxRetries
      BY <1>2, <3>2
    <3>6. status'[n] # "pending" /\ \A m \in Notification \ {n} : status'[m] = status[m]
      BY <2>3, <3>3
    <3>7. At(answer).at = answer
      BY StagesBusy
    <3> QED BY <2>5, <3>1, <3>3, <3>4, <3>5, <3>6, <3>7
  <2>7. CASE RecordSent(h, n) \/ RecordLost(h, n)
    <3>1. Moves(h, n, Idle) /\ UNCHANGED <<retries, tries>>
      BY <2>7 DEF RecordSent, RecordLost, MarkComplete, queueVars, rowVars
    <3>2. status'[n] # "pending" /\ \A m \in Notification \ {n} : status'[m] = status[m]
      BY <1>1, <2>3, <2>7 DEF RecordSent, RecordLost, MarkComplete, queueVars, rowVars
    <3>3. retries' = [retries EXCEPT ![n] = retries[n]] /\ tries' = [tries EXCEPT ![n] = tries[n]]
      BY <1>1, <3>1
    <3>4. tries[n] <= MaxRetries
      BY <2>3 DEF Counted
    <3> QED BY <2>5, <3>1, <3>2, <3>3, <3>4, StagesBusy
  <2>8. CASE ReadRetries(h, n)
    <3> DEFINE stage == [at |-> "counted", count |-> retries[n] + 1]
    <3>1. Moves(h, n, stage) /\ UNCHANGED <<status, retries, tries>>
      BY <2>3, <2>8 DEF ReadRetries, queueVars, rowVars
    <3>2. tries[n] = retries[n] + 1
      BY <2>3, <2>8 DEF ReadRetries, Counted
    <3>3. retries' = [retries EXCEPT ![n] = retries[n]] /\ tries' = [tries EXCEPT ![n] = tries[n]]
      BY <1>1, <3>1
    <3>4. stage.at = "counted" /\ stage.count = retries[n] + 1
      OBVIOUS
    <3>5. tries[n] <= MaxRetries /\ status'[n] # "pending"
          /\ \A m \in Notification \ {n} : status'[m] = status[m]
      BY <2>3, <3>1 DEF Counted
    <3> HIDE DEF stage
    <3> QED BY <2>5, <3>1, <3>2, <3>3, <3>4, <3>5
  <2>9. CASE RecordFailed(h, n)
    <3> DEFINE k == work[h][n].count
    <3>1. k = retries[n] + 1 /\ tries[n] = k
      BY <2>3, <2>9 DEF RecordFailed, Counted
    <3>2. Moves(h, n, Idle) /\ MarkFailed(n, k) /\ tries' = tries
      BY <2>9 DEF RecordFailed
    <3>3. tries' = [tries EXCEPT ![n] = tries[n]] /\ retries = [retries EXCEPT ![n] = retries[n]]
      BY <1>1, <3>2
    <3> HIDE DEF k
    <3>4. CASE k < MaxRetries
      <4>1. status' = [status EXCEPT ![n] = "pending"] /\ retries' = [retries EXCEPT ![n] = k]
        BY <2>3, <3>2, <3>4 DEF MarkFailed
      <4>2. tries' = [tries EXCEPT ![n] = k] /\ k <= MaxRetries
        BY <2>3, <3>1, <3>3 DEF Counted
      <4>3. \A m \in Notification \ {n} : status'[m] = status[m]
        BY <1>1, <4>1
      <4> QED BY <2>5, <3>2, <4>1, <4>2, <4>3, StagesBusy
    <3>5. CASE ~(k < MaxRetries)
      <4>1. UNCHANGED <<status, retries>>
        BY <3>2, <3>5 DEF MarkFailed, queueVars, rowVars
      <4>2. tries[n] <= MaxRetries
        BY <2>3 DEF Counted
      <4> QED BY <2>3, <2>5, <3>2, <3>3, <4>1, <4>2, StagesBusy
    <3> QED BY <3>4, <3>5
  <2> QED BY <1>9, <2>6, <2>7, <2>8, <2>9 DEF Process
<1>10. CASE StopTimesOut \/ Crash
  <2>1. \A h \in Handler : work'[h] \in {work[h], NoWork}
    BY <1>1, <1>10 DEF StopTimesOut, Crash
  <2>2. UNCHANGED <<status, retries, tries, raced>> /\ writeBatch' \subseteq writeBatch
        /\ (writeBatch' # {} => committed' = committed)
    BY <1>10 DEF StopTimesOut, Crash, QueueForgotten, queueVars, rowVars, batchVars
  <2> QED BY <2>1, <2>2, SameTriesKeep DEF SameTries, NoWork
<1>11. CASE Closed
  BY <1>11, SameTriesKeep DEF Closed, QueueForgotten, SameTries, rowVars
<1>12. CASE \/ \E n \in Notification : Scheduled(n)
            \/ TimerFires /\ UNCHANGED dispatcherVars
            \/ WorkerChecks \/ (\E d \in Dequeuer : Select(d) \/ DequeueFails(d))
            \/ (\E f \in Forcer : ForceCalled(f) \/ ForceDone(f))
            \/ Start \/ StopCalled \/ StopWaits \/ CloseQueue \/ UNCHANGED vars
  BY <1>3, <1>12 DEF Scheduled, RetryDue, TimerFires, dispatcherVars, WorkerChecks, Select, DequeueFails,
    ForceCalled, ForceDone,
    Start, StopCalled, StopWaits, CloseQueue, CloseBegins, vars, queueVars, rowVars, batchVars
<1>13. ASSUME Worker \/ \E f \in Forcer : ForceHandsOver(f) PROVE TriesInv'
  BY <1>1, <1>8, <1>12, <1>13 DEF Worker, WorkerHandsOver, ForceHandsOver
<1> QED BY <1>1, <1>4, <1>5, <1>6, <1>7, <1>9, <1>10, <1>11, <1>12, <1>13
        DEF Next, QueueStep, Worker, Forcing, Stopping

\* No notification is tried more often than mark_failed allows, forced or not,
\* unless two had selected it between each other's SELECT and UPDATE.
THEOREM TriesKeepLimit == Spec => []TriesBounded
<1>1. Init => TypeInv /\ BatchInv /\ HandInv
  BY InitTyped DEF Init, QueueInit, BatchInv, HandInv, Held, NoWork
<1>2. Init => TriesInv
  BY StagesBusy, QueueAssumption DEF Init, QueueInit, TriesInv, Counted, NoWork
<1>3. TypeInv /\ BatchInv /\ HandInv /\ TriesInv /\ [Next]_vars
        => TypeInv' /\ BatchInv' /\ HandInv' /\ TriesInv'
  BY TypeStep, BatchStep, HandStep, TriesStep
<1>4. TriesInv => TriesBounded
  BY DEF TriesInv, Counted, TriesBounded
<1> QED BY <1>1, <1>2, <1>3, <1>4, PTL DEF Spec
-----------------------------------------------------------------------------
(* The queue and its dispatcher implement Delivery                         *)

\* A notification in the batch is a new one, and raced only when its row is there.
RacedInv == \A n \in raced : n \in writeBatch => committed

LEMMA RacedStep ==
  ASSUME TypeInv, BatchInv, RacedInv, [Next]_vars
  PROVE  RacedInv'
<1>1. /\ writeBatch \subseteq Notification /\ picked \in [Dequeuer -> SUBSET Notification]
      /\ committed \in BOOLEAN /\ Forcer \subseteq Dequeuer /\ "worker" \in Dequeuer
  BY DEF TypeInv, TypeOK, QueueTypeOK, Dequeuer
<1>2. CASE UNCHANGED batchVars /\ raced' = raced
  BY <1>2 DEF RacedInv, batchVars
<1>3. ASSUME NEW n \in Notification, Enqueue(n) PROVE RacedInv'
  BY <1>3 DEF Enqueue, AddToBatch, RacedInv
<1>4. CASE QueueStep
  BY <1>2, <1>4 DEF QueueStep, TimerFires, FlushCommits, FlushEnds, FlushFails, Release, Cleanup,
    dispatcherVars, RacedInv
<1>5. ASSUME NEW d \in Dequeuer, Select(d) PROVE RacedInv'
  <2>1. PICK S \in Selections(BatchSize) : picked' = [picked EXCEPT ![d] = Parsed(S)]
    BY <1>5 DEF Select
  <2>2. \A n \in raced' : n \in raced \/ n \in Ready
    BY <1>1, <1>5, <2>1 DEF Select, Selections, Parsed
  <2>3. \A n \in Ready : n \in writeBatch => committed
    BY <1>1 DEF Ready, BatchInv
  <2>4. UNCHANGED batchVars
    BY <1>5 DEF Select, queueVars
  <2> QED BY <2>2, <2>3, <2>4 DEF RacedInv, batchVars
<1>6. CASE CloseQueue \/ Closed \/ Crash
  BY <1>6 DEF CloseQueue, CloseBegins, Closed, Crash, QueueForgotten, RacedInv
<1>7. ASSUME NEW h \in Handler, NEW n \in Notification, Process(h, n) \/ RecordLost(h, n) PROVE RacedInv'
  <2>1. raced' = raced
    BY <1>7 DEF Process, Send, RecordSent, ReadRetries, RecordFailed, RecordLost, Moves
  <2> QED BY <1>2, <1>7, <2>1, DispatcherKeepsRows
<1>8. CASE \/ \E n \in Notification : Scheduled(n)
           \/ WorkerChecks \/ \E s \in Slot : WorkerHandsOver(s)
           \/ \E d \in Dequeuer : DequeueFails(d)
           \/ \E f \in Forcer : ForceCalled(f) \/ ForceHandsOver(f) \/ ForceDone(f)
           \/ Start \/ StopCalled \/ StopTimesOut \/ StopWaits \/ UNCHANGED vars
  <2>1. raced' = raced
    BY <1>8 DEF Scheduled, dispatcherVars, WorkerChecks, WorkerHandsOver, DequeueFails, ForceCalled,
      ForceHandsOver, ForceDone, Start, StopCalled, StopTimesOut, StopWaits, vars
  <2> QED BY <1>2, <1>8, <2>1, DispatcherKeepsRows
<1> QED BY <1>1, <1>3, <1>4, <1>5, <1>6, <1>7, <1>8 DEF Next, Worker, Forcing, Stopping

LEMMA FateCases ==
  ASSUME status \in [Notification -> {"none", "pending", "processing", "sent"}]
  PROVE  /\ FateOf = [n \in Notification |-> FateOf[n]]
         /\ \A n \in Notification :
              /\ status[n] # "none" /\ n \in raced => FateOf[n] = "doubled"
              /\ status[n] = "sent" /\ n \notin raced => FateOf[n] = "sent"
              /\ status[n] \in {"pending", "processing"} /\ n \notin raced => FateOf[n] = "stored"
              /\ status[n] = "none" /\ n \in writeBatch => FateOf[n] = "accepted"
              /\ status[n] = "none" /\ n \notin writeBatch => FateOf[n] = "absent"
BY DEF FateOf

LEMMA RefinementStep ==
  ASSUME TypeInv, BatchInv, HandInv, RacedInv, [Next]_vars, TypeInv'
  PROVE  [Promise!Next]_FateOf
<1>1. /\ status \in [Notification -> {"none", "pending", "processing", "sent"}]
      /\ status' \in [Notification -> {"none", "pending", "processing", "sent"}]
      /\ writeBatch \subseteq Notification
      /\ picked \in [Dequeuer -> SUBSET Notification]
      /\ Slot \subseteq Handler /\ Forcer \subseteq Handler
      /\ "worker" \in Dequeuer /\ Forcer \subseteq Dequeuer
  BY DEF TypeInv, TypeOK, QueueTypeOK, Handler, Dequeuer
<1>2. /\ FateOf = [n \in Notification |-> FateOf[n]]
      /\ \A n \in Notification :
           /\ status[n] # "none" /\ n \in raced => FateOf[n] = "doubled"
           /\ status[n] = "sent" /\ n \notin raced => FateOf[n] = "sent"
           /\ status[n] \in {"pending", "processing"} /\ n \notin raced => FateOf[n] = "stored"
           /\ status[n] = "none" /\ n \in writeBatch => FateOf[n] = "accepted"
           /\ status[n] = "none" /\ n \notin writeBatch => FateOf[n] = "absent"
  BY <1>1, FateCases
<1>3. /\ FateOf' = [n \in Notification |-> FateOf'[n]]
      /\ \A n \in Notification :
           /\ status'[n] # "none" /\ n \in raced' => FateOf'[n] = "doubled"
           /\ status'[n] = "sent" /\ n \notin raced' => FateOf'[n] = "sent"
           /\ status'[n] \in {"pending", "processing"} /\ n \notin raced' => FateOf'[n] = "stored"
           /\ status'[n] = "none" /\ n \in writeBatch' => FateOf'[n] = "accepted"
           /\ status'[n] = "none" /\ n \notin writeBatch' => FateOf'[n] = "absent"
  BY <1>1 DEF FateOf
<1>4. CASE \A n \in Notification : FateOf'[n] = FateOf[n]
  <2>1. FateOf' = FateOf
    BY <1>2, <1>3, <1>4
  <2> QED BY <2>1
<1>5. CASE UNCHANGED <<status, writeBatch, raced>>
  BY <1>5 DEF FateOf
<1>6. ASSUME NEW n \in Notification, Enqueue(n) PROVE Promise!Accept
  <2>1. /\ status' = status /\ writeBatch' = writeBatch \union {n} /\ raced' = raced \ {n}
        /\ status[n] = "none" /\ n \notin writeBatch
    BY <1>6 DEF Enqueue, AddToBatch, rowVars
  <2>2. FateOf[n] = "absent" /\ FateOf'[n] = "accepted"
    BY <1>2, <1>3, <2>1
  <2>3. \A m \in Notification \ {n} : FateOf'[m] = FateOf[m]
    BY <1>1, <1>2, <1>3, <2>1
  <2> QED BY <1>3, <2>2, <2>3 DEF Promise!Accept, Promise!In, Promise!Become
<1>7. CASE FlushCommits /\ UNCHANGED dispatcherVars
  <2>1. \A n \in writeBatch : n \notin raced /\ status[n] = "none" /\ status'[n] = "pending"
    BY <1>1, <1>7 DEF FlushCommits, BatchInv, RacedInv
  <2>2. \A n \in Notification : n \notin writeBatch => status'[n] = status[n]
    BY <1>7 DEF FlushCommits
  <2>3. writeBatch' = writeBatch /\ raced' = raced
    BY <1>7 DEF FlushCommits, dispatcherVars
  <2>4. \A n \in Notification : n \notin writeBatch => FateOf'[n] = FateOf[n] /\ FateOf[n] # "accepted"
    BY <1>1, <1>2, <1>3, <2>2, <2>3
  <2>5. \A n \in writeBatch : FateOf[n] = "accepted" /\ FateOf'[n] = "stored"
    BY <1>1, <1>2, <1>3, <2>1, <2>3
  <2> QED BY <1>3, <2>4, <2>5 DEF Promise!Next, Promise!Store, Promise!In, Promise!Become
<1>8. CASE FlushEnds /\ UNCHANGED dispatcherVars
  <2>1. \A n \in writeBatch : status[n] # "none"
    BY <1>8 DEF FlushEnds, BatchInv
  <2>2. status' = status /\ writeBatch' = {} /\ raced' = raced
    BY <1>8 DEF FlushEnds, rowVars, dispatcherVars
  <2> QED BY <1>1, <1>2, <1>3, <1>4, <2>1, <2>2
<1>9. CASE Cleanup /\ UNCHANGED dispatcherVars
  <2>1. PICK old \in SUBSET {n \in Notification \ writeBatch : status[n] = "sent"} :
          status' = [n \in Notification |-> IF n \in old THEN "none" ELSE status[n]]
    BY <1>9 DEF Cleanup
  <2>2. writeBatch' = writeBatch /\ raced' = raced
    BY <1>9 DEF Cleanup, batchVars, dispatcherVars
  <2>3. \A n \in old : FateOf[n] \in {"sent", "doubled"} /\ FateOf'[n] = "absent"
    BY <1>1, <1>2, <1>3, <2>1, <2>2
  <2>4. \A n \in Notification \ old : FateOf'[n] = FateOf[n]
    BY <1>1, <1>2, <1>3, <2>1, <2>2
  <2>5. Promise!Forget
    BY <1>3, <2>1, <2>3, <2>4 DEF Promise!Forget, Promise!In, Promise!Become
  <2> QED BY <2>5 DEF Promise!Next
<1>10. CASE Closed \/ Crash
  <2>1. status' = status /\ writeBatch' = {} /\ raced' = raced
    BY <1>10 DEF Closed, Crash, QueueForgotten, rowVars
  <2>2. \A n \in Notification : FateOf'[n] = IF FateOf[n] = "accepted" THEN "absent" ELSE FateOf[n]
    BY <1>1, <1>2, <1>3, <2>1
  <2>3. Promise!Lose
    BY <1>3, <2>2 DEF Promise!Lose, Promise!In, Promise!Become
  <2> QED BY <2>3 DEF Promise!Next
<1>11. ASSUME NEW d \in Dequeuer, NEW h \in Handler, HandOver(d, h), raced' = raced
       PROVE  \A n \in Notification : FateOf'[n] = FateOf[n]
  <2>1. \A n \in Notification : status'[n] =
          IF n \in picked[d] /\ status[n] # "none" THEN "processing" ELSE status[n]
    BY <1>11 DEF HandOver, MarkProcessing
  <2>2. writeBatch' = writeBatch
    BY <1>11 DEF HandOver, MarkProcessing, batchVars
  <2>3. \A n \in Notification \ raced : n \in picked[d] => status[n] = "pending"
    BY DEF HandInv, Held
  <2> QED BY <1>1, <1>2, <1>3, <1>11, <2>1, <2>2, <2>3
<1>12. ASSUME NEW h \in Handler, NEW n \in Notification, RecordSent(h, n) PROVE [Promise!Next]_FateOf
  <2>1. /\ status' = [status EXCEPT ![n] = IF @ = "none" THEN @ ELSE "sent"]
        /\ writeBatch' = writeBatch /\ raced' = raced
    BY <1>12 DEF RecordSent, MarkComplete, batchVars, Moves
  <2>2. CASE n \in raced
    BY <1>1, <1>2, <1>3, <1>4, <2>1, <2>2
  <2>3. CASE n \notin raced
    <3>1. status[n] = "processing"
      BY <1>12, <2>3, StagesBusy DEF RecordSent, HandInv, Held
    <3>2. FateOf[n] = "stored" /\ FateOf'[n] = "sent"
      BY <1>1, <1>2, <1>3, <2>1, <2>3, <3>1
    <3>3. \A m \in Notification \ {n} : FateOf'[m] = FateOf[m]
      BY <1>1, <1>2, <1>3, <2>1
    <3>4. Promise!Sent
      BY <1>3, <3>2, <3>3 DEF Promise!Sent, Promise!In, Promise!Become
    <3> QED BY <3>4 DEF Promise!Next
  <2> QED BY <2>2, <2>3
<1>13. ASSUME NEW h \in Handler, NEW n \in Notification, RecordFailed(h, n)
       PROVE  \A m \in Notification : FateOf'[m] = FateOf[m]
  <2>1. n \notin raced => status[n] = "processing"
    BY <1>13, StagesBusy DEF RecordFailed, HandInv, Held
  <2>2. /\ status' = status \/ (status' = [status EXCEPT ![n] = "pending"] /\ status[n] # "none")
        /\ writeBatch' = writeBatch /\ raced' = raced
    BY <1>13 DEF RecordFailed, MarkFailed, queueVars, rowVars, batchVars, Moves
  <2> QED BY <1>1, <1>2, <1>3, <2>1, <2>2
<1>14. ASSUME NEW d \in Dequeuer, Select(d) PROVE [Promise!Next]_FateOf
  <2>1. PICK S \in Selections(BatchSize) : picked' = [picked EXCEPT ![d] = Parsed(S)]
    BY <1>14 DEF Select
  <2>2. raced' = raced \union {n \in picked'[d] : \E e \in Dequeuer \ {d} : n \in picked[e]}
    BY <1>14 DEF Select
  <2>3. UNCHANGED <<status, writeBatch>>
    BY <1>14 DEF Select, queueVars, rowVars, batchVars
  <2> DEFINE new == raced' \ raced
  <2>4. \A n \in new : n \in Notification /\ status[n] = "pending"
    BY <1>1, <2>1, <2>2 DEF Selections, Parsed, Ready
  <2>5. \A n \in new : FateOf[n] = "stored" /\ FateOf'[n] = "doubled"
    BY <1>2, <1>3, <2>3, <2>4
  <2>6. \A n \in Notification \ new : FateOf'[n] = FateOf[n]
    BY <1>1, <1>2, <1>3, <2>2, <2>3
  <2>7. new \in SUBSET Promise!In("stored")
    BY <2>4, <2>5 DEF Promise!In
  <2>8. Promise!Become(new, "doubled")
    BY <1>3, <2>5, <2>6 DEF Promise!Become
  <2>9. Promise!Double
    BY <2>7, <2>8 DEF Promise!Double
  <2> QED BY <2>9 DEF Promise!Next
<1>15. CASE \/ \E n \in Notification : Scheduled(n)
            \/ \E h \in Handler, n \in Notification :
                 Send(h, n) \/ ReadRetries(h, n) \/ RecordLost(h, n)
            \/ (TimerFires \/ FlushFails) /\ UNCHANGED dispatcherVars
            \/ WorkerChecks \/ (\E d \in Dequeuer : DequeueFails(d))
            \/ (\E f \in Forcer : ForceCalled(f) \/ ForceDone(f))
            \/ Start \/ StopCalled \/ StopTimesOut \/ StopWaits \/ CloseQueue \/ UNCHANGED vars
  BY <1>5, <1>15 DEF Scheduled, RetryDue, Send, ReadRetries, RecordLost, Moves, TimerFires, FlushFails,
    WorkerChecks, DequeueFails, ForceCalled, ForceDone, Start, StopCalled, StopTimesOut, StopWaits,
    CloseQueue, CloseBegins, dispatcherVars, vars, queueVars, rowVars, batchVars
<1>16. CASE (\E s \in Slot : WorkerHandsOver(s)) \/ \E f \in Forcer : ForceHandsOver(f)
  BY <1>1, <1>4, <1>11, <1>16 DEF WorkerHandsOver, ForceHandsOver
<1>17. CASE \E h \in Handler, n \in Notification : Process(h, n)
  BY <1>4, <1>12, <1>13, <1>15, <1>17 DEF Process
<1> QED BY <1>1, <1>6, <1>7, <1>8, <1>9, <1>10, <1>14, <1>15, <1>16, <1>17
        DEF Next, QueueStep, Worker, Forcing, Stopping, Promise!Next

\* Every step of the queue, of the dispatcher, of forced processing and of the
\* feature, and every failure, is one that Delivery allows.
THEOREM ImplementsDelivery == Spec => DeliveryKept
<1>1. Init => TypeInv /\ BatchInv /\ HandInv /\ RacedInv
  BY InitTyped DEF Init, QueueInit, BatchInv, HandInv, Held, RacedInv, NoWork
<1>2. Init => Promise!Init
  BY DEF Init, QueueInit, Promise!Init, FateOf
<1>3. TypeInv /\ BatchInv /\ HandInv /\ RacedInv /\ [Next]_vars
        => TypeInv' /\ BatchInv' /\ HandInv' /\ RacedInv' /\ [Promise!Next]_FateOf
  BY TypeStep, BatchStep, HandStep, RacedStep, RefinementStep
<1> QED BY <1>1, <1>2, <1>3, PTL DEF Spec, Promise!Spec, DeliveryKept
-----------------------------------------------------------------------------
(* No row is left 'processing', forced or not, as long as nothing fails.   *)
(* Two batches may then have the same notification, and read and write its *)
(* retry_count in any order: what is counted falls behind the tries made.  *)

\* Work is found only with a batch that is still active, with none of the
\* worker's once it has drained, and with a forcer that waits for it.
SlotInv ==
  /\ \A s \in Slot \ active : work[s] = NoWork
  /\ life \in {"closing", "flushing", "down"} =>
       pc["worker"] = "none" /\ \A s \in Slot : work[s] = NoWork
  /\ \A f \in Forcer : pc[f] # "processing" => work[f] = NoWork

\* A handler that does something has work.
LEMMA ProcessBusy ==
  ASSUME TypeInv, NEW h \in Handler, NEW n \in Notification, Process(h, n)
  PROVE  /\ work[h] # NoWork /\ work[h][n] # Idle
         /\ \A g \in Handler \ {h} : work'[g] = work[g]
         /\ UNCHANGED <<life, pc, picked, active, forced, batchVars>>
<1>1. work[h][n] # Idle
  BY StagesBusy DEF Process, Send, RecordSent, ReadRetries, RecordFailed
<1>2. PICK stage : Moves(h, n, stage)
  BY DEF Process, Send, RecordSent, ReadRetries, RecordFailed
<1>3. UNCHANGED batchVars
  BY DispatcherKeepsRows
<1> QED BY <1>1, <1>2, <1>3 DEF Moves, NoWork, TypeInv, TypeOK

LEMMA SlotStep ==
  ASSUME Faults = {}, TypeInv, SlotInv, [Next]_vars
  PROVE  SlotInv'
<1>1. /\ pc \in [Dequeuer -> {"none", "loop", "dequeuing", "marking", "processing"}]
      /\ work \in [Handler -> [Notification -> Stage]] /\ active \subseteq Slot
      /\ life \in {"down", "up", "stopping", "closing", "flushing"}
      /\ "worker" \notin Forcer /\ Forcer \cap Slot = {}
      /\ Slot \subseteq Handler /\ Forcer \subseteq Handler
      /\ "worker" \in Dequeuer /\ Forcer \subseteq Dequeuer
  BY DispatcherAssumption DEF TypeInv, TypeOK, Dequeuer, Handler, Slot
<1>2. CASE UNCHANGED <<life, pc, work, active>>
  BY <1>2 DEF SlotInv
<1>3. CASE WorkerChecks \/ Select("worker")
  <2>1. PICK point : pc' = [pc EXCEPT !["worker"] = point]
    BY <1>3 DEF WorkerChecks, Select
  <2>2. life \notin {"closing", "flushing", "down"} /\ UNCHANGED <<life, work, active>>
    BY <1>3 DEF WorkerChecks, Select, SlotInv
  <2> QED BY <1>1, <2>1, <2>2 DEF SlotInv
<1>4. ASSUME NEW f \in Forcer, ForceCalled(f) \/ Select(f) \/ ForceDone(f) PROVE SlotInv'
  <2>1. PICK point : pc' = [pc EXCEPT ![f] = point]
    BY <1>4 DEF ForceCalled, Select, ForceDone
  <2>2. work[f] = NoWork /\ UNCHANGED <<life, work, active>>
    BY <1>4 DEF ForceCalled, Select, ForceDone, SlotInv, Busy
  <2> QED BY <1>1, <2>1, <2>2 DEF SlotInv
<1>5. ASSUME NEW s \in Slot, WorkerHandsOver(s) PROVE SlotInv'
  <2>1. pc["worker"] = "marking" /\ pc' = [pc EXCEPT !["worker"] = "loop"] /\ life' = life
        /\ active' = {t \in active : Busy(t)} \union {s}
    BY <1>5 DEF WorkerHandsOver, HandOver, Activate
  <2>2. \A h \in Handler \ {s} : work'[h] = work[h]
    BY <1>1, <1>5 DEF WorkerHandsOver, HandOver
  <2>3. life \notin {"closing", "flushing", "down"}
    BY <2>1 DEF SlotInv
  <2>4. \A t \in Slot \ active' : work'[t] = NoWork
    BY <1>1, <2>1, <2>2 DEF SlotInv, Busy
  <2>5. \A f \in Forcer : pc'[f] # "processing" => work'[f] = NoWork
    BY <1>1, <2>1, <2>2 DEF SlotInv
  <2> QED BY <2>1, <2>3, <2>4, <2>5 DEF SlotInv
<1>6. ASSUME NEW f \in Forcer, ForceHandsOver(f) PROVE SlotInv'
  <2>1. pc' = [pc EXCEPT ![f] = "processing"] /\ UNCHANGED <<life, active>>
    BY <1>6 DEF ForceHandsOver
  <2>2. \A h \in Handler \ {f} : work'[h] = work[h]
    BY <1>1, <1>6 DEF ForceHandsOver, HandOver
  <2> QED BY <1>1, <2>1, <2>2 DEF SlotInv
<1>7. ASSUME NEW h \in Handler, NEW n \in Notification, Process(h, n) PROVE SlotInv'
  BY <1>1, <1>7, ProcessBusy DEF SlotInv
<1>8. CASE Start
  <2>1. life = "down" /\ life' = "up" /\ pc' = [pc EXCEPT !["worker"] = "loop"] /\ work' = work
    BY <1>8 DEF Start
  <2> QED BY <1>1, <2>1 DEF SlotInv
<1>9. CASE StopCalled
  BY <1>9 DEF StopCalled, SlotInv
<1>10. CASE StopWaits
  <2>1. pc["worker"] = "none" /\ \A s \in Slot : work[s] = NoWork
    BY <1>10 DEF StopWaits, Drained, SlotInv, Busy
  <2> QED BY <1>10, <2>1 DEF StopWaits, SlotInv
<1>11. CASE CloseQueue \/ Closed
  BY <1>11 DEF CloseQueue, Closed, SlotInv
<1>12. CASE \/ \E n \in Notification : Enqueue(n) \/ Scheduled(n)
            \/ QueueStep \/ UNCHANGED vars
  BY <1>2, <1>12 DEF Enqueue, Scheduled, QueueStep, dispatcherVars, vars
<1>13. ~StopTimesOut /\ ~Crash /\ (\A d \in Dequeuer : ~DequeueFails(d))
       /\ \A h \in Handler, n \in Notification : ~RecordLost(h, n)
  BY DEF StopTimesOut, Crash, DequeueFails, RecordLost
<1> QED BY <1>3, <1>4, <1>5, <1>6, <1>7, <1>8, <1>9, <1>10, <1>11, <1>12, <1>13
        DEF Next, Worker, Forcing, Stopping

\* The deliveries of n that were refused and are not yet counted.
Refused(n) == {h \in Handler : work[h][n].at = "refused"}

\* Of t tries, k are counted and those of R still to be; or none is left.
Covered(k, R, t) == k + Cardinality(R) <= t \/ MaxRetries <= t

\* A row that is not yet written is in nobody's hands; one being processed is
\* in somebody's, or its tries are used up; and neither the retry_count of a
\* row nor one about to be written exceeds the tries there have been.
CountInv(n) ==
  /\ n \in writeBatch /\ ~committed =>
       (\A h \in Handler : work[h][n] = Idle) /\ \A d \in Dequeuer : n \notin picked[d]
  /\ status[n] = "processing" => (\E h \in Handler : work[h][n] # Idle) \/ tries[n] >= MaxRetries
  /\ status[n] # "none" => Covered(retries[n], Refused(n), tries[n])
  /\ \A h \in Handler : work[h][n].at = "counted" => Covered(work[h][n].count, Refused(n), tries[n])

LEMMA RefusedFinite ==
  ASSUME IsFiniteSet(Forcer), NEW n
  PROVE  IsFiniteSet(Handler) /\ IsFiniteSet(Refused(n)) /\ Cardinality(Refused(n)) \in Nat
<1>1. IsFiniteSet(Slot)
  BY DispatcherAssumption, FS_Interval DEF Slot
<1>2. IsFiniteSet(Handler)
  BY <1>1, FS_Union DEF Handler
<1>3. Refused(n) \in SUBSET Handler
  BY DEF Refused
<1> QED BY <1>2, <1>3, FS_Subset, FS_CardinalityType

\* One more refusal is one more try ...
LEMMA CoveredTry ==
  ASSUME NEW R, IsFiniteSet(R), NEW h, NEW k \in Nat, NEW t \in Nat, Covered(k, R, t),
         NEW u, u = IF t <= MaxRetries THEN t + 1 ELSE t
  PROVE  Covered(k, R, u) /\ Covered(k, R \union {h}, u)
<1>1. Cardinality(R) \in Nat /\ Cardinality(R \union {h}) \in {Cardinality(R), Cardinality(R) + 1}
  BY FS_CardinalityType, FS_AddElement
<1>2. MaxRetries \in Nat
  BY QueueAssumption
<1> QED BY <1>1, <1>2 DEF Covered

\* ... and one refusal that is counted is one less to count.
LEMMA CoveredCount ==
  ASSUME NEW R, IsFiniteSet(R), NEW h \in R, NEW k \in Nat, NEW t \in Nat, Covered(k, R, t)
  PROVE  Covered(k + 1, R \ {h}, t) /\ Covered(k, R \ {h}, t)
<1>1. Cardinality(R) \in Nat /\ Cardinality(R \ {h}) = Cardinality(R) - 1
  BY FS_CardinalityType, FS_RemoveElement
<1>2. MaxRetries \in Nat
  BY QueueAssumption
<1> QED BY <1>1, <1>2 DEF Covered

\* Notification n is left alone, or its row deleted.
SameCount(n) ==
  /\ \A h \in Handler : work'[h][n] = work[h][n]
  /\ tries'[n] = tries[n] /\ retries'[n] = retries[n] /\ status'[n] \in {status[n], "none"}
  /\ n \in writeBatch' /\ ~committed' => n \in writeBatch /\ ~committed
  /\ \A d \in Dequeuer : n \in picked'[d] => n \in picked[d] \/ status[n] = "pending"

LEMMA SameCountKeeps ==
  ASSUME BatchInv, NEW n \in Notification, CountInv(n), SameCount(n)
  PROVE  CountInv(n)'
<1>1. Refused(n)' = Refused(n)
  BY DEF SameCount, Refused
<1> QED BY <1>1 DEF SameCount, CountInv, BatchInv

\* A batch is handed to a handler that has none.
LEMMA HandOverCounts ==
  ASSUME TypeInv, BatchInv, NEW d \in Dequeuer, NEW h \in Handler, work[h] = NoWork, HandOver(d, h),
         UNCHANGED tries, NEW n \in Notification, CountInv(n)
  PROVE  CountInv(n)'
<1>1. /\ status'[n] = IF n \in picked[d] /\ status[n] # "none" THEN "processing" ELSE status[n]
      /\ UNCHANGED <<retries, writeBatch, committed, tries>>
      /\ picked' = [picked EXCEPT ![d] = {}]
  BY DEF HandOver, MarkProcessing, batchVars
<1>2. /\ work'[h][n] = IF n \in picked[d] THEN At("sending") ELSE Idle
      /\ \A g \in Handler \ {h} : work'[g] = work[g]
      /\ work[h][n] = Idle
  BY DEF HandOver, TypeInv, TypeOK, NoWork
<1>3. \A e \in Dequeuer : n \in picked'[e] => n \in picked[e]
  BY <1>1 DEF TypeInv, TypeOK
<1>4. CASE n \notin picked[d]
  BY <1>1, <1>2, <1>3, <1>4, SameCountKeeps DEF SameCount
<1>5. CASE n \in picked[d]
  <2>1. Refused(n)' = Refused(n)
    BY <1>2, <1>5, StagesBusy DEF Refused
  <2>2. \A g \in Handler : work'[g][n].at = "counted" => work'[g][n] = work[g][n]
    BY <1>2, <1>5, StagesBusy
  <2>3. ~(n \in writeBatch /\ ~committed)
    BY <1>5 DEF CountInv
  <2>4. work'[h][n] # Idle
    BY <1>2, <1>5, StagesBusy
  <2> QED BY <1>1, <2>1, <2>2, <2>3, <2>4 DEF CountInv
<1> QED BY <1>4, <1>5

\* A delivery and what is recorded of it, for the notification delivered.
LEMMA ProcessCounts ==
  ASSUME IsFiniteSet(Forcer), TypeInv, NEW h \in Handler, NEW n \in Notification, Process(h, n), CountInv(n)
  PROVE  CountInv(n)'
<1>1. /\ retries[n] \in Nat /\ tries[n] \in Nat /\ MaxRetries \in Nat
      /\ status \in [Notification -> {"none", "pending", "processing", "sent"}]
      /\ retries \in [Notification -> 0..(MaxRetries - 1)]
      /\ tries \in [Notification -> 0..(MaxRetries + 1)]
      /\ \A g \in Handler : work[g][n].count \in Nat
      /\ IsFiniteSet(Refused(n)) /\ Cardinality(Refused(n)) \in Nat
  BY QueueAssumption, RefusedFinite DEF TypeInv, TypeOK, QueueTypeOK, Stage
<1>2. work[h][n] # Idle /\ UNCHANGED <<picked, writeBatch, committed>>
  BY ProcessBusy DEF batchVars
<1>3. ~(n \in writeBatch /\ ~committed)
  BY <1>2 DEF CountInv
<1>4. ASSUME NEW stage, Moves(h, n, stage)
      PROVE  /\ work'[h][n] = stage
             /\ \A g \in Handler \ {h} : work'[g][n] = work[g][n]
  BY <1>4, MovesEntries
<1>5. CASE Send(h, n)
  <2>1. PICK answer \in {"delivered", "refused"} : Moves(h, n, At(answer))
    BY <1>5 DEF Send
  <2>2. tries'[n] = IF tries[n] <= MaxRetries THEN tries[n] + 1 ELSE tries[n]
    BY <1>1, <1>5 DEF Send
  <2>3. work[h][n].at = "sending" /\ UNCHANGED <<status, retries>>
    BY <1>5 DEF Send, queueVars, rowVars
  <2>4. Refused(n)' \in {Refused(n), Refused(n) \union {h}}
    BY <1>4, <2>1, <2>3, StagesBusy DEF Refused
  <2>5. \A k \in Nat : Covered(k, Refused(n), tries[n]) => Covered(k, Refused(n)', tries'[n])
    <3> DEFINE R == Refused(n)
               u == tries'[n]
    <3>1. SUFFICES ASSUME NEW k \in Nat, Covered(k, R, tries[n])
                   PROVE  Covered(k, R, u) /\ Covered(k, R \union {h}, u)
      BY <2>4
    <3>2. IsFiniteSet(R) /\ tries[n] \in Nat /\ u = IF tries[n] <= MaxRetries THEN tries[n] + 1 ELSE tries[n]
      BY <1>1, <2>2
    <3> HIDE DEF R, u
    <3> QED BY <3>1, <3>2, CoveredTry
  <2>6. work'[h][n] # Idle /\ work'[h][n].at # "counted"
    BY <1>4, <2>1, StagesBusy
  <2> QED BY <1>1, <1>2, <1>3, <1>4, <2>1, <2>3, <2>5, <2>6 DEF CountInv
<1>6. CASE RecordSent(h, n)
  <2>1. Moves(h, n, Idle) /\ work[h][n].at = "delivered" /\ UNCHANGED <<retries, tries>>
    BY <1>6 DEF RecordSent, MarkComplete
  <2>2. Refused(n)' = Refused(n)
    BY <1>4, <2>1, StagesBusy DEF Refused
  <2>3. status'[n] # "processing" /\ (status'[n] # "none" => status[n] # "none")
    BY <1>1, <1>6 DEF RecordSent, MarkComplete
  <2> QED BY <1>2, <1>3, <1>4, <2>1, <2>2, <2>3, StagesBusy DEF CountInv
<1>7. CASE ReadRetries(h, n)
  <2> DEFINE stage == IF status[n] = "none" THEN Idle ELSE [at |-> "counted", count |-> retries[n] + 1]
  <2>1. Moves(h, n, stage) /\ h \in Refused(n) /\ UNCHANGED <<status, retries, tries>>
    BY <1>7 DEF ReadRetries, Refused, queueVars, rowVars
  <2>2. stage.at # "refused" /\ (status[n] # "none" => stage # Idle /\ stage.count = retries[n] + 1)
    BY DEF Idle
  <2>3. stage.at = "counted" => status[n] # "none"
    BY StagesBusy
  <2> HIDE DEF stage
  <2>4. Refused(n)' = Refused(n) \ {h}
    BY <1>4, <2>1, <2>2 DEF Refused
  <2>5. \A k \in Nat : Covered(k, Refused(n), tries[n])
          => Covered(k + 1, Refused(n)', tries[n]) /\ Covered(k, Refused(n)', tries[n])
    BY <1>1, <2>1, <2>4, CoveredCount
  <2>6. \A g \in Handler : work'[g][n].at = "counted" => Covered(work'[g][n].count, Refused(n)', tries[n])
    BY <1>1, <1>4, <2>1, <2>2, <2>3, <2>5 DEF CountInv
  <2> QED BY <1>1, <1>2, <1>3, <1>4, <2>1, <2>2, <2>5, <2>6 DEF CountInv
<1>8. CASE RecordFailed(h, n)
  <2> DEFINE k == work[h][n].count
  <2>1. Moves(h, n, Idle) /\ MarkFailed(n, k) /\ tries' = tries /\ work[h][n].at = "counted"
    BY <1>8 DEF RecordFailed
  <2>2. Refused(n)' = Refused(n)
    BY <1>4, <2>1, StagesBusy DEF Refused
  <2>3. Covered(k, Refused(n), tries[n]) /\ k \in Nat
    BY <1>1, <2>1 DEF CountInv
  <2> HIDE DEF k
  <2>4. CASE k < MaxRetries /\ status[n] # "none"
    <3>1. status'[n] = "pending" /\ retries'[n] = k
      BY <1>1, <2>1, <2>4 DEF MarkFailed
    <3> QED BY <1>2, <1>3, <1>4, <2>1, <2>2, <2>3, <3>1, StagesBusy DEF CountInv
  <2>5. CASE ~(k < MaxRetries /\ status[n] # "none")
    <3>1. UNCHANGED <<status, retries>>
      BY <2>1, <2>5 DEF MarkFailed, queueVars, rowVars
    <3>2. status[n] # "none" => tries[n] >= MaxRetries
      BY <1>1, <2>3, <2>5 DEF Covered
    <3> QED BY <1>2, <1>3, <1>4, <2>1, <2>2, <3>1, <3>2, StagesBusy DEF CountInv
  <2> QED BY <2>4, <2>5
<1> QED BY <1>5, <1>6, <1>7, <1>8 DEF Process

LEMMA CountStep ==
  ASSUME Faults = {}, IsFiniteSet(Forcer), TypeInv, BatchInv, SlotInv,
         \A n \in Notification : CountInv(n), [Next]_vars, NEW n \in Notification
  PROVE  CountInv(n)'
<1>1. /\ status \in [Notification -> {"none", "pending", "processing", "sent"}]
      /\ retries \in [Notification -> 0..(MaxRetries - 1)]
      /\ writeBatch \subseteq Notification /\ committed \in BOOLEAN /\ (committed => lock # "free")
      /\ picked \in [Dequeuer -> SUBSET Notification]
      /\ work \in [Handler -> [Notification -> Stage]]
      /\ tries \in [Notification -> 0..(MaxRetries + 1)]
      /\ Slot \subseteq Handler /\ Forcer \subseteq Handler
      /\ "worker" \in Dequeuer /\ Forcer \subseteq Dequeuer
  BY DEF TypeInv, TypeOK, QueueTypeOK, Dequeuer, Handler
<1>2. MaxRetries \in Nat \ {0}
  BY QueueAssumption
<1>3. CASE SameCount(n)
  BY <1>3, SameCountKeeps
<1>4. CASE UNCHANGED <<status, retries, writeBatch, committed, picked, work, tries>>
  BY <1>3, <1>4 DEF SameCount
<1>5. ASSUME NEW m \in Notification, Enqueue(m) PROVE CountInv(n)'
  <2>1. /\ UNCHANGED <<status, retries, work, picked, committed>> /\ ~committed
        /\ writeBatch' = writeBatch \union {m} /\ tries' = [tries EXCEPT ![m] = 0]
    BY <1>1, <1>5 DEF Enqueue, AddToBatch, rowVars
  <2>2. CASE m # n
    BY <1>1, <1>3, <2>1, <2>2 DEF SameCount
  <2>3. CASE m = n
    <3>1. /\ status[n] = "none" /\ \A h \in Handler : work[h][n] = Idle
          /\ \A d \in Dequeuer : n \notin picked[d]
      BY <1>5, <2>3 DEF Enqueue, AddToBatch, Handled
    <3> QED BY <2>1, <3>1, StagesBusy DEF CountInv
  <2> QED BY <2>2, <2>3
<1>6. CASE FlushCommits /\ UNCHANGED dispatcherVars
  <2>1. CASE n \notin writeBatch
    BY <1>3, <1>6, <2>1 DEF FlushCommits, dispatcherVars, SameCount
  <2>2. CASE n \in writeBatch
    <3>1. \A h \in Handler : work[h][n] = Idle
      BY <1>6, <2>2 DEF FlushCommits, CountInv
    <3>2. status'[n] = "pending" /\ retries'[n] = 0 /\ committed' /\ UNCHANGED <<work, tries>>
      BY <1>6, <2>2 DEF FlushCommits, dispatcherVars
    <3>3. Refused(n)' = {}
      BY <3>1, <3>2, StagesBusy DEF Refused
    <3>4. Covered(0, {}, tries[n])
      BY <1>1, <1>2, FS_EmptySet DEF Covered
    <3> QED BY <3>1, <3>2, <3>3, <3>4, StagesBusy DEF CountInv
  <2> QED BY <2>1, <2>2
<1>7. CASE (FlushEnds \/ Cleanup) /\ UNCHANGED dispatcherVars
  BY <1>3, <1>7 DEF FlushEnds, Cleanup, dispatcherVars, rowVars, batchVars, SameCount
<1>8. ASSUME NEW d \in Dequeuer, Select(d) PROVE CountInv(n)'
  <2>1. PICK S \in Selections(BatchSize) : picked' = [picked EXCEPT ![d] = Parsed(S)]
    BY <1>8 DEF Select
  <2>2. Parsed(S) \subseteq Ready
    BY DEF Selections, Parsed
  <2>3. UNCHANGED <<status, retries, writeBatch, committed, work, tries>>
    BY <1>8 DEF Select, queueVars, rowVars, batchVars
  <2>4. \A e \in Dequeuer : n \in picked'[e] => n \in picked[e] \/ status[n] = "pending"
    BY <1>1, <2>1, <2>2 DEF Ready
  <2> QED BY <1>3, <2>3, <2>4 DEF SameCount
<1>9. ASSUME NEW s \in Slot, WorkerHandsOver(s) PROVE CountInv(n)'
  <2>1. work[s] = NoWork /\ HandOver("worker", s) /\ UNCHANGED tries
    BY <1>9 DEF WorkerHandsOver, SlotInv
  <2> QED BY <1>1, <2>1, HandOverCounts
<1>10. ASSUME NEW f \in Forcer, ForceHandsOver(f) PROVE CountInv(n)'
  <2>1. work[f] = NoWork /\ HandOver(f, f) /\ UNCHANGED tries
    BY <1>10 DEF ForceHandsOver, HandOver, SlotInv
  <2> QED BY <1>1, <2>1, HandOverCounts
<1>11. ASSUME NEW h \in Handler, NEW m \in Notification, Process(h, m) PROVE CountInv(n)'
  <2>1. CASE m = n
    BY <1>11, <2>1, ProcessCounts
  <2>2. CASE m # n
    <3>1. \A g \in Handler : work'[g][n] = work[g][n]
      BY <1>11, <2>2, MovesEntries DEF Process, Send, RecordSent, ReadRetries, RecordFailed
    <3>2. UNCHANGED <<picked, writeBatch, committed>>
      BY <1>11, ProcessBusy DEF batchVars
    <3>3. tries'[n] = tries[n] /\ retries'[n] = retries[n] /\ status'[n] = status[n]
      BY <1>1, <1>11, <2>2 DEF Process, Send, RecordSent, ReadRetries, RecordFailed,
                               MarkComplete, MarkFailed, queueVars, rowVars
    <3> QED BY <1>3, <3>1, <3>2, <3>3 DEF SameCount
  <2> QED BY <2>1, <2>2
<1>12. CASE Closed
  BY <1>3, <1>12 DEF Closed, QueueForgotten, rowVars, SameCount
<1>13. CASE \/ \E m \in Notification : Scheduled(m)
            \/ TimerFires /\ UNCHANGED dispatcherVars
            \/ WorkerChecks \/ \E f \in Forcer : ForceCalled(f) \/ ForceDone(f)
            \/ Start \/ StopCalled \/ StopWaits \/ CloseQueue \/ UNCHANGED vars
  BY <1>4, <1>13 DEF Scheduled, RetryDue, TimerFires, dispatcherVars, WorkerChecks, ForceCalled, ForceDone,
    Start, StopCalled, StopWaits, CloseQueue, CloseBegins, vars, queueVars, rowVars, batchVars
<1>14. ~StopTimesOut /\ ~Crash /\ ~FlushFails /\ (\A d \in Dequeuer : ~DequeueFails(d))
       /\ \A h \in Handler, m \in Notification : ~RecordLost(h, m)
  BY DEF StopTimesOut, Crash, FlushFails, DequeueFails, RecordLost
<1> QED BY <1>1, <1>5, <1>6, <1>7, <1>8, <1>9, <1>10, <1>11, <1>12, <1>13, <1>14
        DEF Next, QueueStep, Worker, Forcing, Stopping

\* A row is left in 'processing' with nobody at work on it only when its tries
\* are used up, with any number of forced processings besides the worker, if no
\* statement fails and neither a crash nor an impatient stop interferes.
THEOREM NoneLeftBehind ==
  ASSUME Faults = {}, IsFiniteSet(Forcer)
  PROVE  Spec => []HandledOrSpent
<1> DEFINE AllCounted == \A n \in Notification : CountInv(n)
<1>1. Init => TypeInv /\ BatchInv /\ SlotInv
  BY InitTyped DEF Init, QueueInit, BatchInv, SlotInv, NoWork, Dequeuer, Handler
<1>2. Init => AllCounted
  <2> SUFFICES ASSUME Init, NEW n \in Notification PROVE CountInv(n)
    OBVIOUS
  <2>1. /\ \A h \in Handler : work[h][n] = Idle
        /\ tries[n] = 0 /\ retries[n] = 0 /\ status[n] # "processing" /\ writeBatch = {}
    BY DEF Init, QueueInit, NoWork
  <2>2. Refused(n) = {}
    BY <2>1, StagesBusy DEF Refused
  <2>3. Covered(0, {}, 0)
    BY FS_EmptySet DEF Covered
  <2> QED BY <2>1, <2>2, <2>3, StagesBusy DEF CountInv
<1>3. TypeInv /\ BatchInv /\ SlotInv /\ AllCounted /\ [Next]_vars
        => TypeInv' /\ BatchInv' /\ SlotInv' /\ AllCounted'
  BY TypeStep, BatchStep, SlotStep, CountStep
<1>4. AllCounted => HandledOrSpent
  BY DEF CountInv, HandledOrSpent, Handled
<1> QED BY <1>1, <1>2, <1>3, <1>4, PTL DEF Spec
=============================================================================
