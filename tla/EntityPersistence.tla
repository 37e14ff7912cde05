-------------------------- MODULE EntityPersistence --------------------------
(***************************************************************************)
(* backend/services/entity_persistence_service.py behind                   *)
(* backend/core/entity_manager.py: a listener marks entities dirty, one    *)
(* worker collects them over a debounce window and writes their states,    *)
(* with retries, a put-back of what could not be written and a last flush  *)
(* when the service stops.  core/entity_feature.py starts and stops it.    *)
(* A state is the number of the update it comes from, 0 the default.       *)
(***************************************************************************)
EXTENDS Integers, Sequences, FiniteSets, SequencesExt

CONSTANTS
  Entity,      \* entities of the coach mapping
  MaxBatch,    \* _max_batch_size
  MaxRetries,  \* _max_retries
  MaxUpdates,  \* bound: updates of one entity
  Faults       \* what may fail: "disk", "crash", "timeout" (of the wait in stop)

Sentinel == "stop"  \* the None that stop puts into the queue

ASSUME PersistenceAssumption ==
  /\ MaxBatch \in Nat \ {0} /\ MaxRetries \in Nat \ {0} /\ MaxUpdates \in Nat
  /\ IsFiniteSet(Entity) /\ Sentinel \notin Entity
  /\ Faults \subseteq {"disk", "crash", "timeout"}

VARIABLES
  life,     \* of the service: "off" (no process), "loading", "up", "stopping", "stopped"
  latest,   \* updates an entity has had
  memory,   \* current_state of each entity
  rows,     \* its row in entity_states; 0: none
  queue,    \* _dirty_entity_ids
  pc,       \* of the worker: "none", "waiting", "collecting", "writing"
  batch,    \* the ids it has in hand
  snap,     \* states_to_persist; 0 for the others
  attempt,  \* of _persist_batch
  last,     \* the batch is the final one
  heard     \* the newest update the service was told of, for the properties

workerVars == <<queue, pc, batch, snap, attempt, last>>
vars == <<life, latest, memory, rows, workerVars, heard>>

Zero == [e \in Entity |-> 0]
NoBatch == batch' = {} /\ snap' = Zero /\ attempt' = 0 /\ last' = FALSE

Init ==
  /\ life = "off" /\ latest = Zero /\ memory = Zero /\ rows = Zero
  /\ queue = <<>> /\ pc = "none" /\ batch = {} /\ snap = Zero
  /\ attempt = 0 /\ last = FALSE /\ heard = Zero
-----------------------------------------------------------------------------
(* Entities and their listener                                             *)

\* Mutant: an entity the worker has in its batch is not queued again.
Heard_NotInBatch(e) ==
  IF life = "up"
  THEN /\ queue' = IF e \in batch THEN queue ELSE Append(queue, e)
       /\ heard' = [heard EXCEPT ![e] = memory'[e]]
  ELSE UNCHANGED <<queue, heard>>

\* _notify_state_change and _on_entity_state_changed.
Heard(e) ==
  IF life = "up"
  THEN queue' = Append(queue, e) /\ heard' = [heard EXCEPT ![e] = memory'[e]]
  ELSE UNCHANGED <<queue, heard>>

\* update_entity_state, from a frame or a request.
Update(e) ==
  /\ life # "off" /\ latest[e] < MaxUpdates
  /\ latest' = [latest EXCEPT ![e] = @ + 1]
  /\ memory' = [memory EXCEPT ![e] = latest[e] + 1]
  /\ Heard(e)
  /\ UNCHANGED <<life, rows, pc, batch, snap, attempt, last>>
-----------------------------------------------------------------------------
(* Start: a service object of its own, which loads before it listens       *)

StartBegins ==
  /\ life \in {"off", "stopped"}
  /\ life' = "loading"
  /\ queue' = <<>> /\ heard' = Zero
  /\ UNCHANGED <<latest, memory, rows, pc, batch, snap, attempt, last>>

\* Mutant: what is loaded is announced to the listener as a change.
Loaded_Announced ==
  /\ life = "loading"
  /\ life' = "up" /\ pc' = "waiting"
  /\ queue' = SetToSeq({e \in Entity : rows[e] > 0})
  /\ UNCHANGED <<latest, memory, rows, batch, snap, attempt, last, heard>>

\* _load_entity_states, whether it succeeds or raises: the dump in a row
\* becomes the field "state" of the entity and its time the timestamp, its
\* value and raw data stay what they are.
Loaded ==
  /\ life = "loading"
  /\ life' = "up" /\ pc' = "waiting"
  /\ UNCHANGED <<latest, memory, rows, queue, batch, snap, attempt, last, heard>>
-----------------------------------------------------------------------------
(* The worker                                                              *)

\* _persist_batch up to its first attempt.
Persist(ids, final) ==
  /\ pc' = "writing" /\ batch' = ids /\ attempt' = 1 /\ last' = final
  /\ snap' = [e \in Entity |-> IF e \in ids THEN memory[e] ELSE 0]

\* The end of _persistence_worker: what is queued is written in one batch.
Drain(q) ==
  LET ids == ToSet(q) \ {Sentinel} IN
  /\ queue' = <<>>
  /\ IF ids = {} THEN pc' = "none" /\ NoBatch ELSE Persist(ids, TRUE)

Take ==
  /\ pc = "waiting" /\ queue # <<>>
  /\ IF Head(queue) = Sentinel
     THEN Drain(Tail(queue))
     ELSE /\ queue' = Tail(queue) /\ batch' = {Head(queue)} /\ pc' = "collecting"
          /\ UNCHANGED <<snap, attempt, last>>
  /\ UNCHANGED <<life, latest, memory, rows, heard>>

Collect ==
  /\ pc = "collecting" /\ queue # <<>>
  /\ Cardinality(batch) < MaxBatch
  /\ queue' = Tail(queue)
  /\ IF Head(queue) = Sentinel
     THEN Persist(batch, FALSE)
     ELSE batch' = batch \union {Head(queue)} /\ UNCHANGED <<pc, snap, attempt, last>>
  /\ UNCHANGED <<life, latest, memory, rows, heard>>

\* The window has passed, or the batch is full.
WindowCloses ==
  /\ pc = "collecting"
  /\ Persist(batch, FALSE)
  /\ UNCHANGED <<life, latest, memory, rows, queue, heard>>

\* Back to "while not self._is_stopping".
Loop(q) ==
  CASE last              -> pc' = "none" /\ queue' = q /\ NoBatch
    [] ~last /\ life = "up" -> pc' = "waiting" /\ queue' = q /\ NoBatch
    [] OTHER             -> Drain(q)

Written == [e \in Entity |-> IF e \in batch THEN snap[e] ELSE rows[e]]

WriteOk ==
  /\ pc = "writing"
  /\ rows' = Written
  /\ Loop(queue)
  /\ UNCHANGED <<life, latest, memory, heard>>

\* Mutant: the worker ends when its retries are used up.
GiveUp_Ends == pc' = "none" /\ queue' = queue \o SetToSeq(batch) /\ NoBatch

\* All retries failed: the ids are put back, in the order of the set.
GiveUp ==
  \E s \in [1..Cardinality(batch) -> batch] : ToSet(s) = batch /\ Loop(queue \o s)

WriteFails ==
  /\ "disk" \in Faults /\ pc = "writing"
  /\ IF attempt = MaxRetries
     THEN GiveUp
     ELSE attempt' = attempt + 1 /\ UNCHANGED <<queue, pc, batch, snap, last>>
  /\ UNCHANGED <<life, latest, memory, rows, heard>>
-----------------------------------------------------------------------------
(* Stop, and the end of the process                                        *)

StopCalled ==
  /\ life = "up"
  /\ life' = "stopping" /\ queue' = Append(queue, Sentinel)
  /\ UNCHANGED <<latest, memory, rows, pc, batch, snap, attempt, last, heard>>

StopReturns ==
  /\ life = "stopping" /\ pc = "none"
  /\ life' = "stopped"
  /\ UNCHANGED <<latest, memory, rows, workerVars, heard>>

\* The wait for the worker times out and cancels it; the database may or may
\* not get to the write it was in.
StopTimesOut ==
  /\ "timeout" \in Faults
  /\ life = "stopping" /\ pc # "none"
  /\ life' = "stopped" /\ pc' = "none" /\ NoBatch /\ heard' = Zero
  /\ rows' = rows \/ (pc = "writing" /\ rows' = Written)
  /\ UNCHANGED <<latest, memory, queue>>

ProcessEnds ==
  /\ life # "off" /\ ("crash" \in Faults \/ life = "stopped")
  /\ life' = "off" /\ memory' = Zero /\ heard' = Zero
  /\ queue' = <<>> /\ pc' = "none" /\ NoBatch
  /\ UNCHANGED <<latest, rows>>
-----------------------------------------------------------------------------
Work == Take \/ Collect \/ WindowCloses \/ WriteOk \/ WriteFails

Next ==
  \/ \E e \in Entity : Update(e)
  \/ StartBegins \/ Loaded
  \/ Take \/ Collect \/ WindowCloses \/ WriteOk \/ WriteFails
  \/ StopCalled \/ StopReturns \/ StopTimesOut \/ ProcessEnds

Spec == Init /\ [][Next]_vars

\* The worker and a stop that waits for it go on, and the disk does not fail
\* for ever.  Nobody need update an entity, start or stop.
FairSpec == Spec /\ WF_vars(Work) /\ WF_vars(StopReturns) /\ SF_vars(WriteOk)
-----------------------------------------------------------------------------
(* Properties                                                              *)

\* The variables hold the values the code gives them.
TypeOK ==
  /\ life \in {"off", "loading", "up", "stopping", "stopped"}
  /\ latest \in [Entity -> 0..MaxUpdates]
  /\ memory \in [Entity -> 0..MaxUpdates]
  /\ rows \in [Entity -> 0..MaxUpdates]
  /\ queue \in Seq(Entity \union {Sentinel})
  /\ pc \in {"none", "waiting", "collecting", "writing"}
  /\ batch \subseteq Entity
  /\ snap \in [Entity -> 0..MaxUpdates]
  /\ attempt \in 0..MaxRetries
  /\ last \in BOOLEAN
  /\ heard \in [Entity -> 0..MaxUpdates]

\* An update the service was told of is in the database or on its way there:
\* queued, collected, or in the write under way.  Updates during a write,
\* failed writes, put-backs and the last flush lose none.
OnItsWay ==
  \A e \in Entity :
    \/ heard[e] <= rows[e]
    \/ e \in ToSet(queue)
    \/ e \in batch /\ (pc = "writing" => heard[e] <= snap[e])

\* No write replaces a row by an older state, neither a retried or a put-back
\* one nor one by a process that has just restarted.
NeverBack == [][\A e \in Entity : rows'[e] >= rows[e]]_vars

\* An update the service was told of reaches the database without another
\* one, unless the process or the wait in stop is cut off, or the last flush
\* fails and leaves it in the queue.
EventuallyStored ==
  \A e \in Entity : \A v \in 1..MaxUpdates :
    heard[e] = v ~> \/ rows[e] >= v \/ heard[e] = 0
                    \/ life = "stopped" /\ e \in ToSet(queue)
=============================================================================
