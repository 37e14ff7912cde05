---------------------- MODULE EntityPersistenceProofs ----------------------
(***************************************************************************)
(* Theorems about EntityPersistence for every set of entities, batch size, *)
(* number of retries and set of faults.                                    *)
(***************************************************************************)
EXTENDS EntityPersistence, SequenceTheorems, FiniteSetTheorems, TLAPS

Id == Entity \union {Sentinel}
State == [Entity -> 0..MaxUpdates]
-----------------------------------------------------------------------------
(* Sequences                                                               *)

\* The elements of a queue with one more at its end.
LEMMA ToSetAppend ==
  ASSUME NEW S, NEW q \in Seq(S), NEW x \in S
  PROVE  ToSet(Append(q, x)) = ToSet(q) \union {x}
<1> DEFINE r == Append(q, x)
<1>1. /\ r \in Seq(S) /\ Len(r) = Len(q) + 1 /\ r[Len(q) + 1] = x
      /\ \A i \in 1..Len(q) : r[i] = q[i]
  OBVIOUS
<1>2. DOMAIN r = 1..Len(q) + 1 /\ DOMAIN q = 1..Len(q) /\ Len(q) \in Nat
  BY <1>1
<1> HIDE DEF r
<1>3. ToSet(r) = ToSet(q) \union {x}
  BY <1>1, <1>2 DEF ToSet
<1> QED BY <1>3 DEF r

\* The elements of a queue and of what is put behind it.
LEMMA ToSetConcat ==
  ASSUME NEW S, NEW q \in Seq(S), NEW s \in Seq(S)
  PROVE  ToSet(q \o s) = ToSet(q) \union ToSet(s)
<1> DEFINE r == q \o s
<1>1. /\ Len(r) = Len(q) + Len(s)
      /\ \A i \in 1..Len(q) : r[i] = q[i]
      /\ \A i \in 1..Len(s) : r[Len(q) + i] = s[i]
  OBVIOUS
<1>2. /\ DOMAIN r = 1..Len(q) + Len(s) /\ DOMAIN q = 1..Len(q) /\ DOMAIN s = 1..Len(s)
      /\ Len(q) \in Nat /\ Len(s) \in Nat
  OBVIOUS
<1> HIDE DEF r
<1>3. ASSUME NEW y \in ToSet(r) PROVE y \in ToSet(q) \union ToSet(s)
  <2>1. PICK i \in 1..Len(q) + Len(s) : r[i] = y
    BY <1>2, <1>3 DEF ToSet
  <2>2. CASE i \in 1..Len(q)
    BY <1>1, <1>2, <2>1, <2>2 DEF ToSet
  <2>3. CASE i \notin 1..Len(q)
    <3>1. i - Len(q) \in 1..Len(s) /\ i = Len(q) + (i - Len(q))
      BY <1>2, <2>1, <2>3
    <3>2. s[i - Len(q)] = y
      BY <1>1, <2>1, <3>1
    <3> QED BY <1>2, <3>1, <3>2 DEF ToSet
  <2> QED BY <2>2, <2>3
<1>4. ASSUME NEW y \in ToSet(q) PROVE y \in ToSet(r)
  BY <1>1, <1>2, <1>4 DEF ToSet
<1>5. ASSUME NEW y \in ToSet(s) PROVE y \in ToSet(r)
  <2>1. PICK i \in 1..Len(s) : s[i] = y
    BY <1>2, <1>5 DEF ToSet
  <2>2. Len(q) + i \in 1..Len(q) + Len(s)
    BY <1>2, <2>1
  <2> QED BY <1>1, <1>2, <2>1, <2>2 DEF ToSet
<1>6. ToSet(r) = ToSet(q) \union ToSet(s)
  BY <1>3, <1>4, <1>5
<1> QED BY <1>6 DEF r

\* The elements of a queue are its head and those behind it.
LEMMA ToSetTail ==
  ASSUME NEW S, NEW q \in Seq(S), q # <<>>
  PROVE  ToSet(q) = {Head(q)} \union ToSet(Tail(q))
<1> DEFINE h == <<Head(q)>>
           t == Tail(q)
<1>1. t \in Seq(S) /\ q = h \o t /\ h \in Seq(S)
  BY HeadTailProperties
<1>2. ToSet(h) = {Head(q)}
  BY DEF ToSet
<1> HIDE DEF h, t
<1>3. ToSet(h \o t) = ToSet(h) \union ToSet(t)
  BY <1>1, ToSetConcat
<1>4. ToSet(q) = {Head(q)} \union ToSet(t)
  BY <1>1, <1>2, <1>3
<1> QED BY <1>4 DEF t

\* The elements of a queue.
LEMMA ToSetIn ==
  ASSUME NEW S, NEW q \in Seq(S)
  PROVE  ToSet(q) \subseteq S
BY DEF ToSet
-----------------------------------------------------------------------------
(* Types                                                                   *)

\* The parts of TypeOK that only _persist_batch and the queue disturb.
WorkerOK ==
  /\ queue \in Seq(Id)
  /\ pc \in {"none", "waiting", "collecting", "writing"}
  /\ batch \subseteq Entity
  /\ snap \in State
  /\ attempt \in 0..MaxRetries
  /\ last \in BOOLEAN

RecordsOK ==
  /\ life \in {"off", "loading", "up", "stopping", "stopped"}
  /\ latest \in State /\ memory \in State /\ rows \in State /\ heard \in State

LEMMA TypeParts ==
  /\ TypeOK <=> RecordsOK /\ WorkerOK
  /\ TypeOK' <=> RecordsOK' /\ WorkerOK'
BY DEF TypeOK, RecordsOK, WorkerOK, State, Id

LEMMA ZeroOK == Zero \in State
BY PersistenceAssumption DEF Zero, State

\* Nothing is left in the worker's hands.
LEMMA NoBatchOK ==
  ASSUME NoBatch
  PROVE  batch' \subseteq Entity /\ snap' \in State /\ attempt' \in 0..MaxRetries /\ last' \in BOOLEAN
<1>1. snap' \in State
  BY ZeroOK DEF NoBatch
<1>2. 0 \in 0..MaxRetries
  BY PersistenceAssumption
<1> QED BY <1>1, <1>2 DEF NoBatch

\* A batch of entities is handed to _persist_batch.
LEMMA PersistOK ==
  ASSUME RecordsOK, NEW ids \in SUBSET Entity, NEW final \in BOOLEAN, Persist(ids, final),
         queue' \in Seq(Id)
  PROVE  WorkerOK'
<1>1. snap' \in State
  BY PersistenceAssumption DEF Persist, State, RecordsOK
<1>2. attempt' \in 0..MaxRetries
  BY PersistenceAssumption DEF Persist
<1> QED BY <1>1, <1>2 DEF Persist, WorkerOK

LEMMA DrainOK ==
  ASSUME RecordsOK, NEW q \in Seq(Id), Drain(q)
  PROVE  WorkerOK'
<1> DEFINE ids == ToSet(q) \ {Sentinel}
<1>1. ids \in SUBSET Entity
  BY ToSetIn, PersistenceAssumption DEF Id
<1>2. queue' \in Seq(Id)
  BY DEF Drain
<1>3. CASE ids = {}
  BY <1>2, <1>3, NoBatchOK DEF Drain, WorkerOK
<1>4. CASE ids # {}
  <2>1. Persist(ids, TRUE)
    BY <1>4 DEF Drain
  <2> QED BY <1>1, <1>2, <2>1, PersistOK
<1> QED BY <1>3, <1>4

LEMMA LoopOK ==
  ASSUME RecordsOK, WorkerOK, NEW q \in Seq(Id), Loop(q)
  PROVE  WorkerOK'
<1>1. last \in BOOLEAN
  BY DEF WorkerOK
<1>2. CASE last
  BY <1>2, NoBatchOK DEF Loop, WorkerOK
<1>3. CASE ~last /\ life = "up"
  BY <1>3, NoBatchOK DEF Loop, WorkerOK
<1>4. CASE ~last /\ life # "up"
  BY <1>4, DrainOK DEF Loop
<1> QED BY <1>1, <1>2, <1>3, <1>4

\* The ids that are put back are ids, and the same.
LEMMA PutBack ==
  ASSUME TypeOK, NEW s \in [1..Cardinality(batch) -> batch]
  PROVE  s \in Seq(Id) /\ queue \o s \in Seq(Id)
<1>1. batch \subseteq Entity /\ queue \in Seq(Id)
  BY DEF TypeOK, Id
<1>2. IsFiniteSet(batch)
  BY <1>1, PersistenceAssumption, FS_Subset
<1>3. Cardinality(batch) \in Nat
  BY <1>2, FS_CardinalityType
<1>4. s \in Seq(Id)
  <2>1. s \in [1..Cardinality(batch) -> Id]
    BY <1>1 DEF Id
  <2> QED BY <1>3, <2>1
<1>5. queue \o s \in Seq(Id)
  BY <1>1, <1>4
<1> QED BY <1>4, <1>5

LEMMA InitTypes == Init => TypeOK
<1> SUFFICES ASSUME Init PROVE TypeOK
  OBVIOUS
<1>1. RecordsOK
  BY ZeroOK DEF Init, RecordsOK
<1>2. queue \in Seq(Id) /\ 0 \in 0..MaxRetries /\ snap \in State
  BY ZeroOK, PersistenceAssumption DEF Init
<1>3. WorkerOK
  BY <1>2 DEF Init, WorkerOK
<1> QED BY <1>1, <1>3, TypeParts

LEMMA NextTypes ==
  ASSUME TypeOK, [Next]_vars
  PROVE  TypeOK'
<1> USE TypeParts
<1>0. RecordsOK /\ WorkerOK
  OBVIOUS
<1>1. ASSUME NEW e \in Entity, Update(e) PROVE TypeOK'
  <2>1. latest[e] + 1 \in 0..MaxUpdates
    BY <1>0, <1>1, PersistenceAssumption DEF Update, RecordsOK, State
  <2>2. latest' \in State /\ memory' \in State
    BY <1>0, <1>1, <2>1 DEF Update, RecordsOK, State
  <2>3. heard' \in State
    BY <1>0, <1>1, <2>1, <2>2 DEF Update, Heard, RecordsOK, State
  <2>4. queue' \in Seq(Id)
    BY <1>0, <1>1 DEF Update, Heard, WorkerOK, Id
  <2>5. RecordsOK'
    BY <1>0, <1>1, <2>2, <2>3 DEF Update, RecordsOK
  <2>6. WorkerOK'
    BY <1>0, <1>1, <2>4 DEF Update, WorkerOK
  <2> QED BY <2>5, <2>6
<1>2. CASE StartBegins
  <2>1. RecordsOK'
    BY <1>0, <1>2, ZeroOK DEF StartBegins, RecordsOK
  <2>2. WorkerOK'
    BY <1>0, <1>2 DEF StartBegins, WorkerOK
  <2> QED BY <2>1, <2>2
<1>3. CASE Loaded
  BY <1>0, <1>3 DEF Loaded, RecordsOK, WorkerOK
<1>4. CASE Take
  <2>0. RecordsOK'
    BY <1>0, <1>4 DEF Take, RecordsOK
  <2>1. Tail(queue) \in Seq(Id) /\ Head(queue) \in Id
    BY <1>0, <1>4, HeadTailProperties DEF Take, WorkerOK
  <2>2. CASE Head(queue) = Sentinel
    BY <1>0, <1>4, <2>0, <2>1, <2>2, DrainOK DEF Take
  <2>3. CASE Head(queue) # Sentinel
    BY <1>0, <1>4, <2>0, <2>1, <2>3 DEF Take, WorkerOK, Id
  <2> QED BY <2>2, <2>3
<1>5. CASE Collect
  <2>0. RecordsOK'
    BY <1>0, <1>5 DEF Collect, RecordsOK
  <2>1. Tail(queue) \in Seq(Id) /\ Head(queue) \in Id
    BY <1>0, <1>5, HeadTailProperties DEF Collect, WorkerOK
  <2>2. CASE Head(queue) = Sentinel
    BY <1>0, <1>5, <2>0, <2>1, <2>2, PersistOK DEF Collect, WorkerOK
  <2>3. CASE Head(queue) # Sentinel
    BY <1>0, <1>5, <2>0, <2>1, <2>3 DEF Collect, WorkerOK, Id
  <2> QED BY <2>2, <2>3
<1>6. CASE WindowCloses
  <2>1. RecordsOK'
    BY <1>0, <1>6 DEF WindowCloses, RecordsOK
  <2> QED BY <1>0, <1>6, <2>1, PersistOK DEF WindowCloses, WorkerOK
<1>7. CASE WriteOk
  <2>1. rows' \in State
    BY <1>0, <1>7 DEF WriteOk, Written, RecordsOK, WorkerOK, State
  <2>2. RecordsOK'
    BY <1>0, <1>7, <2>1 DEF WriteOk, RecordsOK
  <2> QED BY <1>0, <1>7, <2>2, LoopOK DEF WriteOk, WorkerOK
<1>8. CASE WriteFails
  <2>0. RecordsOK'
    BY <1>0, <1>8 DEF WriteFails, RecordsOK
  <2>1. CASE attempt = MaxRetries
    <3>1. PICK s \in [1..Cardinality(batch) -> batch] : Loop(queue \o s)
      BY <1>8, <2>1 DEF WriteFails, GiveUp
    <3> QED BY <1>0, <2>0, <3>1, PutBack, LoopOK
  <2>2. CASE attempt # MaxRetries
    <3>1. attempt + 1 \in 0..MaxRetries
      BY <1>0, <2>2, PersistenceAssumption DEF WorkerOK
    <3> QED BY <1>0, <1>8, <2>0, <2>2, <3>1 DEF WriteFails, WorkerOK
  <2> QED BY <2>1, <2>2
<1>9. CASE StopCalled
  BY <1>0, <1>9 DEF StopCalled, RecordsOK, WorkerOK, Id
<1>10. CASE StopReturns
  BY <1>0, <1>10 DEF StopReturns, RecordsOK, WorkerOK, workerVars
<1>11. CASE StopTimesOut
  <2>1. rows' \in State
    BY <1>0, <1>11 DEF StopTimesOut, Written, RecordsOK, WorkerOK, State
  <2>2. RecordsOK'
    BY <1>0, <1>11, <2>1, ZeroOK DEF StopTimesOut, RecordsOK
  <2>3. WorkerOK'
    BY <1>0, <1>11, NoBatchOK DEF StopTimesOut, WorkerOK
  <2> QED BY <2>2, <2>3
<1>12. CASE ProcessEnds
  <2>1. RecordsOK'
    BY <1>0, <1>12, ZeroOK DEF ProcessEnds, RecordsOK
  <2>2. WorkerOK'
    BY <1>0, <1>12, NoBatchOK DEF ProcessEnds, WorkerOK
  <2> QED BY <2>1, <2>2
<1>13. CASE UNCHANGED vars
  BY <1>0, <1>13 DEF vars, workerVars, RecordsOK, WorkerOK
<1> QED
  BY <1>1, <1>2, <1>3, <1>4, <1>5, <1>6, <1>7, <1>8, <1>9, <1>10, <1>11, <1>12, <1>13 DEF Next

\* Ids stay in the queue, states stay within the updates there were, and
\* attempts within the retries, in every run of the service and the worker.
THEOREM PersistenceTypes == Spec => []TypeOK
BY InitTypes, NextTypes, PTL DEF Spec
-----------------------------------------------------------------------------
(* What is on its way, and what it will replace                            *)

\* No record is ahead of the updates, nor the service ahead of memory.
Behind ==
  \A e \in Entity : rows[e] <= latest[e] /\ memory[e] <= latest[e] /\ heard[e] <= memory[e]

\* Memory has caught up with the row of an entity that waits to be written:
\* after a restart it is behind the rows, but no entity waits.
CaughtUp == \A e \in Entity : e \in ToSet(queue) \union batch => rows[e] <= memory[e]

\* So has the write under way, which memory may have left behind.
WriteCaughtUp ==
  pc = "writing" => \A e \in batch : rows[e] <= snap[e] /\ snap[e] <= memory[e]

\* The worker runs while the service does, and has a batch when it is not idle.
WorkerRuns ==
  /\ pc \in {"none", "waiting"} => batch = {}
  /\ life \in {"off", "loading", "stopped"} => pc = "none"

PersistenceInv == Behind /\ CaughtUp /\ WriteCaughtUp /\ WorkerRuns /\ OnItsWay

\* What holds once the worker has let go of its batch and keeps the ids of q.
Kept(q, new) ==
  \A e \in Entity :
    /\ new[e] <= latest[e]
    /\ e \in ToSet(q) => new[e] <= memory[e]
    /\ heard[e] <= new[e] \/ e \in ToSet(q)

\* A new batch is taken: what neither it nor the queue holds is in the rows.
LEMMA PersistKeeps ==
  ASSUME RecordsOK, Behind, NEW ids \in SUBSET Entity, NEW final, Persist(ids, final),
         UNCHANGED <<latest, memory, heard>>, life' \in {"up", "stopping"}, rows' \in State,
         \A e \in Entity : rows'[e] <= latest[e],
         \A e \in Entity : e \in ToSet(queue') \union ids => rows'[e] <= memory[e],
         \A e \in Entity : heard[e] <= rows'[e] \/ e \in ToSet(queue') \union ids
  PROVE  PersistenceInv'
<1>1. pc' = "writing" /\ batch' = ids /\ \A e \in ids : snap'[e] = memory[e]
  BY DEF Persist
<1>2. Behind'
  BY DEF Behind
<1>3. CaughtUp'
  BY <1>1 DEF CaughtUp
<1>4. WriteCaughtUp'
  BY <1>1 DEF WriteCaughtUp, RecordsOK, State
<1>5. WorkerRuns'
  BY <1>1 DEF WorkerRuns
<1>6. OnItsWay'
  BY <1>1 DEF OnItsWay, Behind
<1> QED BY <1>2, <1>3, <1>4, <1>5, <1>6 DEF PersistenceInv

\* The worker goes back to an idle state.
LEMMA IdleKeeps ==
  ASSUME RecordsOK, Behind, NEW q, Kept(q, rows'), queue' = q, NoBatch,
         UNCHANGED <<latest, memory, heard>>,
         \/ pc' = "none"
         \/ pc' = "waiting" /\ life' \in {"up", "stopping"}
  PROVE  PersistenceInv'
<1>1. batch' = {} /\ pc' # "writing"
  BY DEF NoBatch
<1>2. Behind' /\ CaughtUp' /\ OnItsWay'
  BY <1>1 DEF Behind, CaughtUp, OnItsWay, Kept
<1>3. WriteCaughtUp' /\ WorkerRuns'
  BY <1>1 DEF WriteCaughtUp, WorkerRuns
<1> QED BY <1>2, <1>3 DEF PersistenceInv

LEMMA DrainKeeps ==
  ASSUME RecordsOK, Behind, NEW q \in Seq(Id), Kept(q, rows'), Drain(q), rows' \in State,
         UNCHANGED <<life, latest, memory, heard>>, life \in {"up", "stopping"}
  PROVE  PersistenceInv'
<1> DEFINE ids == ToSet(q) \ {Sentinel}
<1>1. ids \in SUBSET Entity /\ \A e \in Entity : e \in ToSet(q) => e \in ids
  BY ToSetIn, PersistenceAssumption DEF Id
<1>2. queue' = <<>> /\ ToSet(<<>>) = {}
  BY DEF Drain, ToSet
<1>3. CASE ids = {}
  <2>1. NoBatch /\ pc' = "none"
    BY <1>3 DEF Drain
  <2>2. Kept(<<>>, rows')
    BY <1>1, <1>2, <1>3 DEF Kept
  <2> QED BY <1>2, <2>1, <2>2, IdleKeeps
<1>4. CASE ids # {}
  <2>1. Persist(ids, TRUE)
    BY <1>4 DEF Drain
  <2>2. /\ \A e \in Entity : rows'[e] <= latest[e]
        /\ \A e \in Entity : e \in ToSet(queue') \union ids => rows'[e] <= memory[e]
        /\ \A e \in Entity : heard[e] <= rows'[e] \/ e \in ToSet(queue') \union ids
    BY <1>1, <1>2 DEF Kept
  <2> HIDE DEF ids
  <2> QED BY <1>1, <2>1, <2>2, PersistKeeps
<1> QED BY <1>3, <1>4

LEMMA LoopKeeps ==
  ASSUME RecordsOK, WorkerOK, Behind, NEW q \in Seq(Id), Kept(q, rows'), Loop(q), rows' \in State,
         UNCHANGED <<life, latest, memory, heard>>, life \in {"up", "stopping"}
  PROVE  PersistenceInv'
<1>1. last \in BOOLEAN
  BY DEF WorkerOK
<1>2. CASE last
  BY <1>2, IdleKeeps DEF Loop
<1>3. CASE ~last /\ life = "up"
  BY <1>3, IdleKeeps DEF Loop
<1>4. CASE ~last /\ life # "up"
  BY <1>4, DrainKeeps DEF Loop
<1> QED BY <1>1, <1>2, <1>3, <1>4

LEMMA InitKept == Init => PersistenceInv
<1> SUFFICES ASSUME Init PROVE PersistenceInv
  OBVIOUS
<1>1. \A e \in Entity : rows[e] = 0 /\ latest[e] = 0 /\ memory[e] = 0 /\ heard[e] = 0
  BY DEF Init, Zero
<1>2. ToSet(queue) = {} /\ batch = {}
  BY DEF Init, ToSet
<1>3. Behind /\ CaughtUp /\ OnItsWay
  BY <1>1, <1>2 DEF Behind, CaughtUp, OnItsWay
<1>4. WriteCaughtUp /\ WorkerRuns
  BY DEF Init, WriteCaughtUp, WorkerRuns
<1> QED BY <1>3, <1>4 DEF PersistenceInv

\* A write that goes through, of memory as it was when the batch was taken.
LEMMA WrittenKept ==
  ASSUME TypeOK, PersistenceInv, pc = "writing"
  PROVE  /\ Kept(queue, Written)
         /\ \A e \in Entity : Written[e] >= rows[e]
<1>1. \A e \in Entity : Written[e] = IF e \in batch THEN snap[e] ELSE rows[e]
  BY DEF Written
<1>2. \A e \in Entity : /\ rows[e] \in Nat /\ snap[e] \in Nat /\ memory[e] \in Nat
                        /\ latest[e] \in Nat /\ heard[e] \in Nat
  BY TypeParts, PersistenceAssumption DEF RecordsOK, WorkerOK, State
<1>3. \A e \in Entity : Written[e] >= rows[e]
  BY <1>1, <1>2 DEF PersistenceInv, WriteCaughtUp
<1>4. \A e \in Entity : Written[e] <= latest[e]
  BY <1>1, <1>2 DEF PersistenceInv, WriteCaughtUp, Behind
<1>5. \A e \in Entity : e \in ToSet(queue) => Written[e] <= memory[e]
  BY <1>1, <1>2 DEF PersistenceInv, WriteCaughtUp, CaughtUp
<1>6. \A e \in Entity : heard[e] <= Written[e] \/ e \in ToSet(queue)
  <2> SUFFICES ASSUME NEW e \in Entity, e \notin ToSet(queue) PROVE heard[e] <= Written[e]
    OBVIOUS
  <2>1. heard[e] <= rows[e] \/ (e \in batch /\ heard[e] <= snap[e])
    BY DEF PersistenceInv, OnItsWay
  <2> QED BY <1>1, <1>2, <1>3, <2>1
<1> QED BY <1>3, <1>4, <1>5, <1>6 DEF Kept

LEMMA NextKept ==
  ASSUME TypeOK, TypeOK', PersistenceInv, [Next]_vars
  PROVE  PersistenceInv'
<1>0. RecordsOK /\ WorkerOK /\ RecordsOK' /\ WorkerOK'
  BY TypeParts
<1>n. \A e \in Entity : /\ rows[e] \in Nat /\ snap[e] \in Nat /\ memory[e] \in Nat
                        /\ latest[e] \in Nat /\ heard[e] \in Nat
  BY <1>0, PersistenceAssumption DEF RecordsOK, WorkerOK, State
<1>b. /\ Behind /\ CaughtUp /\ WriteCaughtUp /\ WorkerRuns /\ OnItsWay
  BY DEF PersistenceInv
<1>r. pc # "none" => life \in {"up", "stopping"}
  BY <1>0, <1>b DEF RecordsOK, WorkerRuns
<1>1. ASSUME NEW e \in Entity, Update(e) PROVE PersistenceInv'
  <2>1. /\ latest' = [latest EXCEPT ![e] = @ + 1] /\ memory' = [memory EXCEPT ![e] = latest[e] + 1]
        /\ UNCHANGED <<life, rows, pc, batch, snap>>
    BY <1>1 DEF Update
  <2>2. /\ memory'[e] = latest[e] + 1 /\ latest'[e] = latest[e] + 1
        /\ \A x \in Entity \ {e} : memory'[x] = memory[x] /\ latest'[x] = latest[x]
    BY <1>0, <2>1 DEF RecordsOK, State
  <2>a. ToSet(Append(queue, e)) = ToSet(queue) \union {e}
    <3>1. queue \in Seq(Id) /\ e \in Id
      BY <1>0 DEF WorkerOK, Id
    <3> QED BY <3>1, ToSetAppend
  <2>q. queue' = IF life = "up" THEN Append(queue, e) ELSE queue
    BY <1>1 DEF Update, Heard
  <2>3. /\ ToSet(queue') \subseteq ToSet(queue) \union {e}
        /\ ToSet(queue) \subseteq ToSet(queue')
    BY <2>a, <2>q
  <2>4. /\ \A x \in Entity \ {e} : heard'[x] = heard[x]
        /\ heard'[e] = heard[e] \/ (heard'[e] = memory'[e] /\ e \in ToSet(queue'))
    <3>1. CASE life = "up"
      <4>1. e \in ToSet(queue')
        BY <2>a, <2>q, <3>1
      <4>2. heard' = [heard EXCEPT ![e] = memory'[e]]
        BY <1>1, <3>1 DEF Update, Heard
      <4> QED BY <1>0, <4>1, <4>2 DEF RecordsOK, State
    <3>2. CASE life # "up"
      BY <1>1, <3>2 DEF Update, Heard
    <3> QED BY <3>1, <3>2
  <2>5. Behind'
    BY <1>n, <1>b, <2>1, <2>2, <2>4 DEF Behind
  <2>6. CaughtUp'
    BY <1>n, <1>b, <2>1, <2>2, <2>3 DEF CaughtUp, Behind
  <2>7. WriteCaughtUp'
    BY <1>n, <1>b, <2>1, <2>2, <1>0 DEF WriteCaughtUp, Behind, WorkerOK
  <2>8. WorkerRuns'
    BY <1>b, <2>1 DEF WorkerRuns
  <2>9. OnItsWay'
    BY <1>b, <2>1, <2>3, <2>4 DEF OnItsWay
  <2> QED BY <2>5, <2>6, <2>7, <2>8, <2>9 DEF PersistenceInv
<1>2. CASE StartBegins
  <2>1. pc = "none" /\ batch = {}
    BY <1>2, <1>b DEF StartBegins, WorkerRuns
  <2>2. ToSet(queue') = {} /\ batch' = {} /\ pc' = "none" /\ \A e \in Entity : heard'[e] = 0
    BY <1>2, <2>1 DEF StartBegins, ToSet, Zero
  <2>3. Behind' /\ CaughtUp' /\ OnItsWay'
    BY <1>2, <1>n, <1>b, <2>2 DEF StartBegins, Behind, CaughtUp, OnItsWay
  <2> QED BY <1>b, <2>2, <2>3 DEF PersistenceInv, WriteCaughtUp, WorkerRuns
<1>3. CASE Loaded
  BY <1>3, <1>b DEF Loaded, PersistenceInv, Behind, CaughtUp, OnItsWay, WriteCaughtUp, WorkerRuns
<1>4. CASE Take
  <2>1. /\ Tail(queue) \in Seq(Id) /\ Head(queue) \in Id
        /\ ToSet(queue) = {Head(queue)} \union ToSet(Tail(queue))
    BY <1>0, <1>4, HeadTailProperties, ToSetTail DEF Take, WorkerOK
  <2>2. /\ batch = {} /\ life \in {"up", "stopping"} /\ pc = "waiting"
        /\ UNCHANGED <<life, latest, memory, rows, heard>>
    BY <1>4, <1>b, <1>r DEF Take, WorkerRuns
  <2>3. CASE Head(queue) = Sentinel
    <3>1. Kept(Tail(queue), rows')
      BY <1>b, <2>1, <2>2, <2>3, PersistenceAssumption DEF Kept, Behind, CaughtUp, OnItsWay
    <3>2. Drain(Tail(queue))
      BY <1>4, <2>3 DEF Take
    <3>3. rows' \in State
      BY <1>0 DEF RecordsOK
    <3> QED BY <1>0, <1>b, <2>1, <2>2, <3>1, <3>2, <3>3, DrainKeeps
  <2>4. CASE Head(queue) # Sentinel
    <3>1. batch' = {Head(queue)} /\ queue' = Tail(queue) /\ pc' = "collecting"
      BY <1>4, <2>4 DEF Take
    <3>2. Behind' /\ CaughtUp' /\ OnItsWay'
      BY <1>b, <2>1, <2>2, <3>1 DEF Behind, CaughtUp, OnItsWay
    <3> QED BY <1>b, <2>2, <3>1, <3>2 DEF PersistenceInv, WriteCaughtUp, WorkerRuns
  <2> QED BY <2>3, <2>4
<1>5. CASE Collect
  <2>1. /\ Tail(queue) \in Seq(Id) /\ Head(queue) \in Id
        /\ ToSet(queue) = {Head(queue)} \union ToSet(Tail(queue))
    BY <1>0, <1>5, HeadTailProperties, ToSetTail DEF Collect, WorkerOK
  <2>2. /\ life' \in {"up", "stopping"} /\ pc = "collecting" /\ queue' = Tail(queue)
        /\ UNCHANGED <<life, latest, memory, rows, heard>>
    BY <1>5, <1>r DEF Collect
  <2>3. CASE Head(queue) = Sentinel
    <3>1. Persist(batch, FALSE) /\ batch \in SUBSET Entity /\ rows' \in State
      BY <1>0, <1>5, <2>3 DEF Collect, WorkerOK, RecordsOK
    <3>2. /\ \A e \in Entity : rows'[e] <= latest[e]
          /\ \A e \in Entity : e \in ToSet(queue') \union batch => rows'[e] <= memory[e]
          /\ \A e \in Entity : heard[e] <= rows'[e] \/ e \in ToSet(queue') \union batch
      BY <1>b, <2>1, <2>2, <2>3, PersistenceAssumption DEF Behind, CaughtUp, OnItsWay
    <3> QED BY <1>0, <1>b, <2>2, <3>1, <3>2, PersistKeeps
  <2>4. CASE Head(queue) # Sentinel
    <3>1. batch' = batch \union {Head(queue)} /\ pc' = "collecting"
      BY <1>5, <2>2, <2>4 DEF Collect
    <3>2. Behind' /\ CaughtUp' /\ OnItsWay'
      BY <1>b, <2>1, <2>2, <3>1 DEF Behind, CaughtUp, OnItsWay
    <3> QED BY <1>b, <2>2, <3>1, <3>2 DEF PersistenceInv, WriteCaughtUp, WorkerRuns
  <2> QED BY <2>3, <2>4
<1>6. CASE WindowCloses
  <2>1. /\ Persist(batch, FALSE) /\ batch \in SUBSET Entity /\ rows' \in State
        /\ UNCHANGED <<life, latest, memory, rows, queue, heard>> /\ life' \in {"up", "stopping"}
        /\ pc = "collecting"
    BY <1>0, <1>6, <1>r DEF WindowCloses, WorkerOK, RecordsOK
  <2>2. /\ \A e \in Entity : rows'[e] <= latest[e]
        /\ \A e \in Entity : e \in ToSet(queue') \union batch => rows'[e] <= memory[e]
        /\ \A e \in Entity : heard[e] <= rows'[e] \/ e \in ToSet(queue') \union batch
    BY <1>b, <2>1 DEF Behind, CaughtUp, OnItsWay
  <2> QED BY <1>0, <1>b, <2>1, <2>2, PersistKeeps
<1>7. CASE WriteOk
  <2>1. /\ Loop(queue) /\ queue \in Seq(Id) /\ rows' = Written /\ rows' \in State
        /\ life \in {"up", "stopping"} /\ UNCHANGED <<life, latest, memory, heard>>
    BY <1>0, <1>7, <1>r DEF WriteOk, WorkerOK, RecordsOK
  <2>2. Kept(queue, rows')
    BY <1>7, <2>1, WrittenKept DEF WriteOk
  <2> QED BY <1>0, <1>b, <2>1, <2>2, LoopKeeps
<1>8. CASE WriteFails
  <2>1. /\ pc = "writing" /\ life \in {"up", "stopping"} /\ rows' \in State
        /\ UNCHANGED <<life, latest, memory, rows, heard>>
    BY <1>0, <1>8, <1>r DEF WriteFails, RecordsOK
  <2>2. CASE attempt = MaxRetries
    <3>1. PICK s \in [1..Cardinality(batch) -> batch] : ToSet(s) = batch /\ Loop(queue \o s)
      BY <1>8, <2>2 DEF WriteFails, GiveUp
    <3>2. queue \o s \in Seq(Id) /\ ToSet(queue \o s) = ToSet(queue) \union batch
      <4>1. queue \in Seq(Id) /\ s \in Seq(Id) /\ queue \o s \in Seq(Id)
        BY <1>0, PutBack DEF WorkerOK
      <4>2. ToSet(queue \o s) = ToSet(queue) \union ToSet(s)
        BY <4>1, ToSetConcat
      <4> QED BY <3>1, <4>1, <4>2
    <3>3. Kept(queue \o s, rows')
      BY <1>b, <2>1, <3>2 DEF Kept, Behind, CaughtUp, OnItsWay
    <3> QED BY <1>0, <1>b, <2>1, <3>1, <3>2, <3>3, LoopKeeps
  <2>3. CASE attempt # MaxRetries
    BY <1>b, <1>8, <2>3
    DEF WriteFails, PersistenceInv, Behind, CaughtUp, OnItsWay, WriteCaughtUp, WorkerRuns
  <2> QED BY <2>2, <2>3
<1>9. CASE StopCalled
  <2>1. ToSet(queue') = ToSet(queue) \union {Sentinel}
    BY <1>0, <1>9, ToSetAppend DEF StopCalled, WorkerOK, Id
  <2>2. Behind' /\ CaughtUp' /\ OnItsWay'
    BY <1>b, <1>9, <2>1, PersistenceAssumption DEF StopCalled, Behind, CaughtUp, OnItsWay
  <2>3. WriteCaughtUp' /\ WorkerRuns'
    BY <1>b, <1>9 DEF StopCalled, WriteCaughtUp, WorkerRuns
  <2> QED BY <2>2, <2>3 DEF PersistenceInv
<1>10. CASE StopReturns
  BY <1>b, <1>10
  DEF StopReturns, workerVars, PersistenceInv, Behind, CaughtUp, OnItsWay, WriteCaughtUp, WorkerRuns
<1>11. CASE StopTimesOut
  <2>1. /\ rows' = rows \/ (pc = "writing" /\ rows' = Written)
        /\ UNCHANGED <<latest, memory, queue>> /\ pc' = "none" /\ batch' = {}
        /\ \A e \in Entity : heard'[e] = 0
    BY <1>11 DEF StopTimesOut, NoBatch, Zero
  <2>2. /\ \A e \in Entity : rows'[e] <= latest[e]
        /\ \A e \in Entity : e \in ToSet(queue) => rows'[e] <= memory[e]
    BY <1>b, <2>1, WrittenKept DEF Kept, Behind, CaughtUp
  <2>3. \A e \in Entity : rows'[e] \in Nat
    BY <1>0, PersistenceAssumption DEF RecordsOK, State
  <2>4. Behind' /\ CaughtUp' /\ OnItsWay'
    BY <1>n, <1>b, <2>1, <2>2, <2>3 DEF Behind, CaughtUp, OnItsWay
  <2> QED BY <2>1, <2>4 DEF PersistenceInv, WriteCaughtUp, WorkerRuns
<1>12. CASE ProcessEnds
  <2>1. /\ \A e \in Entity : heard'[e] = 0 /\ memory'[e] = 0
        /\ ToSet(queue') = {} /\ batch' = {} /\ pc' = "none" /\ UNCHANGED <<latest, rows>>
    BY <1>12 DEF ProcessEnds, NoBatch, Zero, ToSet
  <2>2. Behind' /\ CaughtUp' /\ OnItsWay'
    BY <1>n, <1>b, <2>1 DEF Behind, CaughtUp, OnItsWay
  <2> QED BY <2>1, <2>2 DEF PersistenceInv, WriteCaughtUp, WorkerRuns
<1>13. CASE UNCHANGED vars
  BY <1>b, <1>13
  DEF vars, workerVars, PersistenceInv, Behind, CaughtUp, OnItsWay, WriteCaughtUp, WorkerRuns
<1> QED
  BY <1>1, <1>2, <1>3, <1>4, <1>5, <1>6, <1>7, <1>8, <1>9, <1>10, <1>11, <1>12, <1>13 DEF Next

\* An update the service was told of is in the database or on its way there,
\* whatever writes fail, are put back, are cut off, or are cut short by a stop.
THEOREM UpdatesOnTheirWay == Spec => []OnItsWay
<1>1. TypeOK /\ PersistenceInv /\ [Next]_vars => TypeOK' /\ PersistenceInv'
  BY NextTypes, NextKept
<1>2. PersistenceInv => OnItsWay
  BY DEF PersistenceInv
<1> QED BY <1>1, <1>2, InitTypes, InitKept, PTL DEF Spec

\* The rows of no step are older than those before it: only writes change
\* them, and a write that goes through late still holds the newer state.
LEMMA StepsForward ==
  ASSUME TypeOK, PersistenceInv, [Next]_vars
  PROVE  [\A e \in Entity : rows'[e] >= rows[e]]_vars
<1>1. CASE UNCHANGED rows
  <2>1. \A e \in Entity : rows[e] \in Nat
    BY PersistenceAssumption DEF TypeOK
  <2> QED BY <1>1, <2>1
<1>2. CASE pc = "writing" /\ rows' = Written
  BY <1>2, WrittenKept
<1>3. UNCHANGED rows \/ (pc = "writing" /\ rows' = Written)
  BY DEF Next, Update, StartBegins, Loaded, Take, Collect, WindowCloses, WriteOk, WriteFails,
         StopCalled, StopReturns, StopTimesOut, ProcessEnds, vars
<1> QED BY <1>1, <1>2, <1>3

\* No write replaces a row by an older state, across retries, put-backs and
\* restarts of the process.
THEOREM RowsNeverGoBack == Spec => NeverBack
<1>1. TypeOK /\ PersistenceInv /\ [Next]_vars => TypeOK' /\ PersistenceInv'
  BY NextTypes, NextKept
<1>2. TypeOK /\ PersistenceInv /\ [Next]_vars => [\A e \in Entity : rows'[e] >= rows[e]]_vars
  BY StepsForward
<1> QED BY <1>1, <1>2, InitTypes, InitKept, PTL DEF Spec, NeverBack
=============================================================================
