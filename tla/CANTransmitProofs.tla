--------------------------- MODULE CANTransmitProofs ---------------------------
(***************************************************************************)
(* Theorems about CANTransmit for every set of interfaces and number of    *)
(* messages and writers.                                                   *)
(***************************************************************************)
EXTENDS CANTransmit, SequenceTheorems, TLAPS
-----------------------------------------------------------------------------
(* Sequences of messages                                                   *)

\* What FirstInOrder says of one interface.
InOrder(s) ==
  \A k \in 1..Len(s) : \/ \E j \in 1..(k - 1) : s[j] = s[k]
                       \/ \A j \in 1..(k - 1) : s[j] < s[k]

LEMMA AppendFacts ==
  ASSUME NEW S, NEW s \in Seq(S), NEW m \in S
  PROVE  /\ Append(s, m) \in Seq(S) /\ Len(Append(s, m)) = Len(s) + 1
         /\ \A k \in 1..Len(s) : Append(s, m)[k] = s[k]
         /\ Append(s, m)[Len(s) + 1] = m
         /\ Len(s) \in Nat
OBVIOUS

LEMMA TailFacts ==
  ASSUME NEW S, NEW s \in Seq(S), s # <<>>
  PROVE  /\ Tail(s) \in Seq(S) /\ Len(Tail(s)) = Len(s) - 1 /\ Head(s) = s[1] /\ s[1] \in S
         /\ \A k \in 1..Len(Tail(s)) : Tail(s)[k] = s[k + 1]
         /\ Len(s) \in Nat \ {0}
OBVIOUS

LEMMA ToSetAppend ==
  ASSUME NEW S, NEW s \in Seq(S), NEW m \in S
  PROVE  ToSet(Append(s, m)) = ToSet(s) \union {m}
<1> DEFINE t == Append(s, m)
<1>1. /\ t \in Seq(S) /\ Len(t) = Len(s) + 1 /\ t[Len(s) + 1] = m /\ Len(s) \in Nat
      /\ \A k \in 1..Len(s) : t[k] = s[k]
  BY AppendFacts
<1>2. DOMAIN t = 1..Len(s) + 1 /\ DOMAIN s = 1..Len(s)
  BY <1>1
<1> HIDE DEF t
<1>3. ToSet(t) = ToSet(s) \union {m}
  BY <1>1, <1>2 DEF ToSet
<1> QED BY <1>3 DEF t

\* A message that was sent before, or is newer than all of them, keeps order.
LEMMA AppendInOrder ==
  ASSUME NEW s \in Seq(Message), NEW m \in Message, InOrder(s),
         m \in ToSet(s) \/ \A x \in ToSet(s) : x < m
  PROVE  InOrder(Append(s, m))
<1> DEFINE t == Append(s, m)
<1>1. /\ Len(t) = Len(s) + 1 /\ t[Len(s) + 1] = m /\ Len(s) \in Nat
      /\ \A k \in 1..Len(s) : t[k] = s[k]
  BY AppendFacts
<1>2. DOMAIN s = 1..Len(s)
  OBVIOUS
<1> HIDE DEF t
<1>3. ASSUME NEW k \in 1..Len(t)
      PROVE  \/ \E j \in 1..(k - 1) : t[j] = t[k]
             \/ \A j \in 1..(k - 1) : t[j] < t[k]
  <2>1. CASE k \in 1..Len(s)
    <3>1. \A j \in 1..(k - 1) : j \in 1..Len(s)
      BY <1>1, <2>1
    <3> QED BY <1>1, <2>1, <3>1 DEF InOrder
  <2>2. CASE k = Len(s) + 1
    <3>1. k - 1 = Len(s)
      BY <1>1, <2>2
    <3>2. CASE m \in ToSet(s)
      BY <1>1, <1>2, <2>2, <3>1, <3>2 DEF ToSet
    <3>3. CASE \A x \in ToSet(s) : x < m
      BY <1>1, <1>2, <2>2, <3>1, <3>3 DEF ToSet
    <3> QED BY <3>2, <3>3
  <2> QED BY <1>1, <2>1, <2>2
<1>4. InOrder(t)
  BY <1>3 DEF InOrder
<1> QED BY <1>4 DEF t

\* The first of the sleepers leaves.
LEMMA FirstLeaves ==
  ASSUME NEW S, NEW s \in Seq(S), s # <<>>
  PROVE  RemoveAt(s, 1) = Tail(s)
<1>1. SubSeq(s, 1, 0) = <<>>
  OBVIOUS
<1>2. SubSeq(s, 2, Len(s)) = Tail(s) /\ Tail(s) \in Seq(S)
  OBVIOUS
<1>3. <<>> \o Tail(s) = Tail(s)
  BY <1>2
<1> QED BY <1>1, <1>2, <1>3 DEF RemoveAt
-----------------------------------------------------------------------------
(* Types                                                                   *)

State == {"none", "idle", "repeating", "ended"}

\* A writer between its two sends has a message for an interface in hand.
HandsOK ==
  /\ pc \in [Writer -> State]
  /\ hand \in [Writer -> Item \union {NoItem}]
  /\ \A w \in Writer : pc[w] = "repeating" => hand[w] \in Item /\ hand[w].to \in Interface

RestOK ==
  /\ running \in BOOLEAN /\ starts \in 0..MaxStarts /\ buses \subseteq Interface
  /\ queue \in Seq(Item) /\ queued \in 0..MaxMessages
  /\ sleepers \in Seq(Writer)
  /\ wire \in [Interface -> Seq(Message)]
  /\ failed \subseteq Message /\ bare \in BOOLEAN

LEMMA TypeParts == HandsOK /\ RestOK => TypeOK
BY DEF HandsOK, RestOK, TypeOK, State

LEMMA InitTypes == Init => HandsOK /\ RestOK
<1> SUFFICES ASSUME Init PROVE HandsOK /\ RestOK
  OBVIOUS
<1>1. 0 \in 0..MaxStarts /\ 0 \in 0..MaxMessages
  BY TransmitAssumption
<1>2. pc \in [Writer -> State] /\ hand \in [Writer -> Item \union {NoItem}]
      /\ \A w \in Writer : pc[w] = "none"
  BY DEF Init, State
<1>3. wire \in [Interface -> Seq(Message)]
  BY DEF Init
<1>4. HandsOK
  BY <1>2 DEF HandsOK
<1>5. queue \in Seq(Item) /\ sleepers \in Seq(Writer)
  BY DEF Init
<1>6. RestOK
  BY <1>1, <1>3, <1>5 DEF Init, RestOK
<1> QED BY <1>4, <1>6

\* What an Enqueue or a Take hands on.
LEMMA EnqueueTypes ==
  ASSUME HandsOK, RestOK, NEW i \in Interface \union {Nowhere}, Enqueue(i), bare' \in BOOLEAN
  PROVE  HandsOK' /\ RestOK'
<1>1. queued + 1 \in Message /\ queued + 1 \in 0..MaxMessages
  BY TransmitAssumption DEF Enqueue, RestOK, Message
<1>2. [msg |-> queued + 1, to |-> i] \in Item
  BY <1>1 DEF Item
<1>3. queue' \in Seq(Item) /\ queued' \in 0..MaxMessages
  BY <1>1, <1>2 DEF Enqueue, RestOK
<1> QED BY <1>3 DEF Enqueue, featureVars, writerVars, HandsOK, RestOK

LEMMA TakeTypes ==
  ASSUME HandsOK, RestOK, NEW w \in Writer, Take(w)
  PROVE  HandsOK' /\ RestOK'
<1> DEFINE item == Head(queue)
<1>1. item \in Item /\ Tail(queue) \in Seq(Item) /\ item.to \in Interface /\ item.msg \in Message
  <2>1. queue \in Seq(Item) /\ queue # <<>> /\ item.to # Nowhere
    BY DEF Take, RestOK
  <2>2. item \in Item /\ Tail(queue) \in Seq(Item)
    BY <2>1, HeadTailProperties
  <2> HIDE DEF item
  <2> QED BY <2>1, <2>2 DEF Item
<1>2. UNCHANGED <<featureVars, queued, bare>> /\ queue' = Tail(queue)
  BY DEF Take, SendFails
<1> HIDE DEF item
<1>3. CASE /\ wire' = [wire EXCEPT ![item.to] = Append(@, item.msg)]
           /\ pc' = [pc EXCEPT ![w] = "repeating"] /\ hand' = [hand EXCEPT ![w] = item]
           /\ sleepers' = Append(sleepers, w) /\ UNCHANGED failed
  <2>1. wire' \in [Interface -> Seq(Message)]
    BY <1>1, <1>3 DEF RestOK
  <2>2. sleepers' \in Seq(Writer)
    BY <1>3 DEF RestOK
  <2>3. HandsOK'
    BY <1>1, <1>3 DEF HandsOK, State
  <2> QED BY <1>1, <1>2, <1>3, <2>1, <2>2, <2>3 DEF RestOK, featureVars
<1>4. CASE failed' = failed \union {item.msg} /\ UNCHANGED <<pc, hand, sleepers, wire>>
  BY <1>1, <1>2, <1>4 DEF RestOK, HandsOK, featureVars
<1> QED BY <1>3, <1>4 DEF Take, SendFails, item

LEMMA RepeatTypes ==
  ASSUME HandsOK, RestOK, NEW w \in Writer, Repeat(w)
  PROVE  HandsOK' /\ RestOK'
<1>0. hand[w] \in Item /\ hand[w].to \in Interface /\ hand[w].msg \in Message
  BY DEF Repeat, HandsOK, Item
<1>1. sleepers # <<>> /\ sleepers' = Tail(sleepers) /\ sleepers' \in Seq(Writer)
  <2>1. sleepers # <<>> /\ sleepers' = RemoveAt(sleepers, 1)
    BY DEF Repeat, Wakes
  <2>2. sleepers \in Seq(Writer)
    BY DEF RestOK
  <2> QED BY <2>1, <2>2, FirstLeaves, TailFacts
<1>2. wire' \in [Interface -> Seq(Message)] /\ failed' \subseteq Message
  <2>1. CASE wire' = [wire EXCEPT ![hand[w].to] = Append(@, hand[w].msg)] /\ UNCHANGED failed
    BY <1>0, <2>1 DEF RestOK
  <2>2. CASE failed' = failed \union {hand[w].msg} /\ UNCHANGED wire
    BY <1>0, <2>2 DEF RestOK
  <2> QED BY <2>1, <2>2 DEF Repeat
<1>3. HandsOK'
  <2>1. pc' = [pc EXCEPT ![w] = "idle"] /\ hand' = [hand EXCEPT ![w] = NoItem]
    BY DEF Repeat
  <2> QED BY <2>1 DEF HandsOK, State
<1> QED BY <1>1, <1>2, <1>3 DEF Repeat, RestOK, featureVars, queueVars

LEMMA NextTypes ==
  ASSUME HandsOK, RestOK, [Next]_vars
  PROVE  HandsOK' /\ RestOK'
<1>1. CASE Startup
  <2>1. starts + 1 \in 0..MaxStarts /\ starts + 1 \in Writer
    BY <1>1, TransmitAssumption DEF Startup, RestOK, Writer
  <2>2. HandsOK'
    BY <1>1, <2>1 DEF Startup, HandsOK, State
  <2> QED BY <1>1, <2>1, <2>2 DEF Startup, RestOK, queueVars
<1>2. CASE Shutdown
  BY <1>2 DEF Shutdown, HandsOK, RestOK, queueVars, writerVars
<1>3. CASE SendPGNRequest
  BY <1>3, EnqueueTypes DEF SendPGNRequest
<1>4. ASSUME NEW i \in Interface, SendRawMessage(i) PROVE HandsOK' /\ RestOK'
  BY <1>4, EnqueueTypes DEF SendRawMessage, RestOK
<1>5. ASSUME NEW w \in Writer, TakeMalformed(w) PROVE HandsOK' /\ RestOK'
  <2>1. queue' = Tail(queue) /\ queue' \in Seq(Item)
    BY <1>5, HeadTailProperties DEF TakeMalformed, RestOK
  <2>2. HandsOK'
    BY <1>5 DEF TakeMalformed, HandsOK, State
  <2> QED BY <1>5, <2>1, <2>2 DEF TakeMalformed, RestOK, featureVars
<1>6. CASE UNCHANGED vars
  BY <1>6 DEF vars, featureVars, queueVars, writerVars, HandsOK, RestOK
<1> QED BY <1>1, <1>2, <1>3, <1>4, <1>5, <1>6, TakeTypes, RepeatTypes DEF Next

\* A writer between its sends has a message and its interface at hand, and the
\* queue holds nothing but messages, with an interface or without.
THEOREM TransmitTypes == Spec => []TypeOK
<1>1. HandsOK /\ RestOK /\ [Next]_vars => HandsOK' /\ RestOK'
  BY NextTypes
<1> QED BY <1>1, InitTypes, TypeParts, PTL DEF Spec
-----------------------------------------------------------------------------
(* Order                                                                   *)

On(i) == ToSet(wire[i])
Repeats(w) == pc[w] = "repeating"

\* The queue holds messages in the order they were queued, all newer than
\* those that were sent.
QueueOrdered ==
  \A a \in 1..Len(queue) :
    /\ queue[a].msg <= queued
    /\ \A b \in 1..Len(queue) : a < b => queue[a].msg < queue[b].msg
    /\ \A i \in Interface : \A m \in On(i) : m < queue[a].msg
SentQueued == \A i \in Interface : \A m \in On(i) : m <= queued

\* Writers that have not been started do nothing.
Unstarted == \A w \in Writer : w > starts => pc[w] = "none"

\* A message is sent on one interface.
SentOnOne == \A i, j \in Interface : \A m \in On(i) : m \in On(j) => i = j

\* What a writer will repeat was sent.
HandSent == \A w \in Writer : Repeats(w) => hand[w].msg \in On(hand[w].to)

\* The sleepers are the writers that will repeat, the oldest message first.
SleepersOrdered ==
  /\ \A w \in Writer : Repeats(w) <=> w \in ToSet(sleepers)
  /\ \A a, b \in 1..Len(sleepers) : a < b => hand[sleepers[a]].msg < hand[sleepers[b]].msg

\* A message newer than one that will be repeated will be too, or has failed.
NewerRepeated ==
  \A w \in Writer : Repeats(w) =>
    \A i \in Interface : \A m \in On(i) :
      m > hand[w].msg => m \in failed \/ \E v \in Writer : Repeats(v) /\ hand[v].msg = m

\* The newest message of an interface ends it, or its repeat is to come.
LastWord ==
  \A i \in Interface : \A m \in On(i) :
    m <= wire[i][Len(wire[i])] \/ m \in failed \/ \E w \in Writer : Repeats(w) /\ hand[w].msg = m

AllInOrder == \A i \in Interface : InOrder(wire[i])

WireInv == SentOnOne /\ HandSent /\ SleepersOrdered /\ NewerRepeated /\ LastWord /\ AllInOrder
OrderInv == QueueOrdered /\ SentQueued /\ Unstarted /\ WireInv

LEMMA MessageType == Message \subseteq Nat \ {0}
BY TransmitAssumption DEF Message

LEMMA InitOrder == Init => OrderInv
<1> SUFFICES ASSUME Init PROVE OrderInv
  OBVIOUS
<1>1. \A i \in Interface : On(i) = {} /\ InOrder(wire[i])
  BY DEF Init, On, ToSet, InOrder
<1>2. \A w \in Writer : ~Repeats(w) /\ pc[w] = "none"
  BY DEF Init, Repeats
<1>3. queue = <<>> /\ Len(queue) = 0 /\ Len(sleepers) = 0 /\ ToSet(sleepers) = {}
  BY DEF Init, ToSet
<1>4. QueueOrdered /\ SentQueued /\ Unstarted
  BY <1>1, <1>2, <1>3 DEF QueueOrdered, SentQueued, Unstarted
<1>5. WireInv
  BY <1>1, <1>2, <1>3 DEF WireInv, SentOnOne, HandSent, SleepersOrdered, NewerRepeated, LastWord, AllInOrder
<1> QED BY <1>4, <1>5 DEF OrderInv

\* Steps that send nothing and end no repeat.
LEMMA WireKept ==
  ASSUME WireInv, UNCHANGED <<wire, sleepers, hand>>, failed \subseteq failed',
         \A w \in Writer : Repeats(w)' <=> Repeats(w)
  PROVE  WireInv'
<1>1. \A i \in Interface : On(i)' = On(i)
  BY DEF On
<1>2. SentOnOne' /\ HandSent' /\ SleepersOrdered'
  BY <1>1 DEF WireInv, SentOnOne, HandSent, SleepersOrdered, On
<1>3. NewerRepeated' /\ LastWord'
  BY <1>1 DEF WireInv, NewerRepeated, LastWord
<1>4. AllInOrder'
  BY DEF WireInv, AllInOrder
<1> QED BY <1>2, <1>3, <1>4 DEF WireInv

\* The queue of a Take is shorter, that of an Enqueue longer.
LEMMA EnqueueOrder ==
  ASSUME RestOK, OrderInv, NEW i \in Interface \union {Nowhere}, Enqueue(i)
  PROVE  OrderInv'
<1> DEFINE new == [msg |-> queued + 1, to |-> i]
<1>0. queued \in Nat /\ queued + 1 \in Message /\ queue \in Seq(Item) /\ queued' = queued + 1
  BY TransmitAssumption DEF RestOK, Enqueue, Message
<1>1. new \in Item /\ new.msg = queued + 1 /\ queue' = Append(queue, new)
  BY <1>0 DEF Item, Enqueue
<1> HIDE DEF new
<1>2. /\ Len(queue') = Len(queue) + 1 /\ queue'[Len(queue) + 1] = new /\ Len(queue) \in Nat
      /\ \A a \in 1..Len(queue) : queue'[a] = queue[a] /\ queue[a].msg \in Nat
  <2>1. /\ Len(queue') = Len(queue) + 1 /\ queue'[Len(queue) + 1] = new /\ Len(queue) \in Nat
        /\ \A a \in 1..Len(queue) : queue'[a] = queue[a]
    BY <1>0, <1>1, AppendFacts
  <2>2. \A a \in 1..Len(queue) : queue[a] \in Item
    BY <1>0
  <2>3. \A x \in Item : x.msg \in Nat
    BY MessageType DEF Item
  <2> QED BY <2>1, <2>2, <2>3
<1>3. UNCHANGED <<starts, pc, hand, sleepers, wire, failed>>
  BY DEF Enqueue, featureVars, writerVars
<1>4. \A j \in Interface : On(j)' = On(j) /\ \A m \in On(j) : m \in Nat /\ m <= queued
  <2>1. \A j \in Interface : On(j) \subseteq Message
    BY DEF On, ToSet, RestOK
  <2> QED BY <1>3, <2>1, MessageType DEF OrderInv, SentQueued, On
<1>5. SentQueued'
  BY <1>0, <1>4 DEF SentQueued
<1>6. QueueOrdered'
  <2> SUFFICES ASSUME NEW a \in 1..Len(queue')
               PROVE  /\ queue'[a].msg <= queued'
                      /\ \A b \in 1..Len(queue') : a < b => queue'[a].msg < queue'[b].msg
                      /\ \A j \in Interface : \A m \in On(j)' : m < queue'[a].msg
    BY DEF QueueOrdered
  <2>1. CASE a \in 1..Len(queue)
    <3>1. /\ queue[a].msg <= queued /\ \A j \in Interface : \A m \in On(j) : m < queue[a].msg
          /\ \A b \in 1..Len(queue) : a < b => queue[a].msg < queue[b].msg
      BY <2>1 DEF OrderInv, QueueOrdered
    <3>2. queue'[a].msg = queue[a].msg /\ queue[a].msg \in Nat
      BY <1>2, <2>1
    <3>3. queue[a].msg < new.msg
      BY <1>0, <1>1, <3>1, <3>2
    <3>4. ASSUME NEW b \in 1..Len(queue'), a < b PROVE queue'[a].msg < queue'[b].msg
      <4>1. CASE b \in 1..Len(queue)
        BY <1>2, <3>1, <3>2, <3>4, <4>1
      <4>2. CASE b = Len(queue) + 1
        BY <1>2, <3>2, <3>3, <4>2
      <4> QED BY <1>2, <4>1, <4>2
    <3> QED BY <1>0, <1>4, <3>1, <3>2, <3>4
  <2>2. CASE a = Len(queue) + 1
    BY <1>0, <1>1, <1>2, <1>4, <2>2
  <2> QED BY <1>2, <2>1, <2>2
<1>7. Unstarted' /\ \A w \in Writer : Repeats(w)' <=> Repeats(w)
  BY <1>3 DEF OrderInv, Unstarted, Repeats
<1>8. WireInv'
  BY <1>3, <1>7, WireKept DEF OrderInv
<1> QED BY <1>5, <1>6, <1>7, <1>8 DEF OrderInv

\* The first item leaves the queue, and may be sent.
LEMMA QueueShrinks ==
  ASSUME RestOK, OrderInv, queue # <<>>, queue' = Tail(queue), UNCHANGED queued,
         \A i \in Interface : On(i)' \subseteq On(i) \union {Head(queue).msg}
  PROVE  QueueOrdered' /\ SentQueued'
<1>1. queue \in Seq(Item)
  BY DEF RestOK
<1>2. /\ Len(queue') = Len(queue) - 1 /\ Head(queue) = queue[1] /\ Len(queue) \in Nat \ {0}
      /\ \A a \in 1..Len(queue') : queue'[a] = queue[a + 1] /\ a + 1 \in 1..Len(queue)
  BY <1>1, TailFacts
<1>3. /\ queue[1].msg <= queued
      /\ \A a \in 1..Len(queue') : /\ queue'[a].msg <= queued
                                   /\ queue[1].msg < queue'[a].msg
  BY <1>2 DEF OrderInv, QueueOrdered
<1>4. QueueOrdered'
  <2> SUFFICES ASSUME NEW a \in 1..Len(queue')
               PROVE  /\ queue'[a].msg <= queued'
                      /\ \A b \in 1..Len(queue') : a < b => queue'[a].msg < queue'[b].msg
                      /\ \A j \in Interface : \A m \in On(j)' : m < queue'[a].msg
    BY DEF QueueOrdered
  <2>1. \A j \in Interface : \A m \in On(j) : m < queue'[a].msg
    BY <1>2 DEF OrderInv, QueueOrdered
  <2>2. \A b \in 1..Len(queue') : a < b => queue'[a].msg < queue'[b].msg
    <3> SUFFICES ASSUME NEW b \in 1..Len(queue'), a < b PROVE queue[a + 1].msg < queue[b + 1].msg
      BY <1>2
    <3>1. a + 1 \in 1..Len(queue) /\ b + 1 \in 1..Len(queue) /\ a + 1 < b + 1
      BY <1>2
    <3> QED BY <3>1 DEF OrderInv, QueueOrdered
  <2> QED BY <1>2, <1>3, <2>1, <2>2
<1>5. SentQueued'
  BY <1>2, <1>3 DEF OrderInv, SentQueued
<1> QED BY <1>4, <1>5

\* A message is sent for the first time.
LEMMA FirstSent ==
  ASSUME HandsOK, RestOK, OrderInv, NEW w \in Writer, ~Repeats(w), queue # <<>>,
         NEW item, item = Head(queue), item.to \in Interface, item.msg \in Message,
         wire' = [wire EXCEPT ![item.to] = Append(@, item.msg)],
         pc' = [pc EXCEPT ![w] = "repeating"], hand' = [hand EXCEPT ![w] = item],
         sleepers' = Append(sleepers, w), UNCHANGED failed
  PROVE  /\ WireInv'
         /\ \A i \in Interface : On(i)' \subseteq On(i) \union {item.msg}
<1>0. /\ \A i \in Interface : wire[i] \in Seq(Message) /\ On(i) \subseteq Message
      /\ Message \subseteq Nat /\ item.msg \in Nat
  <2>1. \A i \in Interface : wire[i] \in Seq(Message)
    BY DEF RestOK
  <2>2. \A i \in Interface : On(i) \subseteq Message
    BY DEF RestOK, On, ToSet
  <2> QED BY <2>1, <2>2, MessageType
<1>1. \A i \in Interface : wire'[i] = IF i = item.to THEN Append(wire[i], item.msg) ELSE wire[i]
  BY DEF RestOK
<1>2. \A i \in Interface : On(i)' = IF i = item.to THEN On(i) \union {item.msg} ELSE On(i)
  <2> SUFFICES ASSUME NEW i \in Interface
               PROVE  On(i)' = IF i = item.to THEN On(i) \union {item.msg} ELSE On(i)
    OBVIOUS
  <2>1. ToSet(Append(wire[i], item.msg)) = ToSet(wire[i]) \union {item.msg}
    BY <1>0, ToSetAppend
  <2>2. On(i)' = ToSet(wire'[i])
    BY DEF On
  <2>3. wire'[i] = IF i = item.to THEN Append(wire[i], item.msg) ELSE wire[i]
    BY <1>1
  <2>4. CASE i = item.to
    BY <2>1, <2>2, <2>3, <2>4 DEF On
  <2>5. CASE i # item.to
    BY <2>2, <2>3, <2>5 DEF On
  <2> QED BY <2>4, <2>5
<1>3. \A i \in Interface : \A m \in On(i) : m < item.msg
  <2>1. 1 \in 1..Len(queue) /\ item = queue[1]
    BY TailFacts DEF RestOK
  <2> QED BY <2>1 DEF OrderInv, QueueOrdered
<1>4. /\ \A v \in Writer : Repeats(v)' <=> Repeats(v) \/ v = w
      /\ \A v \in Writer : hand'[v] = IF v = w THEN item ELSE hand[v]
  BY DEF HandsOK, Repeats
<1>5. \A v \in Writer : Repeats(v) => /\ hand[v].to \in Interface /\ hand[v].msg \in Nat
                                      /\ hand[v].msg \in On(hand[v].to) /\ hand[v].msg < item.msg
  BY <1>0, <1>3 DEF HandsOK, Repeats, Item, OrderInv, WireInv, HandSent
<1>6. HandSent'
  BY <1>2, <1>4, <1>5 DEF HandSent
<1>7. SleepersOrdered'
  <2>1. /\ Len(sleepers') = Len(sleepers) + 1 /\ sleepers'[Len(sleepers) + 1] = w
        /\ \A a \in 1..Len(sleepers) : sleepers'[a] = sleepers[a] /\ sleepers[a] \in Writer
        /\ Len(sleepers) \in Nat /\ ToSet(sleepers') = ToSet(sleepers) \union {w}
        /\ \A a \in 1..Len(sleepers) : sleepers[a] \in ToSet(sleepers)
    <3>1. sleepers \in Seq(Writer)
      BY DEF RestOK
    <3>2. /\ Len(sleepers') = Len(sleepers) + 1 /\ sleepers'[Len(sleepers) + 1] = w
          /\ \A a \in 1..Len(sleepers) : sleepers'[a] = sleepers[a]
          /\ Len(sleepers) \in Nat
      BY <3>1, AppendFacts
    <3>3. ToSet(sleepers') = ToSet(sleepers) \union {w}
      BY <3>1, ToSetAppend
    <3>4. \A a \in 1..Len(sleepers) : sleepers[a] \in Writer /\ sleepers[a] \in ToSet(sleepers)
      BY <3>1 DEF ToSet
    <3> QED BY <3>2, <3>3, <3>4
  <2>2. \A v \in Writer : Repeats(v) <=> v \in ToSet(sleepers)
    BY DEF OrderInv, WireInv, SleepersOrdered
  <2>3. \A v \in Writer : Repeats(v)' <=> v \in ToSet(sleepers')
    BY <1>4, <2>1, <2>2
  <2>4. ASSUME NEW a \in 1..Len(sleepers'), NEW b \in 1..Len(sleepers'), a < b
        PROVE  hand'[sleepers'[a]].msg < hand'[sleepers'[b]].msg
    <3>1. a \in 1..Len(sleepers)
      BY <2>1, <2>4
    <3>2. Repeats(sleepers[a]) /\ hand'[sleepers'[a]] = hand[sleepers[a]]
      BY <1>4, <2>1, <2>2, <3>1
    <3>3. CASE b = Len(sleepers) + 1
      BY <1>4, <1>5, <2>1, <3>1, <3>2, <3>3
    <3>4. CASE b \in 1..Len(sleepers)
      <4>1. hand'[sleepers'[b]] = hand[sleepers[b]]
        BY <1>4, <2>1, <2>2, <3>4
      <4> QED BY <2>4, <3>1, <3>2, <3>4, <4>1 DEF OrderInv, WireInv, SleepersOrdered
    <3> QED BY <2>1, <3>3, <3>4
  <2> QED BY <2>3, <2>4 DEF SleepersOrdered
<1>8. NewerRepeated'
  <2> SUFFICES ASSUME NEW v \in Writer, Repeats(v)', NEW i \in Interface, NEW m \in On(i)',
                      m > hand'[v].msg
               PROVE  m \in failed \/ \E x \in Writer : Repeats(x)' /\ hand'[x].msg = m
    BY DEF NewerRepeated
  <2>1. CASE m = item.msg
    BY <1>4, <2>1
  <2>2. CASE m # item.msg
    <3>1. m \in On(i) /\ m < item.msg /\ m \in Nat
      BY <1>0, <1>2, <1>3, <2>2
    <3>2. v # w /\ hand'[v] = hand[v] /\ Repeats(v)
      BY <1>0, <1>4, <3>1
    <3>3. m \in failed \/ \E x \in Writer : Repeats(x) /\ hand[x].msg = m
      BY <3>1, <3>2 DEF OrderInv, WireInv, NewerRepeated
    <3> QED BY <1>4, <3>3
  <2> QED BY <2>1, <2>2
<1>9. LastWord'
  <2> SUFFICES ASSUME NEW i \in Interface, NEW m \in On(i)'
               PROVE  \/ m <= wire'[i][Len(wire'[i])] \/ m \in failed
                      \/ \E x \in Writer : Repeats(x)' /\ hand'[x].msg = m
    BY DEF LastWord
  <2>1. CASE i = item.to
    <3>1. wire'[i][Len(wire'[i])] = item.msg
      <4>1. wire'[i] = Append(wire[i], item.msg) /\ wire[i] \in Seq(Message)
        BY <1>0, <1>1, <2>1
      <4>2. Len(Append(wire[i], item.msg)) = Len(wire[i]) + 1
            /\ Append(wire[i], item.msg)[Len(wire[i]) + 1] = item.msg
        BY <4>1, AppendFacts
      <4> QED BY <4>1, <4>2
    <3>2. m <= item.msg
      <4>1. m = item.msg \/ (m \in On(i) /\ m \in Nat /\ m < item.msg)
        BY <1>0, <1>2, <1>3, <2>1
      <4> QED BY <1>0, <4>1
    <3> QED BY <3>1, <3>2
  <2>2. CASE i # item.to
    <3>1. wire'[i] = wire[i] /\ m \in On(i)
      BY <1>1, <1>2, <2>2
    <3>2. \/ m <= wire[i][Len(wire[i])] \/ m \in failed
          \/ \E x \in Writer : Repeats(x) /\ hand[x].msg = m
      BY <3>1 DEF OrderInv, WireInv, LastWord
    <3> QED BY <1>4, <3>1, <3>2
  <2> QED BY <2>1, <2>2
<1>10. AllInOrder'
  <2> SUFFICES ASSUME NEW i \in Interface PROVE InOrder(wire'[i])
    BY DEF AllInOrder
  <2>1. InOrder(wire[i]) /\ wire[i] \in Seq(Message) /\ \A x \in ToSet(wire[i]) : x < item.msg
    <3>1. InOrder(wire[i])
      BY DEF OrderInv, WireInv, AllInOrder
    <3>2. wire[i] \in Seq(Message)
      BY <1>0
    <3> QED BY <1>3, <3>1, <3>2 DEF On
  <2>2. InOrder(Append(wire[i], item.msg))
    BY <1>0, <2>1, AppendInOrder
  <2> QED BY <1>1, <2>1, <2>2
<1>11. SentOnOne'
  <2> SUFFICES ASSUME NEW i \in Interface, NEW j \in Interface, NEW m, m \in On(i)', m \in On(j)'
               PROVE  i = j
    BY DEF SentOnOne
  <2>1. CASE m = item.msg
    <3>1. \A k \in Interface : item.msg \notin On(k)
      BY <1>0, <1>3
    <3> QED BY <1>2, <2>1, <3>1
  <2>2. CASE m # item.msg
    BY <1>2, <2>2 DEF OrderInv, WireInv, SentOnOne
  <2> QED BY <2>1, <2>2
<1> QED BY <1>2, <1>6, <1>7, <1>8, <1>9, <1>10, <1>11 DEF WireInv

\* The oldest sleeper wakes, and its message is sent again or fails.
LEMMA RepeatWire ==
  ASSUME HandsOK, RestOK, OrderInv, NEW w \in Writer, Repeat(w)
  PROVE  /\ WireInv'
         /\ \A i \in Interface : On(i)' = On(i)
<1> DEFINE old == hand[w].msg
           there == hand[w].to
<1>0. /\ Repeats(w) /\ there \in Interface /\ old \in Message /\ old \in On(there)
      /\ Message \subseteq Nat
  <2>1. Repeats(w)
    BY DEF Repeat, Repeats
  <2>2. hand[w] \in Item /\ there \in Interface
    BY <2>1 DEF HandsOK, Repeats
  <2>3. old \in On(there)
    BY <2>1 DEF OrderInv, WireInv, HandSent
  <2> QED BY <2>1, <2>2, <2>3, MessageType DEF Item
<1>1. \/ /\ wire' = [wire EXCEPT ![there] = Append(@, old)]
         /\ UNCHANGED failed
      \/ failed' = failed \union {old} /\ UNCHANGED wire
  BY DEF Repeat
<1>2. pc' = [pc EXCEPT ![w] = "idle"] /\ hand' = [hand EXCEPT ![w] = NoItem]
  BY DEF Repeat
<1>3. sleepers \in Seq(Writer) /\ sleepers # <<>> /\ sleepers[1] = w /\ sleepers' = Tail(sleepers)
  <2>1. sleepers # <<>> /\ sleepers' = RemoveAt(sleepers, 1) /\ sleepers[1] = w
    BY DEF Repeat, Wakes
  <2>2. sleepers \in Seq(Writer)
    BY DEF RestOK
  <2> QED BY <2>1, <2>2, FirstLeaves
<1> HIDE DEF old, there
<1>4. \A i \in Interface : wire[i] \in Seq(Message) /\ On(i) \subseteq Message
  <2>1. \A i \in Interface : wire[i] \in Seq(Message)
    BY DEF RestOK
  <2> QED BY <2>1 DEF On, ToSet
<1>5. \A i \in Interface : wire'[i] = wire[i] \/ (i = there /\ wire'[i] = Append(wire[i], old))
  BY <1>1 DEF RestOK
<1>6. \A i \in Interface : On(i)' = On(i)
  <2> SUFFICES ASSUME NEW i \in Interface PROVE ToSet(wire'[i]) = ToSet(wire[i])
    BY DEF On
  <2>1. ToSet(Append(wire[i], old)) = ToSet(wire[i]) \union {old}
    BY <1>0, <1>4, ToSetAppend
  <2> QED BY <1>0, <1>5, <2>1 DEF On
<1>7. /\ \A v \in Writer : Repeats(v)' <=> Repeats(v) /\ v # w
      /\ \A v \in Writer \ {w} : hand'[v] = hand[v]
  BY <1>2 DEF HandsOK, Repeats
<1>8. HandSent'
  BY <1>6, <1>7 DEF HandSent, OrderInv, WireInv, HandsOK, Repeats
<1>9. /\ Len(sleepers') = Len(sleepers) - 1 /\ Len(sleepers) \in Nat \ {0}
      /\ \A a \in 1..Len(sleepers') : sleepers'[a] = sleepers[a + 1] /\ a + 1 \in 1..Len(sleepers)
      /\ sleepers' \in Seq(Writer)
  BY <1>3, TailFacts
<1>10. /\ \A a, b \in 1..Len(sleepers) : a < b => hand[sleepers[a]].msg < hand[sleepers[b]].msg
       /\ \A v \in Writer : Repeats(v) <=> \E a \in 1..Len(sleepers) : sleepers[a] = v
       /\ \A v \in Writer : Repeats(v) => hand[v].msg \in Nat
  <2>1. \A v \in Writer : v \in ToSet(sleepers) <=> \E a \in 1..Len(sleepers) : sleepers[a] = v
    BY <1>3 DEF ToSet
  <2>2. \A v \in Writer : Repeats(v) => hand[v].msg \in Nat
    BY MessageType DEF HandsOK, Repeats, Item
  <2> QED BY <2>1, <2>2 DEF OrderInv, WireInv, SleepersOrdered
<1>11. \A a \in 1..Len(sleepers) : /\ sleepers[a] \in Writer /\ Repeats(sleepers[a])
                                   /\ a # 1 => sleepers[a] # w /\ old < hand[sleepers[a]].msg
  <2> SUFFICES ASSUME NEW a \in 1..Len(sleepers)
               PROVE  /\ sleepers[a] \in Writer /\ Repeats(sleepers[a])
                      /\ a # 1 => sleepers[a] # w /\ old < hand[sleepers[a]].msg
    OBVIOUS
  <2>1. sleepers[a] \in Writer /\ Repeats(sleepers[a])
    BY <1>3, <1>10
  <2>2. ASSUME a # 1 PROVE sleepers[a] # w /\ old < hand[sleepers[a]].msg
    <3>1. 1 \in 1..Len(sleepers) /\ 1 < a
      BY <1>9, <2>2
    <3>2. hand[w].msg < hand[sleepers[a]].msg
      BY <1>3, <1>10, <3>1
    <3>3. hand[w].msg \in Nat
      BY <1>0, <1>10
    <3> QED BY <3>2, <3>3 DEF old
  <2> QED BY <2>1, <2>2
<1>12. SleepersOrdered'
  <2>1. ASSUME NEW v \in Writer PROVE Repeats(v)' <=> v \in ToSet(sleepers')
    <3>1. v \in ToSet(sleepers') <=> \E a \in 1..Len(sleepers') : sleepers'[a] = v
      BY <1>9 DEF ToSet
    <3>2. ASSUME Repeats(v), v # w PROVE \E a \in 1..Len(sleepers') : sleepers'[a] = v
      <4>1. PICK b \in 1..Len(sleepers) : sleepers[b] = v
        BY <1>10, <3>2
      <4>2. b # 1 /\ b - 1 \in 1..Len(sleepers') /\ (b - 1) + 1 = b
        BY <1>3, <1>9, <3>2, <4>1
      <4> QED BY <1>9, <4>1, <4>2
    <3>3. ASSUME NEW a \in 1..Len(sleepers'), sleepers'[a] = v PROVE Repeats(v) /\ v # w
      <4>1. sleepers[a + 1] = v /\ a + 1 \in 1..Len(sleepers) /\ a + 1 # 1
        BY <1>9, <3>3
      <4> QED BY <1>11, <4>1
    <3> QED BY <1>7, <3>1, <3>2, <3>3
  <2>2. ASSUME NEW a \in 1..Len(sleepers'), NEW b \in 1..Len(sleepers'), a < b
        PROVE  hand'[sleepers'[a]].msg < hand'[sleepers'[b]].msg
    <3>1. /\ sleepers'[a] = sleepers[a + 1] /\ a + 1 \in 1..Len(sleepers) /\ a + 1 # 1
          /\ sleepers'[b] = sleepers[b + 1] /\ b + 1 \in 1..Len(sleepers) /\ b + 1 # 1
          /\ a + 1 < b + 1
      BY <1>9, <2>2
    <3>2. /\ sleepers[a + 1] \in Writer \ {w} /\ sleepers[b + 1] \in Writer \ {w}
      BY <1>11, <3>1
    <3>3. hand[sleepers[a + 1]].msg < hand[sleepers[b + 1]].msg
      BY <1>10, <3>1
    <3> QED BY <1>7, <3>1, <3>2, <3>3
  <2> QED BY <2>1, <2>2 DEF SleepersOrdered
<1>13. failed \subseteq failed' /\ (UNCHANGED wire => old \in failed')
  <2>1. wire' = [wire EXCEPT ![there] = Append(@, old)] => wire' # wire
    <3>1. wire[there] \in Seq(Message) /\ Len(Append(wire[there], old)) = Len(wire[there]) + 1
          /\ Len(wire[there]) \in Nat
      <4>1. wire[there] \in Seq(Message)
        BY <1>0, <1>4
      <4> QED BY <1>0, <4>1, AppendFacts
    <3>2. wire' = [wire EXCEPT ![there] = Append(@, old)] => wire'[there] = Append(wire[there], old)
      BY <1>0 DEF RestOK
    <3> QED BY <3>1, <3>2
  <2> QED BY <1>1, <2>1
<1>14. NewerRepeated'
  <2> SUFFICES ASSUME NEW v \in Writer, Repeats(v)', NEW i \in Interface, NEW m \in On(i),
                      m > hand'[v].msg
               PROVE  m \in failed' \/ \E x \in Writer : Repeats(x)' /\ hand'[x].msg = m
    BY <1>6 DEF NewerRepeated
  <2>1. v # w /\ Repeats(v) /\ hand'[v] = hand[v]
    BY <1>7
  <2>2. m \in failed \/ \E x \in Writer : Repeats(x) /\ hand[x].msg = m
    BY <2>1 DEF OrderInv, WireInv, NewerRepeated
  <2>3. m # old
    <3>1. PICK a \in 1..Len(sleepers) : sleepers[a] = v
      BY <1>10, <2>1
    <3>2. old < hand[v].msg
      BY <1>3, <1>11, <2>1, <3>1
    <3> QED BY <1>0, <1>4, <1>10, <2>1, <3>2
  <2>4. ASSUME NEW x \in Writer, Repeats(x), hand[x].msg = m
        PROVE  Repeats(x)' /\ hand'[x].msg = m
    <3>1. x # w
      BY <2>3, <2>4 DEF old
    <3> QED BY <1>7, <2>4, <3>1
  <2> QED BY <1>13, <2>2, <2>4
<1>15. LastWord'
  <2> SUFFICES ASSUME NEW i \in Interface, NEW m \in On(i)
               PROVE  \/ m <= wire'[i][Len(wire'[i])] \/ m \in failed'
                      \/ \E x \in Writer : Repeats(x)' /\ hand'[x].msg = m
    BY <1>6 DEF LastWord
  <2>0. ASSUME NEW x \in Writer, Repeats(x), hand[x].msg = m, m # old
        PROVE  Repeats(x)' /\ hand'[x].msg = m
    <3>1. x # w
      BY <2>0 DEF old
    <3> QED BY <1>7, <2>0, <3>1
  <2>1. CASE wire'[i] = wire[i]
    <3>1. \/ m <= wire[i][Len(wire[i])] \/ m \in failed
          \/ \E x \in Writer : Repeats(x) /\ hand[x].msg = m
      BY DEF OrderInv, WireInv, LastWord
    <3>2. CASE m = old /\ ~(m \in failed')
      <4>1. wire' = [wire EXCEPT ![there] = Append(@, old)]
        BY <1>1, <3>2
      <4>2. i # there
        <5>1. wire'[there] = Append(wire[there], old) /\ wire[there] \in Seq(Message)
          BY <1>0, <1>4, <4>1 DEF RestOK
        <5>2. Len(wire'[there]) # Len(wire[there])
          BY <1>0, <5>1, AppendFacts
        <5> QED BY <2>1, <5>2
      <4> QED BY <1>0, <3>2, <4>2 DEF OrderInv, WireInv, SentOnOne
    <3>3. CASE m # old
      BY <1>13, <2>0, <2>1, <3>1, <3>3
    <3> QED BY <3>2, <3>3
  <2>2. CASE wire'[i] = Append(wire[i], old)
    <3>1. wire'[i][Len(wire'[i])] = old
      <4>1. wire[i] \in Seq(Message)
        BY <1>4
      <4> QED BY <1>0, <2>2, <4>1, AppendFacts
    <3>2. CASE m > old
      <4>1. m \in failed \/ \E x \in Writer : Repeats(x) /\ hand[x].msg = m
        BY <1>0, <3>2 DEF OrderInv, WireInv, NewerRepeated, old
      <4> QED BY <1>0, <1>4, <1>13, <2>0, <3>2, <4>1
    <3>3. CASE ~(m > old)
      BY <1>0, <1>4, <3>1, <3>3
    <3> QED BY <3>2, <3>3
  <2> QED BY <1>5, <2>1, <2>2
<1>16. AllInOrder'
  <2> SUFFICES ASSUME NEW i \in Interface PROVE InOrder(wire'[i])
    BY DEF AllInOrder
  <2>1. InOrder(wire[i]) /\ wire[i] \in Seq(Message)
    BY <1>4 DEF OrderInv, WireInv, AllInOrder
  <2>2. CASE i = there /\ wire'[i] = Append(wire[i], old)
    BY <1>0, <2>1, <2>2, AppendInOrder DEF On
  <2> QED BY <1>5, <2>1, <2>2
<1>17. SentOnOne'
  BY <1>6 DEF OrderInv, WireInv, SentOnOne
<1> QED BY <1>6, <1>8, <1>12, <1>14, <1>15, <1>16, <1>17 DEF WireInv

LEMMA NextOrder ==
  ASSUME HandsOK, RestOK, OrderInv, [Next]_vars
  PROVE  OrderInv'
<1>1. CASE Startup
  <2>1. /\ starts' = starts + 1 /\ starts \in Nat /\ starts + 1 \in Writer
        /\ pc' = [pc EXCEPT ![starts + 1] = "idle"]
        /\ UNCHANGED <<queue, queued, hand, sleepers, wire, failed>>
    BY <1>1, TransmitAssumption DEF Startup, RestOK, Writer, queueVars
  <2>2. pc[starts + 1] = "none"
    BY <2>1 DEF OrderInv, Unstarted
  <2>3. \A v \in Writer : pc'[v] = IF v = starts + 1 THEN "idle" ELSE pc[v]
    BY <2>1 DEF HandsOK
  <2>4. \A v \in Writer : Repeats(v)' <=> Repeats(v)
    BY <2>2, <2>3 DEF Repeats
  <2>5. Unstarted'
    <3>1. Writer \subseteq Nat
      BY DEF Writer
    <3> QED BY <2>1, <2>3, <3>1 DEF OrderInv, Unstarted
  <2>6. WireInv'
    BY <2>1, <2>4, WireKept DEF OrderInv
  <2>7. QueueOrdered' /\ SentQueued'
    BY <2>1 DEF OrderInv, QueueOrdered, SentQueued, On
  <2> QED BY <2>5, <2>6, <2>7 DEF OrderInv
<1>2. ASSUME UNCHANGED <<starts, queueVars, writerVars>> PROVE OrderInv'
  <2>1. UNCHANGED <<starts, queue, queued, pc, hand, sleepers, wire, failed>>
    BY <1>2 DEF queueVars, writerVars
  <2>2. \A v \in Writer : Repeats(v)' <=> Repeats(v)
    BY <2>1 DEF Repeats
  <2>3. WireInv'
    BY <2>1, <2>2, WireKept DEF OrderInv
  <2> QED BY <2>1, <2>3 DEF OrderInv, QueueOrdered, SentQueued, Unstarted, On
<1>3. CASE SendPGNRequest
  BY <1>3, EnqueueOrder DEF SendPGNRequest
<1>4. ASSUME NEW i \in Interface, SendRawMessage(i) PROVE OrderInv'
  BY <1>4, EnqueueOrder DEF SendRawMessage
<1>5. ASSUME NEW w \in Writer, Take(w) PROVE OrderInv'
  <2> DEFINE item == Head(queue)
  <2>1. /\ queue # <<>> /\ queue' = Tail(queue) /\ UNCHANGED <<starts, queued>>
        /\ pc[w] = "idle" /\ ~Repeats(w)
    BY <1>5 DEF Take, SendFails, Repeats, featureVars
  <2>2. item.to \in Interface /\ item.msg \in Message
    <3>1. item \in Item /\ item.to # Nowhere
      BY <1>5, TailFacts DEF Take, RestOK
    <3> QED BY <3>1 DEF Item
  <2>3. w <= starts
    <3>1. w \in Nat /\ starts \in Nat
      BY TransmitAssumption DEF Writer, RestOK
    <3> QED BY <2>1, <3>1 DEF OrderInv, Unstarted
  <2> HIDE DEF item
  <2>4. CASE /\ wire' = [wire EXCEPT ![item.to] = Append(@, item.msg)]
             /\ pc' = [pc EXCEPT ![w] = "repeating"] /\ hand' = [hand EXCEPT ![w] = item]
             /\ sleepers' = Append(sleepers, w) /\ UNCHANGED failed
    <3>1. /\ WireInv'
          /\ \A i \in Interface : On(i)' \subseteq On(i) \union {item.msg}
      BY <2>1, <2>2, <2>4, FirstSent DEF item
    <3>2. QueueOrdered' /\ SentQueued'
      BY <2>1, <3>1, QueueShrinks DEF item
    <3>3. Unstarted'
      BY <2>1, <2>3, <2>4 DEF OrderInv, Unstarted, HandsOK, Writer, RestOK
    <3> QED BY <3>1, <3>2, <3>3 DEF OrderInv
  <2>5. CASE failed' = failed \union {item.msg} /\ UNCHANGED <<pc, hand, sleepers, wire>>
    <3>1. QueueOrdered' /\ SentQueued'
      BY <2>1, <2>5, QueueShrinks DEF On
    <3>2. WireInv'
      BY <2>5, WireKept DEF OrderInv, Repeats
    <3> QED BY <2>1, <2>5, <3>1, <3>2 DEF OrderInv, Unstarted
  <2> QED BY <1>5, <2>4, <2>5 DEF Take, SendFails, item
<1>6. ASSUME NEW w \in Writer, TakeMalformed(w) PROVE OrderInv'
  <2>1. /\ queue # <<>> /\ queue' = Tail(queue) /\ pc[w] = "idle"
        /\ pc' = [pc EXCEPT ![w] = "ended"]
        /\ UNCHANGED <<starts, queued, hand, sleepers, wire, failed>>
    BY <1>6 DEF TakeMalformed, featureVars
  <2>2. QueueOrdered' /\ SentQueued'
    BY <2>1, QueueShrinks DEF On
  <2>3. \A v \in Writer : Repeats(v)' <=> Repeats(v)
    BY <2>1 DEF HandsOK, Repeats
  <2>4. WireInv'
    BY <2>1, <2>3, WireKept DEF OrderInv
  <2>5. Unstarted'
    BY <2>1 DEF OrderInv, Unstarted, HandsOK
  <2> QED BY <2>2, <2>4, <2>5 DEF OrderInv
<1>7. ASSUME NEW w \in Writer, Repeat(w) PROVE OrderInv'
  <2>1. WireInv' /\ \A i \in Interface : On(i)' = On(i)
    BY <1>7, RepeatWire
  <2>2. UNCHANGED <<starts, queue, queued>> /\ pc' = [pc EXCEPT ![w] = "idle"] /\ pc[w] = "repeating"
    BY <1>7 DEF Repeat, featureVars, queueVars
  <2>3. QueueOrdered' /\ SentQueued'
    BY <2>1, <2>2 DEF OrderInv, QueueOrdered, SentQueued
  <2>4. Unstarted'
    BY <2>2 DEF OrderInv, Unstarted, HandsOK
  <2> QED BY <2>1, <2>3, <2>4 DEF OrderInv
<1>8. CASE Shutdown
  BY <1>2, <1>8 DEF Shutdown
<1>9. CASE UNCHANGED vars
  BY <1>2, <1>9 DEF vars, featureVars
<1> QED BY <1>1, <1>3, <1>4, <1>5, <1>6, <1>7, <1>8, <1>9 DEF Next

\* Messages are sent for the first time in the order they were queued, by any
\* number of writers.
THEOREM FirstSendsInOrder == Spec => []FirstInOrder
<1>1. HandsOK /\ RestOK /\ OrderInv /\ [Next]_vars => HandsOK' /\ RestOK' /\ OrderInv'
  BY NextTypes, NextOrder
<1>2. OrderInv => FirstInOrder
  BY DEF OrderInv, WireInv, AllInOrder, InOrder, FirstInOrder
<1> QED BY <1>1, <1>2, InitTypes, InitOrder, PTL DEF Spec

\* An older message does not keep the last word on an interface: the newer one
\* it was repeated after is repeated still, or sending it failed.
THEOREM NewestHasLastWord == Spec => []NewestLast
<1>1. HandsOK /\ RestOK /\ OrderInv /\ [Next]_vars => HandsOK' /\ RestOK' /\ OrderInv'
  BY NextTypes, NextOrder
<1>2. RestOK /\ OrderInv => NewestLast
  <2> SUFFICES ASSUME RestOK, OrderInv, NEW i \in Interface, NEW k \in 1..Len(wire[i])
               PROVE  \/ wire[i][k] <= Last(wire[i])
                      \/ wire[i][k] \in failed
                      \/ \E w \in Writer : pc[w] = "repeating" /\ hand[w].msg = wire[i][k]
    BY DEF NewestLast
  <2>1. wire[i] \in Seq(Message)
    BY DEF RestOK
  <2>2. wire[i][k] \in On(i)
    BY <2>1 DEF On, ToSet
  <2> QED BY <2>2 DEF OrderInv, WireInv, LastWord, Repeats, Last
<1> QED BY <1>1, <1>2, InitTypes, InitOrder, PTL DEF Spec
=============================================================================
