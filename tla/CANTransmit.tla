----------------------------- MODULE CANTransmit -----------------------------
(***************************************************************************)
(* backend/integrations/can/manager.py (can_writer), services/             *)
(* can_service.py and the start and stop of backend/can/feature.py: what   *)
(* is queued for the CAN interfaces is sent twice each by a writer task.   *)
(* A start of the feature starts a writer; nothing ends one, so a feature  *)
(* that is started again has two.                                          *)
(***************************************************************************)
EXTENDS Integers, Sequences, FiniteSets, SequencesExt

CONSTANTS
  Interface,    \* settings.can.all_interfaces
  MaxMessages,  \* bound: messages queued
  MaxStarts     \* bound: starts of the feature

Nowhere == "nowhere"  \* the interface of an item queued without one

ASSUME TransmitAssumption ==
  /\ Nowhere \notin Interface
  /\ MaxMessages \in Nat /\ MaxStarts \in Nat

Message == 1..MaxMessages  \* in the order they are queued
Writer == 1..MaxStarts     \* the start a writer comes from
Item == [msg : Message, to : Interface \union {Nowhere}]
NoItem == [msg |-> 0, to |-> Nowhere]

VARIABLES
  running,   \* _is_running of the feature
  starts,    \* how often it was started
  buses,     \* interfaces with a bus
  queue,     \* can_tx_queue
  queued,    \* messages queued so far
  pc,        \* of a writer: "none", "idle", "repeating", "ended"
  hand,      \* the item a writer has taken
  sleepers,  \* writers between their two sends, by the end of their sleep
  wire,      \* the messages sent on an interface
  failed,    \* messages that send raised for, for the properties
  bare       \* an item without an interface was queued, likewise

featureVars == <<running, starts, buses>>
writerVars == <<pc, hand, sleepers, wire, failed>>
queueVars == <<queue, queued, bare>>
vars == <<featureVars, queueVars, writerVars>>

Init ==
  /\ running = FALSE /\ starts = 0 /\ buses = {}
  /\ queue = <<>> /\ queued = 0 /\ bare = FALSE
  /\ pc = [w \in Writer |-> "none"] /\ hand = [w \in Writer |-> NoItem]
  /\ sleepers = <<>> /\ wire = [i \in Interface |-> <<>>] /\ failed = {}
-----------------------------------------------------------------------------
(* The feature and the service                                             *)

\* startup: a bus for each interface that has none and can be opened, and a
\* writer.
Startup ==
  /\ starts < MaxStarts
  /\ running' = TRUE /\ starts' = starts + 1
  /\ \E up \in SUBSET (Interface \ buses) : buses' = buses \union up
  /\ pc' = [pc EXCEPT ![starts + 1] = "idle"]
  /\ UNCHANGED <<queueVars, hand, sleepers, wire, failed>>

\* shutdown: the buses stay open and the writer goes on.
Shutdown ==
  /\ running
  /\ running' = FALSE
  /\ UNCHANGED <<starts, buses, queueVars, writerVars>>

Enqueue(i) ==
  /\ queued < MaxMessages
  /\ queued' = queued + 1
  /\ queue' = Append(queue, [msg |-> queued + 1, to |-> i])
  /\ UNCHANGED <<featureVars, writerVars>>

\* send_raw_message, which refuses an interface without a bus.
SendRawMessage(i) == i \in buses /\ Enqueue(i) /\ UNCHANGED bare

\* _send_pgn_request of the device discovery: a message and no interface.
SendPGNRequest == Enqueue(Nowhere) /\ bare' = TRUE
-----------------------------------------------------------------------------
(* The writer                                                              *)

\* Mutant: a message that cannot be sent is queued again.
SendFails_Requeued(w, item) ==
  /\ failed' = failed \union {item.msg}
  /\ queue' = Append(Tail(queue), item)
  /\ UNCHANGED <<pc, hand, sleepers, wire>>

\* Mutant: the error of a send ends the writer.
SendFails_Ends(w, item) ==
  /\ queue' = Tail(queue)
  /\ pc' = [pc EXCEPT ![w] = "ended"]
  /\ UNCHANGED <<hand, sleepers, wire, failed>>

\* The error of a first send: the message is dropped.
SendFails(w, item) ==
  /\ failed' = failed \union {item.msg}
  /\ queue' = Tail(queue)
  /\ UNCHANGED <<pc, hand, sleepers, wire>>

\* A writer takes an item and sends it, with no await between.
Take(w) ==
  /\ pc[w] = "idle" /\ queue # <<>> /\ Head(queue).to # Nowhere
  /\ LET item == Head(queue) IN
       \/ /\ wire' = [wire EXCEPT ![item.to] = Append(@, item.msg)]
          /\ queue' = Tail(queue)
          /\ pc' = [pc EXCEPT ![w] = "repeating"]
          /\ hand' = [hand EXCEPT ![w] = item]
          /\ sleepers' = Append(sleepers, w)
          /\ UNCHANGED failed
       \/ SendFails(w, item)
  /\ UNCHANGED <<featureVars, queued, bare>>

\* An item without an interface: its unpacking raises outside the inner try.
TakeMalformed(w) ==
  /\ pc[w] = "idle" /\ queue # <<>> /\ Head(queue).to = Nowhere
  /\ queue' = Tail(queue)
  /\ pc' = [pc EXCEPT ![w] = "ended"]
  /\ UNCHANGED <<featureVars, queued, bare, hand, sleepers, wire, failed>>

\* Mutant: the time between the two sends differs from message to message.
Wakes_AnyOrder(k) == k \in 1..Len(sleepers)

\* The time between the two sends is the same for all.
Wakes(k) == k = 1

\* The second send, and back to the queue whether it raises or not.
Repeat(w) ==
  /\ pc[w] = "repeating"
  /\ \E k \in 1..Len(sleepers) :
       Wakes(k) /\ sleepers[k] = w /\ sleepers' = RemoveAt(sleepers, k)
  /\ LET item == hand[w] IN
       \/ /\ wire' = [wire EXCEPT ![item.to] = Append(@, item.msg)]
          /\ UNCHANGED failed
       \/ failed' = failed \union {item.msg} /\ UNCHANGED wire
  /\ pc' = [pc EXCEPT ![w] = "idle"] /\ hand' = [hand EXCEPT ![w] = NoItem]
  /\ UNCHANGED <<featureVars, queueVars>>
-----------------------------------------------------------------------------
Next ==
  \/ Startup \/ Shutdown \/ SendPGNRequest
  \/ \E i \in Interface : SendRawMessage(i)
  \/ \E w \in Writer : Take(w) \/ TakeMalformed(w) \/ Repeat(w)

Spec == Init /\ [][Next]_vars

\* Writers that can go on do.  Nobody need start the feature or send anything.
FairSpec ==
  /\ Spec /\ WF_vars(\E w \in Writer : Take(w) \/ TakeMalformed(w))
  /\ \A w \in Writer : WF_vars(Repeat(w))
-----------------------------------------------------------------------------
(* Properties                                                              *)

\* The variables hold the values the code gives them.
TypeOK ==
  /\ running \in BOOLEAN /\ starts \in 0..MaxStarts /\ buses \subseteq Interface
  /\ queue \in Seq(Item) /\ queued \in 0..MaxMessages
  /\ pc \in [Writer -> {"none", "idle", "repeating", "ended"}]
  /\ hand \in [Writer -> Item \union {NoItem}]
  /\ sleepers \in Seq(Writer)
  /\ wire \in [Interface -> Seq(Message)]
  /\ failed \subseteq Message /\ bare \in BOOLEAN

\* Messages reach an interface in the order they were queued, however many
\* writers there are: a message is never sent for the first time after one
\* that was queued later.
FirstInOrder ==
  \A i \in Interface : \A k \in 1..Len(wire[i]) :
    \/ \E j \in 1..(k - 1) : wire[i][j] = wire[i][k]
    \/ \A j \in 1..(k - 1) : wire[i][j] < wire[i][k]

\* The last word on an interface is that of the newest message sent there: when
\* the repeat of an older one comes after it, which two writers can do, its own
\* repeat is still to come, unless sending it fails.
NewestLast ==
  \A i \in Interface : \A k \in 1..Len(wire[i]) :
    \/ wire[i][k] <= Last(wire[i])
    \/ wire[i][k] \in failed
    \/ \E w \in Writer : pc[w] = "repeating" /\ hand[w].msg = wire[i][k]

InQueue(m) == \E k \in 1..Len(queue) : queue[k].msg = m
Sends(m) == Cardinality({s \in Interface \X (1..2 * MaxMessages) :
                           s[2] <= Len(wire[s[1]]) /\ wire[s[1]][s[2]] = m})

\* "Handles sending each message twice": a queued message is sent twice, or
\* sending it fails, unless an item without an interface was queued.
SentTwice ==
  \A m \in Message : InQueue(m) ~> Sends(m) = 2 \/ m \in failed \/ bare

\* "Continuously dequeues messages from can_tx_queue and sends them over the
\* CAN bus": while the feature runs it has a writer.
WriterLives == running => \E w \in Writer : pc[w] \in {"idle", "repeating"}
=============================================================================
