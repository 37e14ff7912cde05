----------------------------- MODULE BAMHandler -----------------------------
(***************************************************************************)
(* backend/integrations/rvc/bam_handler.py: reassembly of messages that    *)
(* senders broadcast as an announcement and numbered packets.  A packet's  *)
(* payload is known by the message it is cut from.                         *)
(*                                                                         *)
(* A sender announces true sizes and sends one message after another, as   *)
(* the transport protocol has it; the bus may lose or repeat frames.       *)
(***************************************************************************)
EXTENDS Integers, FiniteSets

CONSTANTS
  Source, Message, Pgn,
  PgnOf,       \* the PGN a message is announced with
  Packets,     \* how many packets it has
  Sends,       \* the messages each source sends
  Loses,       \* the frames of each source that may be lost
  MaxSessions  \* max_concurrent_sessions

Key == Source \X Pgn

ASSUME BAMAssumption ==
  /\ IsFiniteSet(Source) /\ IsFiniteSet(Pgn)
  /\ PgnOf \in [Message -> Pgn] /\ Packets \in [Message -> Nat \ {0}]
  /\ Sends \in [Source -> SUBSET Message \ {{}}]
  /\ Loses \in [Source -> SUBSET {"announcement", "packet"}]
  /\ MaxSessions \in Nat \ {0}

VARIABLES
  sessions,  \* sessions; total and got of each, and in elders and ahead the keys
             \* before it by timestamp and in its source's source_to_sessions
  result,    \* what process_frame returned in the latest step, if it was called
  sending    \* each source's message and the packets of it sent so far

vars == <<sessions, result, sending>>

NoResult == [source |-> {}, pgn |-> {}, parts |-> {}]
Sending(s) == UNION {[msg : {m}, sent : 0..Packets[m]] : m \in Sends[s]}
Of(table, s) == {k \in DOMAIN table : k[1] = s}

\* The handler comes up at any moment of what the sources send.
Init ==
  /\ sessions = << >> /\ result = NoResult
  /\ sending \in [Source -> UNION {Sending(s) : s \in Source}]
  /\ \A s \in Source : sending[s] \in Sending(s)
-----------------------------------------------------------------------------
(* The table                                                               *)

\* _remove_session, for each key of K.
Without(table, K) ==
  [k \in DOMAIN table \ K |-> [table[k] EXCEPT !.elders = @ \ K, !.ahead = @ \ K]]

\* The sessions _cleanup_stale_sessions may find too old: none unless its
\* interval has passed, and never one without those before it.
Stale(table) == {K \in SUBSET DOMAIN table : \A k \in K : table[k].elders \subseteq K}

\* Mutant: one session too many.
Oldest_Late(table) ==
  IF Cardinality(DOMAIN table) > MaxSessions
  THEN {{k} : k \in {j \in DOMAIN table : table[j].elders = {}}}
  ELSE {{}}

\* What _cleanup_oldest_session removes before a session is created.
Oldest(table) ==
  IF Cardinality(DOMAIN table) >= MaxSessions
  THEN {{k} : k \in {j \in DOMAIN table : table[j].elders = {}}}
  ELSE {{}}

\* Mutant: a session that exists keeps what it has received.
Created_Keeps(table, k, n) ==
  [j \in DOMAIN table \union {k} |->
     IF j = k
     THEN [total |-> n, got |-> IF k \in DOMAIN table THEN table[k].got ELSE << >>,
           elders |-> DOMAIN table \ {k},
           ahead |-> IF k \in DOMAIN table THEN table[k].ahead ELSE Of(table, k[1])]
     ELSE [table[j] EXCEPT !.elders = @ \ {k}]]

\* A session that exists is replaced, at its place in source_to_sessions.
Created(table, k, n) ==
  [j \in DOMAIN table \union {k} |->
     IF j = k
     THEN [total |-> n, got |-> << >>, elders |-> DOMAIN table \ {k},
           ahead |-> IF k \in DOMAIN table THEN table[k].ahead ELSE Of(table, k[1])]
     ELSE [table[j] EXCEPT !.elders = @ \ {k}]]
-----------------------------------------------------------------------------
(* process_frame                                                           *)

HandleControl(s, m) ==
  /\ \E old \in Stale(sessions) : \E drop \in Oldest(Without(sessions, old)) :
       sessions' = Created(Without(sessions, old \union drop), <<s, PgnOf[m]>>, Packets[m])
  /\ result' = NoResult

\* Mutant: complete one packet late.
Stored_Late(table, k, i, m) ==
  LET got == [j \in DOMAIN table[k].got \union {i} |-> IF j = i THEN m ELSE table[k].got[j]] IN
  IF Cardinality(DOMAIN got) > table[k].total
  THEN /\ sessions' = Without(table, {k})
       /\ result' = [source |-> k[1], pgn |-> k[2], parts |-> got]
  ELSE /\ sessions' = [table EXCEPT ![k].got = got]
       /\ result' = NoResult

\* Packet i of m is stored in session k, which may complete it.
Stored(table, k, i, m) ==
  LET got == [j \in DOMAIN table[k].got \union {i} |-> IF j = i THEN m ELSE table[k].got[j]] IN
  IF Cardinality(DOMAIN got) >= table[k].total
  THEN /\ sessions' = Without(table, {k})
       /\ result' = [source |-> k[1], pgn |-> k[2], parts |-> got]
  ELSE /\ sessions' = [table EXCEPT ![k].got = got]
       /\ result' = NoResult

\* Mutant: the sequence number is not validated.
Valid_Any(i, total) == i >= 1

Valid(i, total) == i >= 1 /\ i <= total

HandleData(s, i, m) ==
  \E old \in Stale(sessions) :
    LET table == Without(sessions, old) IN
    \/ /\ Of(table, s) = {}
       /\ sessions' = table /\ result' = NoResult
    \/ \E k \in Of(table, s) :
         /\ table[k].ahead = {}
         /\ IF Valid(i, table[k].total)
            THEN Stored(table, k, i, m)
            ELSE sessions' = table /\ result' = NoResult
-----------------------------------------------------------------------------
(* The senders and the bus                                                 *)

Finished(s) == sending[s].sent = Packets[sending[s].msg]

Lost(s, frame) == frame \in Loses[s] /\ UNCHANGED sessions /\ result' = NoResult

Announce(s, m) ==
  /\ Finished(s) /\ m \in Sends[s]
  /\ sending' = [sending EXCEPT ![s] = [msg |-> m, sent |-> 0]]
  /\ HandleControl(s, m) \/ Lost(s, "announcement")

SendPacket(s) ==
  /\ ~Finished(s)
  /\ sending' = [sending EXCEPT ![s].sent = @ + 1]
  /\ \/ HandleData(s, sending'[s].sent, sending[s].msg)
     \/ Lost(s, "packet")

\* The latest frame of s arrives once more.
Repeat(s) ==
  /\ IF sending[s].sent = 0
     THEN HandleControl(s, sending[s].msg)
     ELSE HandleData(s, sending[s].sent, sending[s].msg)
  /\ UNCHANGED sending

\* A frame of the transport protocol that is neither, such as a request to send.
OtherFrame ==
  /\ \E old \in Stale(sessions) : sessions' = Without(sessions, old)
  /\ result' = NoResult /\ UNCHANGED sending

Next ==
  \/ \E s \in Source : (\E m \in Message : Announce(s, m)) \/ SendPacket(s) \/ Repeat(s)
  \/ OtherFrame

Spec == Init /\ [][Next]_vars
-----------------------------------------------------------------------------
(* Properties                                                              *)

TableOK(table) ==
  /\ table = [k \in DOMAIN table |-> table[k]] /\ DOMAIN table \subseteq Key
  /\ \A k \in DOMAIN table :
       LET x == table[k] IN
       /\ x = [total |-> x.total, got |-> x.got, elders |-> x.elders, ahead |-> x.ahead]
       /\ x.total \in Nat \ {0}
       /\ x.got \in [DOMAIN x.got -> Message]
       /\ DOMAIN x.got \subseteq 1..x.total /\ DOMAIN x.got # 1..x.total
       /\ x.elders \subseteq DOMAIN table \ {k}
       /\ x.ahead \subseteq Of(table, k[1]) \ {k}

\* The variables have the values the code gives them; moreover a session misses
\* a packet of those it expects, and is ordered after sessions that exist.
TypeOK ==
  /\ sending = [s \in Source |-> sending[s]] /\ \A s \in Source : sending[s] \in Sending(s)
  /\ TableOK(sessions)

\* "Limit concurrent sessions to prevent memory issues": there are never more
\* sessions than max_concurrent_sessions.
SessionBound == Cardinality(DOMAIN sessions) <= MaxSessions

OnePgn(s) == \A m, n \in Sends[s] : PgnOf[m] = PgnOf[n]

Whole(r) ==
  LET m == sending[r.source].msg
  IN r.pgn = PgnOf[m] /\ r.parts = [i \in 1..Packets[m] |-> m]

\* No packet of the source is ever lost, or no announcement and it has one PGN.
Trusted(s) == "packet" \notin Loses[s] \/ (OnePgn(s) /\ "announcement" \notin Loses[s])

\* What process_frame returns of such a source is the message the source is
\* sending, under its PGN and in full: no packet of another message is in it.
WholeMessages == result # NoResult /\ Trusted(result.source) => Whole(result)

\* A message of which every packet arrives leaves no session behind: it is
\* returned, unless its session was cleaned up or its announcement lost.
NoLeftover ==
  \A s \in Source : "packet" \notin Loses[s] /\ Finished(s) => Of(sessions, s) = {}
=============================================================================
