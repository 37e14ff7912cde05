----------------------------- MODULE BAMProofs -----------------------------
(* Theorems about BAMHandler.                                              *)
EXTENDS BAMHandler, FiniteSetTheorems, TLAPS

-----------------------------------------------------------------------------
(* The table                                                               *)

\* Removing sessions leaves a table, and the other sessions as they were.
LEMMA WithoutLeaves ==
  ASSUME NEW t, TableOK(t), NEW K
  PROVE  /\ TableOK(Without(t, K)) /\ DOMAIN Without(t, K) = DOMAIN t \ K
         /\ \A k \in DOMAIN t \ K : /\ Without(t, K)[k].total = t[k].total
                                    /\ Without(t, K)[k].got = t[k].got
<1> DEFINE w == Without(t, K)
<1>1. DOMAIN w = DOMAIN t \ K
  BY DEF Without
<1>2. ASSUME NEW k \in DOMAIN w
      PROVE  w[k] = [total |-> t[k].total, got |-> t[k].got,
                     elders |-> t[k].elders \ K, ahead |-> t[k].ahead \ K]
  <2>1. k \in DOMAIN t /\ w[k] = [t[k] EXCEPT !.elders = @ \ K, !.ahead = @ \ K]
    BY <1>1, <1>2 DEF Without
  <2>2. t[k] = [total |-> t[k].total, got |-> t[k].got,
                elders |-> t[k].elders, ahead |-> t[k].ahead]
    BY <2>1 DEF TableOK
  <2> HIDE DEF w
  <2> QED
    BY <2>1, <2>2
<1>3. w = [k \in DOMAIN w |-> w[k]] /\ DOMAIN w \subseteq Key
  BY <1>1 DEF Without, TableOK
<1>4. ASSUME NEW k \in DOMAIN w
      PROVE  /\ w[k].elders \subseteq DOMAIN w \ {k}
             /\ w[k].ahead \subseteq Of(w, k[1]) \ {k}
  BY <1>1, <1>2, <1>4 DEF TableOK, Of
<1>5. TableOK(w)
  <2> SUFFICES ASSUME NEW k \in DOMAIN w
               PROVE  /\ w[k] = [total |-> w[k].total, got |-> w[k].got,
                                 elders |-> w[k].elders, ahead |-> w[k].ahead]
                      /\ w[k].total \in Nat \ {0}
                      /\ w[k].got \in [DOMAIN w[k].got -> Message]
                      /\ DOMAIN w[k].got \subseteq 1..w[k].total
                      /\ DOMAIN w[k].got # 1..w[k].total
    BY <1>3, <1>4 DEF TableOK
  <2> HIDE DEF w
  <2>1. k \in DOMAIN t
    BY <1>1
  <2> QED
    BY <1>2, <2>1 DEF TableOK
<1> QED
  BY <1>1, <1>2, <1>5

\* A new session has received nothing of the message announced.
LEMMA CreatedEmpty ==
  ASSUME NEW t, NEW k \in Key, NEW n \in Nat \ {0}, NEW c, c = Created(t, k, n)
  PROVE  c[k].total = n /\ c[k].got = << >>
BY DEF Created

\* The other sessions stay, no longer after k.
LEMMA CreatedOthers ==
  ASSUME NEW t, TableOK(t), NEW k \in Key, NEW n \in Nat \ {0}, NEW c, c = Created(t, k, n),
         NEW j \in DOMAIN t, j # k
  PROVE  /\ c[j].total = t[j].total /\ c[j].got = t[j].got
         /\ c[j] = [total |-> t[j].total, got |-> t[j].got,
                    elders |-> t[j].elders \ {k}, ahead |-> t[j].ahead]
<1>1. c[j] = [t[j] EXCEPT !.elders = @ \ {k}]
  BY DEF Created
<1>2. t[j] = [total |-> t[j].total, got |-> t[j].got,
              elders |-> t[j].elders, ahead |-> t[j].ahead]
  BY DEF TableOK
<1> QED
  BY <1>1, <1>2

\* Creating a session leaves a table with that session beside the others.
LEMMA CreatedAdds ==
  ASSUME NEW t, TableOK(t), NEW k \in Key, NEW n \in Nat \ {0}, NEW c, c = Created(t, k, n)
  PROVE  TableOK(c) /\ DOMAIN c = DOMAIN t \union {k}
<1>1. DOMAIN c = DOMAIN t \union {k}
  BY DEF Created
<1>2. /\ c[k] = [total |-> n, got |-> << >>, elders |-> DOMAIN t \ {k}, ahead |-> c[k].ahead]
      /\ c[k].ahead \subseteq Of(t, k[1]) \ {k}
  <2>1. c[k] = [total |-> n, got |-> << >>, elders |-> DOMAIN t \ {k},
               ahead |-> IF k \in DOMAIN t THEN t[k].ahead ELSE Of(t, k[1])]
    BY DEF Created
  <2>2. k \in DOMAIN t => t[k].ahead \subseteq Of(t, k[1]) \ {k}
    BY DEF TableOK
  <2>3. k \notin DOMAIN t => k \notin Of(t, k[1])
    BY DEF Of
  <2> QED
    BY <2>1, <2>2, <2>3
<1>3. ASSUME NEW j \in DOMAIN t \ {k}
      PROVE  c[j] = [total |-> t[j].total, got |-> t[j].got,
                     elders |-> t[j].elders \ {k}, ahead |-> t[j].ahead]
  BY <1>3, CreatedOthers
<1>4. c = [j \in DOMAIN c |-> c[j]] /\ DOMAIN c \subseteq Key
  BY <1>1 DEF Created, TableOK
<1>5. ASSUME NEW j \in DOMAIN c
      PROVE  /\ c[j].elders \subseteq DOMAIN c \ {j}
             /\ c[j].ahead \subseteq Of(c, j[1]) \ {j}
  <2>1. CASE j = k
    BY <1>1, <1>2, <2>1 DEF Of
  <2>2. CASE j # k
    BY <1>1, <1>3, <1>5, <2>2 DEF Of, TableOK
  <2> QED
    BY <2>1, <2>2
<1>6. TableOK(c)
  <2> SUFFICES ASSUME NEW j \in DOMAIN c
               PROVE  /\ c[j] = [total |-> c[j].total, got |-> c[j].got,
                                 elders |-> c[j].elders, ahead |-> c[j].ahead]
                      /\ c[j].total \in Nat \ {0}
                      /\ c[j].got \in [DOMAIN c[j].got -> Message]
                      /\ DOMAIN c[j].got \subseteq 1..c[j].total
                      /\ DOMAIN c[j].got # 1..c[j].total
    BY <1>4, <1>5 DEF TableOK
  <2>1. CASE j = k
    <3>1. DOMAIN << >> = {} /\ << >> \in [{} -> Message]
      OBVIOUS
    <3>2. 1 \in 1..n /\ 1 \notin {}
      OBVIOUS
    <3>3. /\ c[j].total = n /\ c[j].got = << >>
          /\ c[j] = [total |-> c[j].total, got |-> c[j].got,
                     elders |-> c[j].elders, ahead |-> c[j].ahead]
      BY <1>2, <2>1
    <3> QED
      BY <3>1, <3>2, <3>3
  <2>2. CASE j # k
    <3>1. j \in DOMAIN t
      BY <1>1, <2>2
    <3>2. /\ t[j].total \in Nat \ {0} /\ t[j].got \in [DOMAIN t[j].got -> Message]
          /\ DOMAIN t[j].got \subseteq 1..t[j].total /\ DOMAIN t[j].got # 1..t[j].total
      BY <3>1 DEF TableOK
    <3>3. j \in DOMAIN t \ {k}
      BY <2>2, <3>1
    <3>4. c[j] = [total |-> t[j].total, got |-> t[j].got,
                  elders |-> t[j].elders \ {k}, ahead |-> t[j].ahead]
      BY <1>3, <3>3
    <3> QED
      BY <3>2, <3>3, <3>4
  <2> QED
    BY <2>1, <2>2
<1> QED
  BY <1>1, <1>2, <1>3, <1>6

\* A set of packet numbers up to n that has n members has them all.
LEMMA AllNumbers ==
  ASSUME NEW n \in Nat, NEW I \in SUBSET (1..n)
  PROVE  /\ Cardinality(I) \in Nat
         /\ Cardinality(I) >= n <=> I = 1..n
<1>1. IsFiniteSet(1..n) /\ Cardinality(1..n) = n
  BY FS_Interval
<1>2. IsFiniteSet(I) /\ Cardinality(I) <= n /\ (n = Cardinality(I) => I = 1..n)
  BY <1>1, FS_Subset
<1>3. Cardinality(I) \in Nat
  BY <1>2, FS_CardinalityType
<1> QED
  BY <1>1, <1>2, <1>3

\* The packets a session has after one more.
Grown(got, i, m) == [j \in DOMAIN got \union {i} |-> IF j = i THEN m ELSE got[j]]

\* Storing a packet completes the session, which goes, or leaves a table in
\* which it has grown.
LEMMA StoredGrows ==
  ASSUME NEW t, TableOK(t), NEW k \in DOMAIN t, NEW m \in Message, NEW i \in 1..t[k].total,
         Stored(t, k, i, m)
  PROVE  LET g == Grown(t[k].got, i, m) IN
         \/ /\ DOMAIN g = 1..t[k].total /\ sessions' = Without(t, {k})
            /\ result' = [source |-> k[1], pgn |-> k[2], parts |-> g]
         \/ /\ result' = NoResult /\ TableOK(sessions') /\ DOMAIN sessions' = DOMAIN t
            /\ \A j \in DOMAIN t : /\ sessions'[j].total = t[j].total
                                   /\ sessions'[j].got = IF j = k THEN g ELSE t[j].got
<1> DEFINE g == Grown(t[k].got, i, m)
<1>1. /\ t[k].total \in Nat \ {0} /\ DOMAIN t[k].got \subseteq 1..t[k].total
      /\ t[k].got \in [DOMAIN t[k].got -> Message]
  BY DEF TableOK
<1>2. DOMAIN g = DOMAIN t[k].got \union {i} /\ g \in [DOMAIN g -> Message]
  BY <1>1 DEF Grown
<1>3. DOMAIN g \subseteq 1..t[k].total
  BY <1>1, <1>2
<1>4. Cardinality(DOMAIN g) >= t[k].total <=> DOMAIN g = 1..t[k].total
  BY <1>1, <1>3, AllNumbers
<1>5. CASE Cardinality(DOMAIN g) >= t[k].total
  BY <1>4, <1>5 DEF Stored, Grown
<1>6. CASE ~(Cardinality(DOMAIN g) >= t[k].total)
  <2>1. sessions' = [t EXCEPT ![k].got = g] /\ result' = NoResult
    BY <1>6 DEF Stored, Grown
  <2>2. DOMAIN sessions' = DOMAIN t /\ sessions' = [j \in DOMAIN sessions' |-> sessions'[j]]
    BY <2>1 DEF TableOK
  <2>3. ASSUME NEW j \in DOMAIN t
        PROVE  sessions'[j] = [total |-> t[j].total, got |-> IF j = k THEN g ELSE t[j].got,
                               elders |-> t[j].elders, ahead |-> t[j].ahead]
    <3> HIDE DEF g
    <3> QED
      BY <2>1, <2>3 DEF TableOK
  <2>4. TableOK(sessions')
    <3> SUFFICES ASSUME NEW j \in DOMAIN t
                 PROVE  LET x == sessions'[j] IN
                        /\ x = [total |-> x.total, got |-> x.got, elders |-> x.elders, ahead |-> x.ahead]
                        /\ x.total \in Nat \ {0}
                        /\ x.got \in [DOMAIN x.got -> Message]
                        /\ DOMAIN x.got \subseteq 1..x.total /\ DOMAIN x.got # 1..x.total
                        /\ x.elders \subseteq DOMAIN sessions' \ {j}
                        /\ x.ahead \subseteq Of(sessions', j[1]) \ {j}
      BY <2>2 DEF TableOK
    <3> HIDE DEF g
    <3>1. CASE j = k
      <4>1. sessions'[j] = [total |-> t[k].total, got |-> g, elders |-> t[k].elders, ahead |-> t[k].ahead]
        BY <2>3, <3>1
      <4>2. DOMAIN g # 1..t[k].total
        BY <1>4, <1>6
      <4>3. /\ t[k].elders \subseteq DOMAIN sessions' \ {k}
            /\ t[k].ahead \subseteq Of(sessions', k[1]) \ {k}
        BY <2>2 DEF TableOK, Of
      <4> QED
        BY <1>1, <1>2, <1>3, <3>1, <4>1, <4>2, <4>3
    <3>2. CASE j # k
      BY <2>2, <2>3, <3>2 DEF TableOK, Of
    <3> QED
      BY <3>1, <3>2
  <2> QED
    BY <2>1, <2>2, <2>3, <2>4
<1> QED
  BY <1>5, <1>6
-----------------------------------------------------------------------------
(* process_frame                                                           *)

LEMMA FiniteTable ==
  ASSUME NEW t, TableOK(t)
  PROVE  IsFiniteSet(DOMAIN t) /\ Cardinality(DOMAIN t) \in Nat
<1>1. IsFiniteSet(Key)
  BY BAMAssumption, FS_Product DEF Key
<1>2. DOMAIN t \in SUBSET Key
  BY DEF TableOK
<1> QED
  BY <1>1, <1>2, FS_Subset, FS_CardinalityType

LEMMA SmallerTable ==
  ASSUME NEW t, TableOK(t), NEW D \in SUBSET DOMAIN t
  PROVE  Cardinality(D) \in Nat /\ Cardinality(D) <= Cardinality(DOMAIN t)
BY FiniteTable, FS_Subset, FS_CardinalityType

\* An announcement leaves a table within the limit that holds a new empty
\* session and otherwise only sessions that were there.
LEMMA ControlCreates ==
  ASSUME TypeOK, SessionBound, NEW s \in Source, NEW m \in Message, HandleControl(s, m)
  PROVE  LET k == <<s, PgnOf[m]>> IN
         /\ TableOK(sessions') /\ SessionBound' /\ result' = NoResult
         /\ k \in DOMAIN sessions' /\ DOMAIN sessions' \subseteq DOMAIN sessions \union {k}
         /\ sessions'[k].total = Packets[m] /\ sessions'[k].got = << >>
         /\ \A j \in DOMAIN sessions' \ {k} : /\ sessions'[j].total = sessions[j].total
                                              /\ sessions'[j].got = sessions[j].got
<1> DEFINE k == <<s, PgnOf[m]>>
<1>0. PICK old \in Stale(sessions) : \E drop \in Oldest(Without(sessions, old)) :
        sessions' = Created(Without(sessions, old \union drop), <<s, PgnOf[m]>>, Packets[m])
  BY DEF HandleControl
<1>1. PICK drop \in Oldest(Without(sessions, old)) :
        sessions' = Created(Without(sessions, old \union drop), k, Packets[m])
  BY <1>0
<1> DEFINE t == Without(sessions, old)
           u == Without(sessions, old \union drop)
<1>2. k \in Key /\ Packets[m] \in Nat \ {0} /\ TableOK(sessions)
  BY BAMAssumption DEF Key, TypeOK
<1>3. TableOK(t) /\ DOMAIN t = DOMAIN sessions \ old
  BY <1>2, WithoutLeaves
<1>4. /\ TableOK(u) /\ DOMAIN u = DOMAIN sessions \ (old \union drop)
      /\ \A j \in DOMAIN u : u[j].total = sessions[j].total /\ u[j].got = sessions[j].got
  <2> DEFINE K == old \union drop
  <2> HIDE DEF K
  <2>1. /\ TableOK(Without(sessions, K)) /\ DOMAIN Without(sessions, K) = DOMAIN sessions \ K
        /\ \A j \in DOMAIN sessions \ K : /\ Without(sessions, K)[j].total = sessions[j].total
                                          /\ Without(sessions, K)[j].got = sessions[j].got
    BY <1>2, WithoutLeaves
  <2> QED
    BY <2>1 DEF K
<1> HIDE DEF t, u
<1>5. /\ TableOK(sessions') /\ DOMAIN sessions' = DOMAIN u \union {k}
      /\ sessions'[k].total = Packets[m] /\ sessions'[k].got = << >>
      /\ \A j \in DOMAIN u \ {k} : sessions'[j].total = u[j].total /\ sessions'[j].got = u[j].got
  <2> DEFINE n == Packets[m]
             c == Created(u, k, n)
  <2>1. sessions' = c
    BY <1>1 DEF u
  <2>2. k \in Key /\ n \in Nat \ {0} /\ TableOK(u) /\ c = Created(u, k, n)
    BY <1>2, <1>4
  <2> HIDE DEF k, n, c
  <2>3. c[k].total = n /\ c[k].got = << >>
    BY <2>2, CreatedEmpty
  <2>4. TableOK(c) /\ DOMAIN c = DOMAIN u \union {k}
    BY <2>2, CreatedAdds
  <2>5. ASSUME NEW j \in DOMAIN u \ {k}
        PROVE  c[j].total = u[j].total /\ c[j].got = u[j].got
    <3>1. j \in DOMAIN u /\ j # k
      BY <2>5
    <3>2. c[j] = [total |-> u[j].total, got |-> u[j].got,
                  elders |-> u[j].elders \ {k}, ahead |-> u[j].ahead]
      BY <2>2, <3>1, CreatedOthers
    <3> QED
      BY <3>2
  <2> QED
    BY <2>1, <2>3, <2>4, <2>5 DEF n
<1>6. Cardinality(DOMAIN u) < MaxSessions
  <2>1. Cardinality(DOMAIN t) \in Nat /\ Cardinality(DOMAIN t) <= MaxSessions
    BY <1>2, <1>3, SmallerTable, FiniteTable, BAMAssumption DEF SessionBound
  <2>2. CASE Cardinality(DOMAIN t) >= MaxSessions
    <3>1. PICK o \in DOMAIN t : drop = {o}
      BY <1>1, <2>2 DEF Oldest, t
    <3>2. DOMAIN u = DOMAIN t \ {o}
      BY <1>3, <1>4, <3>1
    <3>3. Cardinality(DOMAIN u) = Cardinality(DOMAIN t) - 1
      BY <1>3, <3>2, FiniteTable, FS_RemoveElement
    <3> QED
      BY <2>1, <3>3, BAMAssumption
  <2>3. CASE ~(Cardinality(DOMAIN t) >= MaxSessions)
    <3>1. drop = {}
      BY <1>1, <2>3 DEF Oldest, t
    <3> QED
      BY <1>3, <1>4, <2>1, <2>3, <3>1, BAMAssumption
  <2> QED
    BY <2>2, <2>3
<1>7. SessionBound'
  <2>1. Cardinality(DOMAIN sessions') <= Cardinality(DOMAIN u) + 1
    <3>1. IsFiniteSet(DOMAIN u) /\ Cardinality(DOMAIN u) \in Nat
      BY <1>4, FiniteTable
    <3>2. Cardinality(DOMAIN u \union {k}) =
            IF k \in DOMAIN u THEN Cardinality(DOMAIN u) ELSE Cardinality(DOMAIN u) + 1
      BY <3>1, FS_AddElement
    <3> QED
      BY <1>5, <3>1, <3>2
  <2> QED
    BY <1>4, <1>5, <1>6, <2>1, FiniteTable, BAMAssumption DEF SessionBound
<1> QED
  BY <1>4, <1>5, <1>7 DEF HandleControl

\* Session j holds what it held and expects what it expected.
Same(j) == sessions'[j].total = sessions[j].total /\ sessions'[j].got = sessions[j].got

\* A packet finds no session of its source; or goes to one, which grows, unless
\* the number is none of its own; or completes one.
LEMMA DataStores ==
  ASSUME TypeOK, NEW s \in Source, NEW m \in Message, NEW i \in Nat, HandleData(s, i, m)
  PROVE  /\ TableOK(sessions') /\ DOMAIN sessions' \subseteq DOMAIN sessions
         /\ \/ /\ result' = NoResult /\ Of(sessions', s) = {}
               /\ \A j \in DOMAIN sessions' : Same(j)
            \/ /\ result' = NoResult
               /\ \E k \in Of(sessions', s) :
                    /\ sessions'[k].total = sessions[k].total
                    /\ i \in 1..sessions[k].total => sessions'[k].got = Grown(sessions[k].got, i, m)
                    /\ i \notin 1..sessions[k].total => Same(k)
                    /\ \A j \in DOMAIN sessions' \ {k} : Same(j)
            \/ \E k \in Of(sessions, s) :
                 /\ k \notin DOMAIN sessions' /\ \A j \in DOMAIN sessions' : Same(j)
                 /\ LET g == Grown(sessions[k].got, i, m) IN
                      /\ DOMAIN g = 1..sessions[k].total
                      /\ result' = [source |-> s, pgn |-> k[2], parts |-> g]
<1>1. PICK old \in Stale(sessions) :
        LET table == Without(sessions, old) IN
        \/ Of(table, s) = {} /\ sessions' = table /\ result' = NoResult
        \/ \E k \in Of(table, s) : IF Valid(i, table[k].total)
                                   THEN Stored(table, k, i, m)
                                   ELSE sessions' = table /\ result' = NoResult
  BY DEF HandleData
<1> DEFINE t == Without(sessions, old)
<1>2. /\ TableOK(t) /\ DOMAIN t = DOMAIN sessions \ old
      /\ \A j \in DOMAIN t : t[j].total = sessions[j].total /\ t[j].got = sessions[j].got
  <2>1. /\ TableOK(Without(sessions, old)) /\ DOMAIN Without(sessions, old) = DOMAIN sessions \ old
        /\ \A j \in DOMAIN sessions \ old : /\ Without(sessions, old)[j].total = sessions[j].total
                                            /\ Without(sessions, old)[j].got = sessions[j].got
    BY WithoutLeaves DEF TypeOK
  <2> QED
    BY <2>1
<1>3. \/ Of(t, s) = {} /\ sessions' = t /\ result' = NoResult
      \/ \E k \in Of(t, s) : Valid(i, t[k].total) /\ Stored(t, k, i, m)
      \/ \E k \in Of(t, s) : ~Valid(i, t[k].total) /\ sessions' = t /\ result' = NoResult
  BY <1>1
<1> HIDE DEF t
<1>4. CASE Of(t, s) = {} /\ sessions' = t /\ result' = NoResult
  BY <1>2, <1>4 DEF Same
<1>5. ASSUME NEW k \in Of(t, s), Valid(i, t[k].total), Stored(t, k, i, m)
      PROVE  \/ /\ TableOK(sessions') /\ DOMAIN sessions' = DOMAIN t /\ result' = NoResult
                /\ sessions'[k].total = sessions[k].total
                /\ sessions'[k].got = Grown(sessions[k].got, i, m)
                /\ \A j \in DOMAIN sessions' \ {k} : Same(j)
             \/ /\ TableOK(sessions') /\ DOMAIN sessions' = DOMAIN t \ {k}
                /\ \A j \in DOMAIN sessions' : Same(j)
                /\ DOMAIN Grown(sessions[k].got, i, m) = 1..sessions[k].total
                /\ result' = [source |-> s, pgn |-> k[2], parts |-> Grown(sessions[k].got, i, m)]
  <2>1. /\ k \in DOMAIN t /\ k[1] = s /\ t[k].total \in Nat
        /\ t[k].total = sessions[k].total /\ t[k].got = sessions[k].got
    BY <1>2, <1>5 DEF Of, TableOK
  <2>2. i \in 1..t[k].total
    BY <1>5, <2>1 DEF Valid
  <2> DEFINE g == Grown(t[k].got, i, m)
  <2>3. \/ /\ DOMAIN g = 1..t[k].total /\ sessions' = Without(t, {k})
           /\ result' = [source |-> k[1], pgn |-> k[2], parts |-> g]
        \/ /\ result' = NoResult /\ TableOK(sessions') /\ DOMAIN sessions' = DOMAIN t
           /\ \A j \in DOMAIN t : /\ sessions'[j].total = t[j].total
                                  /\ sessions'[j].got = IF j = k THEN g ELSE t[j].got
    BY <1>2, <1>5, <2>1, <2>2, StoredGrows
  <2>4. /\ TableOK(Without(t, {k})) /\ DOMAIN Without(t, {k}) = DOMAIN t \ {k}
        /\ \A j \in DOMAIN t \ {k} : /\ Without(t, {k})[j].total = t[j].total
                                     /\ Without(t, {k})[j].got = t[j].got
    BY <1>2, WithoutLeaves
  <2> HIDE DEF g
  <2>5. g = Grown(sessions[k].got, i, m)
    BY <2>1 DEF g
  <2> QED
    BY <1>2, <2>1, <2>3, <2>4, <2>5 DEF Same
<1>6. ASSUME NEW k \in Of(t, s), ~Valid(i, t[k].total), sessions' = t, result' = NoResult
      PROVE  /\ TableOK(sessions') /\ DOMAIN sessions' = DOMAIN t
             /\ i \notin 1..sessions[k].total /\ \A j \in DOMAIN sessions' : Same(j)
  BY <1>2, <1>6 DEF Valid, Same, Of, TableOK
<1>7. CASE \E k \in Of(t, s) : Valid(i, t[k].total) /\ Stored(t, k, i, m)
  <2>1. PICK k \in Of(t, s) : Valid(i, t[k].total) /\ Stored(t, k, i, m)
    BY <1>7
  <2>2. k \in DOMAIN t /\ k[1] = s /\ k \in Of(sessions, s)
    BY <1>2, <2>1 DEF Of
  <2>3. DOMAIN sessions' = DOMAIN t => k \in Of(sessions', s)
    BY <2>2 DEF Of
  <2>4. CASE result' = NoResult /\ DOMAIN sessions' = DOMAIN t /\ TableOK(sessions')
             /\ sessions'[k].total = sessions[k].total
             /\ sessions'[k].got = Grown(sessions[k].got, i, m)
             /\ \A j \in DOMAIN sessions' \ {k} : Same(j)
    <3>1. i \in 1..sessions[k].total
      BY <1>2, <2>1, <2>2 DEF Valid, TableOK
    <3> QED
      BY <1>2, <2>3, <2>4, <3>1
  <2>5. CASE TableOK(sessions') /\ DOMAIN sessions' = DOMAIN t \ {k}
             /\ (\A j \in DOMAIN sessions' : Same(j))
             /\ DOMAIN Grown(sessions[k].got, i, m) = 1..sessions[k].total
             /\ result' = [source |-> s, pgn |-> k[2], parts |-> Grown(sessions[k].got, i, m)]
    BY <1>2, <2>2, <2>5
  <2> QED
    BY <1>5, <2>1, <2>4, <2>5
<1>8. CASE \E k \in Of(t, s) : ~Valid(i, t[k].total) /\ sessions' = t /\ result' = NoResult
  <2>1. PICK k \in Of(t, s) : ~Valid(i, t[k].total) /\ sessions' = t /\ result' = NoResult
    BY <1>8
  <2>2. /\ TableOK(sessions') /\ DOMAIN sessions' = DOMAIN t /\ i \notin 1..sessions[k].total
        /\ \A j \in DOMAIN sessions' : Same(j)
    BY <1>6, <2>1
  <2>3. k \in DOMAIN sessions' /\ k \in Of(sessions', s)
    BY <2>1, <2>2 DEF Of
  <2> QED
    BY <1>2, <2>1, <2>2, <2>3 DEF Same
<1> QED
  BY <1>3, <1>4, <1>7, <1>8
-----------------------------------------------------------------------------
(* What the sessions of a trusted source hold                              *)

\* Every session of s is for the message x.msg that s sends and has received
\* packets of that message only; all of them, if no packet of s is ever lost.
OwnIn(table, x, s) ==
  \A k \in Of(table, s) :
    /\ k[2] = PgnOf[x.msg] /\ table[k].total = Packets[x.msg]
    /\ DOMAIN table[k].got \subseteq 1..x.sent
    /\ \A i \in DOMAIN table[k].got : table[k].got[i] = x.msg
    /\ "packet" \notin Loses[s] => DOMAIN table[k].got = 1..x.sent

BAMInv ==
  /\ TypeOK /\ SessionBound
  /\ \A s \in Source : Trusted(s) => OwnIn(sessions, sending[s], s)

\* Sessions that go, and those that keep what they hold, leave OwnIn true.
LEMMA OwnKept ==
  ASSUME NEW s \in Source, OwnIn(sessions, sending[s], s), sending'[s] = sending[s],
         Of(sessions', s) \subseteq Of(sessions, s), \A j \in Of(sessions', s) : Same(j)
  PROVE  OwnIn(sessions', sending'[s], s)
BY DEF OwnIn, Same

\* A source that loses no packet has no session left when it has sent its message.
LEMMA NothingLeft ==
  ASSUME TypeOK, NEW s \in Source, OwnIn(sessions, sending[s], s),
         "packet" \notin Loses[s], Finished(s)
  PROVE  Of(sessions, s) = {}
<1> SUFFICES ASSUME NEW k \in Of(sessions, s)
             PROVE  FALSE
  OBVIOUS
<1>1. k \in DOMAIN sessions /\ DOMAIN sessions[k].got # 1..sessions[k].total
  BY DEF Of, TypeOK, TableOK
<1> QED
  BY <1>1 DEF OwnIn, Finished

LEMMA SendingType ==
  ASSUME TypeOK, NEW s \in Source
  PROVE  /\ sending[s].msg \in Sends[s] /\ sending[s].msg \in Message
         /\ sending[s].sent \in 0..Packets[sending[s].msg]
         /\ Packets[sending[s].msg] \in Nat \ {0}
BY BAMAssumption DEF TypeOK, Sending

\* Keys of one source with one PGN are equal.
LEMMA KeyOf ==
  ASSUME TypeOK, NEW s \in Source, NEW k \in Of(sessions, s)
  PROVE  k = <<s, k[2]>> /\ k \in DOMAIN sessions
BY DEF TypeOK, TableOK, Of, Key

\* An announcement of m by a source that has finished, or is announcing it again.
LEMMA OwnAfterControl ==
  ASSUME BAMInv, NEW s \in Source, NEW m \in Sends[s], Trusted(s), HandleControl(s, m),
         sending'[s] = [msg |-> m, sent |-> 0],
         Finished(s) \/ sending[s].msg = m
  PROVE  OwnIn(sessions', sending'[s], s)
<1> DEFINE k == <<s, PgnOf[m]>>
<1>1. m \in Message /\ TypeOK /\ SessionBound /\ OwnIn(sessions, sending[s], s)
  BY BAMAssumption DEF BAMInv
<1>2. /\ DOMAIN sessions' \subseteq DOMAIN sessions \union {k}
      /\ sessions'[k].total = Packets[m] /\ sessions'[k].got = << >>
  BY <1>1, ControlCreates
<1>3. ASSUME NEW j \in Of(sessions', s), j # k
      PROVE  FALSE
  <2>1. j \in Of(sessions, s)
    BY <1>2, <1>3 DEF Of
  <2>2. j = <<s, PgnOf[sending[s].msg]>>
    BY <1>1, <2>1, KeyOf DEF OwnIn
  <2>3. CASE sending[s].msg = m
    BY <1>3, <2>2, <2>3
  <2>4. CASE Finished(s) /\ "packet" \notin Loses[s]
    BY <1>1, <2>1, <2>4, NothingLeft
  <2>5. CASE OnePgn(s)
    BY <1>1, <1>3, <2>2, <2>5, SendingType DEF OnePgn
  <2> QED
    BY <2>3, <2>4, <2>5 DEF Trusted
<1>4. DOMAIN << >> = {} /\ 1..0 = {}
  OBVIOUS
<1> HIDE DEF k
<1>5. k[2] = PgnOf[m]
  BY DEF k
<1>6. ASSUME NEW j \in Of(sessions', s)
      PROVE  /\ j[2] = PgnOf[m] /\ sessions'[j].total = Packets[m]
             /\ DOMAIN sessions'[j].got = {}
  BY <1>2, <1>3, <1>4, <1>5, <1>6
<1>7. sending'[s].msg = m /\ sending'[s].sent = 0
  OBVIOUS
<1> QED
  BY <1>4, <1>6, <1>7 DEF OwnIn

\* Packet i of the message s sends, for the first time or again.
LEMMA OwnAfterData ==
  ASSUME BAMInv, NEW s \in Source, Trusted(s), NEW i \in Nat,
         HandleData(s, i, sending[s].msg), i \in 1..Packets[sending[s].msg],
         sending[s].sent \in {i - 1, i}, sending'[s] = [msg |-> sending[s].msg, sent |-> i]
  PROVE  OwnIn(sessions', sending'[s], s) /\ (result' # NoResult => Whole(result)')
<1> DEFINE m == sending[s].msg
           k == <<s, PgnOf[m]>>
<1>1. /\ TypeOK /\ OwnIn(sessions, sending[s], s)
      /\ m \in Message /\ Packets[m] \in Nat \ {0}
  BY SendingType DEF BAMInv
<1>2. \A j \in Of(sessions, s) : j = k
  BY <1>1, KeyOf DEF OwnIn
<1>3. DOMAIN sessions' \subseteq DOMAIN sessions /\ Of(sessions', s) \subseteq Of(sessions, s)
  BY <1>1, DataStores DEF Of
<1>4. sending'[s].msg = m /\ sending'[s].sent = i
  OBVIOUS
<1>5. k \in Of(sessions, s) =>
        /\ sessions[k].total = Packets[m]
        /\ DOMAIN sessions[k].got \subseteq 1..sending[s].sent
        /\ \A n \in DOMAIN sessions[k].got : sessions[k].got[n] = m
        /\ "packet" \notin Loses[s] => DOMAIN sessions[k].got = 1..sending[s].sent
        /\ k[2] = PgnOf[m]
  BY <1>1 DEF OwnIn
<1> DEFINE g == Grown(sessions[k].got, i, m)
<1>6. /\ DOMAIN g = DOMAIN sessions[k].got \union {i}
      /\ g = [n \in DOMAIN g |-> IF n = i THEN m ELSE sessions[k].got[n]]
  BY DEF Grown
<1>7. ASSUME k \in Of(sessions, s)
      PROVE  /\ DOMAIN g \subseteq 1..i /\ \A n \in DOMAIN g : g[n] = m
             /\ "packet" \notin Loses[s] => DOMAIN g = 1..i
  <2> HIDE DEF g
  <2>1. 1..sending[s].sent \union {i} = 1..i
    OBVIOUS
  <2> QED
    BY <1>5, <1>6, <1>7, <2>1
<1>8. CASE result' = NoResult /\ Of(sessions', s) = {}
  BY <1>8 DEF OwnIn
<1>9. CASE result' = NoResult /\ k \in Of(sessions', s) /\ sessions'[k].got = g
           /\ sessions'[k].total = sessions[k].total
  <2> HIDE DEF g, k, m
  <2>1. \A j \in Of(sessions', s) : j = k
    BY <1>2, <1>3
  <2>2. k \in Of(sessions, s)
    BY <1>3, <1>9
  <2> QED
    BY <1>4, <1>5, <1>7, <1>9, <2>1, <2>2 DEF OwnIn
<1>10. CASE k \in Of(sessions, s) /\ k \notin DOMAIN sessions' /\ DOMAIN g = 1..sessions[k].total
            /\ result' = [source |-> s, pgn |-> k[2], parts |-> g]
  <2>1. Of(sessions', s) = {}
    BY <1>2, <1>3, <1>10 DEF Of
  <2>2. g = [n \in 1..Packets[m] |-> m]
    <3> HIDE DEF g, k, m
    <3> QED
      BY <1>5, <1>6, <1>7, <1>10
  <2>3. Whole(result)'
    <3>1. k[2] = PgnOf[m]
      OBVIOUS
    <3> HIDE DEF g, k, m
    <3>2. result'.source = s /\ result'.pgn = PgnOf[m] /\ result'.parts = [n \in 1..Packets[m] |-> m]
      BY <1>10, <2>2, <3>1
    <3> QED
      BY <1>4, <3>2 DEF Whole
  <2> QED
    BY <2>1, <2>3 DEF OwnIn
<1> QED
  <2>1. k \in Of(sessions, s) => i \in 1..sessions[k].total
    BY <1>5
  <2> HIDE DEF g, k
  <2>2. \/ result' = NoResult /\ Of(sessions', s) = {}
        \/ /\ result' = NoResult
           /\ \E j \in Of(sessions', s) :
                /\ sessions'[j].total = sessions[j].total
                /\ i \in 1..sessions[j].total => sessions'[j].got = Grown(sessions[j].got, i, m)
        \/ \E j \in Of(sessions, s) :
             /\ j \notin DOMAIN sessions'
             /\ DOMAIN Grown(sessions[j].got, i, m) = 1..sessions[j].total
             /\ result' = [source |-> s, pgn |-> j[2], parts |-> Grown(sessions[j].got, i, m)]
    BY <1>1, DataStores
  <2> QED
    BY <1>2, <1>3, <1>8, <1>9, <1>10, <2>1, <2>2 DEF g
-----------------------------------------------------------------------------
(* Theorems                                                                *)

\* The part of the invariant that speaks of what has happened in a step of
\* source s: TypeOK and the limit, its own sessions and what was returned.
StepKeeps(s) ==
  /\ TableOK(sessions') /\ SessionBound'
  /\ Trusted(s) => OwnIn(sessions', sending'[s], s)
  /\ result' # NoResult => result'.source = s /\ (Trusted(s) => Whole(result)')
  /\ \A j \in DOMAIN sessions' : j[1] # s => j \in DOMAIN sessions /\ Same(j)

LEMMA SameBound ==
  ASSUME TypeOK, SessionBound, DOMAIN sessions' \subseteq DOMAIN sessions
  PROVE  SessionBound'
BY SmallerTable, FiniteTable, BAMAssumption DEF TypeOK, SessionBound

LEMMA LostKeeps ==
  ASSUME BAMInv, NEW s \in Source, sessions' = sessions, result' = NoResult,
         Trusted(s) => OwnIn(sessions, sending'[s], s)
  PROVE  StepKeeps(s)
<1>1. TableOK(sessions) /\ SessionBound
  BY DEF BAMInv, TypeOK
<1> QED
  BY <1>1 DEF StepKeeps, Same, SessionBound

LEMMA ControlKeeps ==
  ASSUME BAMInv, NEW s \in Source, NEW m \in Sends[s], HandleControl(s, m),
         sending'[s] = [msg |-> m, sent |-> 0], Finished(s) \/ sending[s].msg = m
  PROVE  StepKeeps(s)
<1>1. m \in Message /\ TypeOK /\ SessionBound
  BY BAMAssumption DEF BAMInv
<1> DEFINE k == <<s, PgnOf[m]>>
<1>2. /\ TableOK(sessions') /\ SessionBound' /\ result' = NoResult
      /\ DOMAIN sessions' \subseteq DOMAIN sessions \union {k}
      /\ \A j \in DOMAIN sessions' \ {k} : /\ sessions'[j].total = sessions[j].total
                                           /\ sessions'[j].got = sessions[j].got
  BY <1>1, ControlCreates
<1>3. k[1] = s
  OBVIOUS
<1> HIDE DEF k
<1>4. \A j \in DOMAIN sessions' : j[1] # s => j \in DOMAIN sessions /\ Same(j)
  BY <1>2, <1>3 DEF Same
<1>5. Trusted(s) => OwnIn(sessions', sending'[s], s)
  BY OwnAfterControl
<1> QED
  BY <1>2, <1>4, <1>5 DEF StepKeeps

LEMMA DataKeeps ==
  ASSUME BAMInv, NEW s \in Source, NEW i \in Nat, HandleData(s, i, sending[s].msg),
         i \in 1..Packets[sending[s].msg], sending[s].sent \in {i - 1, i},
         sending'[s] = [msg |-> sending[s].msg, sent |-> i]
  PROVE  StepKeeps(s)
<1>1. TypeOK /\ SessionBound /\ sending[s].msg \in Message
  BY SendingType DEF BAMInv
<1> DEFINE m == sending[s].msg
<1>2. TableOK(sessions') /\ DOMAIN sessions' \subseteq DOMAIN sessions
  BY <1>1, DataStores
<1>3. \/ \A j \in DOMAIN sessions' : Same(j)
      \/ \E k \in Of(sessions', s) : \A j \in DOMAIN sessions' \ {k} : Same(j)
  BY <1>1, DataStores
<1>4. \A j \in DOMAIN sessions' : j[1] # s => j \in DOMAIN sessions /\ Same(j)
  BY <1>2, <1>3 DEF Of
<1>5. result' # NoResult => result'.source = s
  <2>1. \/ result' = NoResult
        \/ \E k \in Of(sessions, s) :
             result' = [source |-> s, pgn |-> k[2], parts |-> Grown(sessions[k].got, i, m)]
    BY <1>1, DataStores
  <2> QED
    BY <2>1
<1>6. Trusted(s) => OwnIn(sessions', sending'[s], s) /\ (result' # NoResult => Whole(result)')
  BY OwnAfterData
<1> QED
  BY <1>1, <1>2, <1>4, <1>5, <1>6, SameBound DEF StepKeeps

\* A step that keeps what is said of its source keeps the invariant, and what
\* it returns is whole.
LEMMA StepSuffices ==
  ASSUME BAMInv, NEW s \in Source, StepKeeps(s), NEW x \in Sending(s),
         sending' = [sending EXCEPT ![s] = x]
  PROVE  BAMInv' /\ WholeMessages'
<1>1. /\ sending' = [r \in Source |-> sending'[r]]
      /\ \A r \in Source : sending'[r] = IF r = s THEN x ELSE sending[r]
      /\ \A r \in Source : sending[r] \in Sending(r)
  BY DEF BAMInv, TypeOK
<1>2. TypeOK' /\ SessionBound'
  BY <1>1 DEF TypeOK, StepKeeps
<1>3. ASSUME NEW r \in Source, Trusted(r)
      PROVE  OwnIn(sessions', sending'[r], r)
  <2>1. CASE r = s
    BY <1>3, <2>1 DEF StepKeeps
  <2>2. CASE r # s
    <3>1. /\ Of(sessions', r) \subseteq Of(sessions, r)
          /\ \A j \in Of(sessions', r) : Same(j)
      BY <2>2 DEF StepKeeps, Of
    <3> QED
      BY <1>1, <1>3, <2>2, <3>1, OwnKept DEF BAMInv
  <2> QED
    BY <2>1, <2>2
<1>4. WholeMessages'
  BY DEF StepKeeps, WholeMessages
<1> QED
  BY <1>2, <1>3, <1>4 DEF BAMInv

LEMMA BAMStep ==
  ASSUME BAMInv, Next
  PROVE  BAMInv' /\ WholeMessages'
<1>1. ASSUME NEW s \in Source, NEW m \in Message, Announce(s, m)
      PROVE  BAMInv' /\ WholeMessages'
  <2> DEFINE x == [msg |-> m, sent |-> 0]
  <2>1. m \in Sends[s] /\ sending' = [sending EXCEPT ![s] = x] /\ Finished(s)
    BY <1>1 DEF Announce
  <2>2. sending'[s] = x
    BY <2>1 DEF BAMInv, TypeOK
  <2>3. x \in Sending(s)
    BY <2>1, BAMAssumption DEF Sending
  <2>4. CASE HandleControl(s, m)
    BY <2>1, <2>2, <2>3, <2>4, ControlKeeps, StepSuffices
  <2>5. CASE Lost(s, "announcement")
    <3>1. ASSUME Trusted(s)
          PROVE  OwnIn(sessions, sending'[s], s)
      <4>1. "packet" \notin Loses[s]
        BY <2>5, <3>1 DEF Lost, Trusted
      <4>2. Of(sessions, s) = {}
        BY <2>1, <3>1, <4>1, NothingLeft DEF BAMInv
      <4> QED
        BY <4>2 DEF OwnIn
    <3>2. StepKeeps(s)
      BY <2>5, <3>1, LostKeeps DEF Lost
    <3> QED
      BY <2>1, <2>3, <3>2, StepSuffices
  <2> QED
    BY <1>1, <2>4, <2>5 DEF Announce
<1>2. ASSUME NEW s \in Source, SendPacket(s)
      PROVE  BAMInv' /\ WholeMessages'
  <2> DEFINE m == sending[s].msg
             i == sending[s].sent + 1
             x == [msg |-> m, sent |-> i]
  <2>1. TypeOK /\ m \in Sends[s] /\ sending[s].sent \in 0..Packets[m] /\ Packets[m] \in Nat
    BY SendingType DEF BAMInv
  <2>2. i \in Nat /\ i \in 1..Packets[m] /\ sending[s].sent = i - 1
    BY <1>2, <2>1 DEF SendPacket, Finished
  <2>3. sending[s] = [msg |-> m, sent |-> sending[s].sent]
    BY <2>1 DEF TypeOK, Sending
  <2>4. sending' = [sending EXCEPT ![s] = x] /\ sending'[s] = x
    <3>1. sending' = [sending EXCEPT ![s] = [sending[s] EXCEPT !.sent = i]]
      BY <1>2 DEF SendPacket
    <3>2. [sending[s] EXCEPT !.sent = i] = x
      BY <2>3
    <3> QED
      BY <2>1, <3>1, <3>2 DEF TypeOK
  <2>5. x \in Sending(s)
    BY <2>1, <2>2 DEF Sending
  <2>6. CASE HandleData(s, i, m)
    BY <2>2, <2>4, <2>5, <2>6, DataKeeps, StepSuffices
  <2>7. CASE Lost(s, "packet")
    <3>1. ASSUME Trusted(s)
          PROVE  OwnIn(sessions, sending'[s], s)
      <4>1. OwnIn(sessions, sending[s], s) /\ "packet" \in Loses[s]
        BY <2>7, <3>1 DEF BAMInv, Lost
      <4>2. 1..sending[s].sent \subseteq 1..i
        BY <2>1
      <4> QED
        BY <2>4, <4>1, <4>2 DEF OwnIn
    <3>2. StepKeeps(s)
      BY <2>7, <3>1, LostKeeps DEF Lost
    <3> QED
      BY <2>4, <2>5, <3>2, StepSuffices
  <2> QED
    BY <1>2, <2>4, <2>6, <2>7 DEF SendPacket
<1>3. ASSUME NEW s \in Source, Repeat(s)
      PROVE  BAMInv' /\ WholeMessages'
  <2> DEFINE m == sending[s].msg
             i == sending[s].sent
  <2>1. TypeOK /\ m \in Sends[s] /\ i \in 0..Packets[m] /\ Packets[m] \in Nat
    BY SendingType DEF BAMInv
  <2>2. sending[s] = [msg |-> m, sent |-> i] /\ sending[s] \in Sending(s)
    BY <2>1 DEF TypeOK, Sending
  <2>3. sending' = [sending EXCEPT ![s] = sending[s]] /\ sending'[s] = sending[s]
    BY <1>3, <2>1 DEF Repeat, TypeOK
  <2>4. CASE i = 0
    <3>1. HandleControl(s, m)
      BY <1>3, <2>4 DEF Repeat
    <3>2. StepKeeps(s)
      BY <2>1, <2>2, <2>3, <2>4, <3>1, ControlKeeps
    <3> QED
      BY <2>2, <2>3, <3>2, StepSuffices
  <2>5. CASE i # 0
    <3>1. HandleData(s, i, m) /\ i \in Nat /\ i \in 1..Packets[m]
      BY <1>3, <2>1, <2>5 DEF Repeat
    <3>2. StepKeeps(s)
      BY <2>2, <2>3, <3>1, DataKeeps
    <3> QED
      BY <2>2, <2>3, <3>2, StepSuffices
  <2> QED
    BY <2>4, <2>5
<1>4. CASE OtherFrame
  <2>1. PICK old \in Stale(sessions) : sessions' = Without(sessions, old)
    BY <1>4 DEF OtherFrame
  <2>2. /\ TypeOK /\ SessionBound /\ TableOK(sessions) /\ sending' = sending /\ result' = NoResult
    BY <1>4 DEF OtherFrame, BAMInv, TypeOK
  <2>3. /\ TableOK(sessions') /\ DOMAIN sessions' \subseteq DOMAIN sessions
        /\ \A j \in DOMAIN sessions' : Same(j)
    <3>1. /\ TableOK(Without(sessions, old)) /\ DOMAIN Without(sessions, old) = DOMAIN sessions \ old
          /\ \A j \in DOMAIN sessions \ old : /\ Without(sessions, old)[j].total = sessions[j].total
                                              /\ Without(sessions, old)[j].got = sessions[j].got
      BY <2>2, WithoutLeaves
    <3> QED
      BY <2>1, <3>1 DEF Same
  <2>4. TypeOK' /\ SessionBound'
    BY <2>2, <2>3, SameBound DEF TypeOK
  <2>5. ASSUME NEW r \in Source, Trusted(r)
        PROVE  OwnIn(sessions', sending'[r], r)
    BY <2>2, <2>3, <2>5, OwnKept DEF BAMInv, Of
  <2> QED
    BY <2>2, <2>4, <2>5 DEF BAMInv, WholeMessages
<1> QED
  BY <1>1, <1>2, <1>3, <1>4 DEF Next

LEMMA BAMStarts ==
  ASSUME Init
  PROVE  BAMInv /\ WholeMessages
<1>1. DOMAIN sessions = {} /\ sessions = [k \in DOMAIN sessions |-> sessions[k]]
  BY DEF Init
<1>2. TypeOK
  BY <1>1 DEF Init, TypeOK, TableOK
<1>3. Cardinality(DOMAIN sessions) = 0
  BY <1>1, FS_EmptySet
<1> QED
  BY <1>1, <1>2, <1>3, BAMAssumption DEF Init, BAMInv, SessionBound, OwnIn, Of, WholeMessages

LEMMA BAMInvariant == Spec => [](BAMInv /\ WholeMessages)
<1>1. BAMInv /\ WholeMessages /\ UNCHANGED vars => (BAMInv /\ WholeMessages)'
  BY DEF vars, BAMInv, TypeOK, SessionBound, OwnIn, WholeMessages, Whole
<1> QED
  BY BAMStarts, BAMStep, <1>1, PTL DEF Spec

\* The handler's table keeps its form, whatever arrives in whatever order.
THEOREM BAMTypes == Spec => []TypeOK
BY BAMInvariant, PTL DEF BAMInv

\* There are never more sessions than max_concurrent_sessions.
THEOREM Limited == Spec => []SessionBound
BY BAMInvariant, PTL DEF BAMInv

\* What is returned of a trusted source is the message it is sending.
THEOREM MessagesWhole == Spec => []WholeMessages
BY BAMInvariant, PTL

\* A message of which every packet arrives leaves no session behind.
THEOREM LeavesNothing == Spec => []NoLeftover
<1>1. BAMInv => NoLeftover
  BY NothingLeft DEF BAMInv, NoLeftover, Trusted
<1> QED
  BY <1>1, BAMInvariant, PTL
=============================================================================
