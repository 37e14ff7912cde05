---------------------- MODULE NotificationFrontEndProofs ----------------------
(***************************************************************************)
(* Theorems about NotificationFrontEnd for every set of callers, keys and  *)
(* channels, and every rate, bucket size and window.                       *)
(***************************************************************************)
EXTENDS NotificationFrontEnd, TLAPS
-----------------------------------------------------------------------------
(* Whole tokens                                                            *)

\* The whole part of a product is the largest number that fits.
LEMMA WholePart ==
  ASSUME NEW x \in Nat, NEW m \in Nat \ {0}
  PROVE  /\ x \div m \in Nat
         /\ m * (x \div m) <= x
         /\ \A q \in Nat : m * q <= x => q <= x \div m
OBVIOUS

\* Rounding the tokens of two spans down gains none over rounding their sum.
LEMMA RoundingGainsNone ==
  ASSUME NEW x \in Nat, NEW y \in Nat, NEW m \in Nat \ {0}
  PROVE  (x \div m) + (y \div m) <= (x + y) \div m
<1> DEFINE p == x \div m
           q == y \div m
<1>1. p \in Nat /\ q \in Nat /\ m * p <= x /\ m * q <= y
  BY WholePart
<1>2. x + y \in Nat
  OBVIOUS
<1> HIDE DEF p, q
<1>3. m * (p + q) = m * p + m * q
  BY <1>1
<1>4. m * (p + q) <= x + y
  BY <1>1, <1>3
<1>5. p + q <= (x + y) \div m
  BY <1>1, <1>2, <1>4, WholePart
<1> QED BY <1>5 DEF p, q

\* The tokens of a span are those of its parts at least.
LEMMA SpanTokens ==
  ASSUME NEW a \in Nat, NEW b \in Nat, NEW c \in Nat, a <= b, b <= c
  PROVE  /\ ((b - a) * Rate) \div Minute \in Nat /\ ((c - b) * Rate) \div Minute \in Nat
         /\ ((b - a) * Rate) \div Minute + ((c - b) * Rate) \div Minute
              <= ((c - a) * Rate) \div Minute
<1> DEFINE x == (b - a) * Rate
           y == (c - b) * Rate
<1>0. b - a \in Nat /\ c - b \in Nat /\ Rate \in Nat /\ Minute \in Nat \ {0}
  BY FrontEndAssumption
<1>1. x \in Nat /\ y \in Nat
  BY <1>0
<1>2. x + y = (c - a) * Rate
  BY <1>0
<1> HIDE DEF x, y
<1>3. x \div Minute \in Nat /\ y \div Minute \in Nat
  BY <1>0, <1>1, WholePart
<1>4. x \div Minute + y \div Minute <= (x + y) \div Minute
  BY <1>0, <1>1, RoundingGainsNone
<1> QED BY <1>2, <1>3, <1>4 DEF x, y
-----------------------------------------------------------------------------
(* Buckets                                                                 *)

Bucket == [tokens : 0..Max, refill : 0..MaxTime]

\* A refill fills no bucket beyond its size, and gives no more than the time
\* since the last one allows.
LEMMA RefilledBucket ==
  ASSUME NEW b \in Bucket, now \in 0..MaxTime, b.refill <= now
  PROVE  LET add == ((now - b.refill) * Rate) \div Minute
             r == Refilled(b)
         IN  /\ add \in Nat /\ r \in Bucket
             /\ \/ r = b
                \/ r.refill = now /\ r.tokens <= b.tokens + add
<1> DEFINE add == ((now - b.refill) * Rate) \div Minute
           r == Refilled(b)
<1>0. b.tokens \in 0..Max /\ b.refill \in 0..MaxTime /\ Max \in Nat /\ MaxTime \in Nat
  BY FrontEndAssumption DEF Bucket
<1>1. now \in Nat /\ b.refill \in Nat
  BY <1>0
<1>2. add \in Nat
  <2>1. (now - b.refill) * Rate \in Nat /\ Minute \in Nat \ {0}
    BY <1>1, FrontEndAssumption
  <2> QED BY <2>1, WholePart
<1>3. r = IF add >= 1 THEN [tokens |-> Lower(Max, b.tokens + add), refill |-> now] ELSE b
  BY DEF Refilled
<1> HIDE DEF add
<1>4. Lower(Max, b.tokens + add) \in 0..Max /\ Lower(Max, b.tokens + add) <= b.tokens + add
  BY <1>0, <1>2 DEF Lower
<1>5. CASE add >= 1
  BY <1>2, <1>3, <1>4, <1>5 DEF Bucket, add
<1>6. CASE ~(add >= 1)
  BY <1>2, <1>3, <1>6 DEF Bucket, add
<1> QED BY <1>5, <1>6

\* A token is taken from a bucket that has one.
LEMMA AllowedBucket ==
  ASSUME NEW b \in Bucket, now \in 0..MaxTime, b.refill <= now
  PROVE  /\ Allowed(b) \in Bucket
         /\ Allowed(b).refill = Refilled(b).refill
         /\ Allowed(b).refill <= now
         /\ Allowed(b).tokens = IF Allows(b) THEN Refilled(b).tokens - 1 ELSE Refilled(b).tokens
<1> DEFINE r == Refilled(b)
<1>1. r \in Bucket /\ r.refill <= now
  BY RefilledBucket, FrontEndAssumption DEF Bucket
<1> HIDE DEF r
<1>2. CASE Allows(b)
  <2>1. r.tokens >= 1 /\ Allowed(b) = [r EXCEPT !.tokens = r.tokens - 1]
    BY <1>2 DEF Allows, Allowed, Less, r
  <2>2. r.tokens - 1 \in 0..Max
    BY <1>1, <2>1, FrontEndAssumption DEF Bucket
  <2> QED BY <1>1, <1>2, <2>1, <2>2 DEF Bucket, r
<1>3. CASE ~Allows(b)
  BY <1>1, <1>3 DEF Allowed, r
<1> QED BY <1>2, <1>3

LEMMA FreshBucket ==
  ASSUME NEW t \in 0..MaxTime
  PROVE  Fresh(t) \in Bucket /\ Fresh(t).refill = t /\ Fresh(t).tokens = Max
BY FrontEndAssumption DEF Fresh, Bucket
-----------------------------------------------------------------------------
(* Types                                                                   *)

Ticket == [key : Key, at : Nat, era : Nat, token : Nat]
Place == {"idle", "initializing", "admitting", "routing", "queueing"}

\* Times and keys in a debouncer are of the past.
SeenOK(s) == s \in [Key -> 0..MaxTime \union {Never}] /\ \A k \in Key : s[k] <= now

\* No bucket was refilled, and no key seen, in the future.
LimitsOK ==
  /\ now \in 0..MaxTime /\ ready \in BOOLEAN /\ era \in Nat /\ taken \in Nat
  /\ born \in 0..MaxTime
  /\ bucket \in Bucket /\ bucket.refill \in born..now
  /\ channels \in [Channel -> Bucket] /\ \A c \in Channel : channels[c].refill <= now
  /\ SeenOK(seen)

\* A caller on its way has a key, and once admitted a ticket.
HasKey(p) == \E k \in Key : job[p] = [NoJob EXCEPT !.key = k]
CallersOK ==
  /\ pc \in [Caller -> Place]
  /\ job = [p \in Caller |-> job[p]]
  /\ \A p \in Caller : /\ pc[p] = "idle" => job[p] = NoJob
                       /\ pc[p] \in {"initializing", "admitting"} => HasKey(p)
                       /\ pc[p] \in {"routing", "queueing"} => job[p] \in Ticket
  /\ admitted \subseteq Ticket

FrontEndInv == LimitsOK /\ CallersOK

LEMMA InitFrontEnd == Init => FrontEndInv
<1> SUFFICES ASSUME Init PROVE FrontEndInv
  OBVIOUS
<1>0. 0 \in 0..MaxTime /\ Fresh(0) \in Bucket /\ Fresh(0).refill = 0
  BY FreshBucket, FrontEndAssumption
<1>1. channels \in [Channel -> Bucket] /\ \A c \in Channel : channels[c].refill <= now
  BY <1>0 DEF Init
<1>2. SeenOK(seen)
  BY DEF Init, Never, SeenOK
<1>3. LimitsOK
  <2>1. bucket \in Bucket /\ bucket.refill \in born..now
    BY <1>0 DEF Init
  <2>2. now \in 0..MaxTime /\ ready \in BOOLEAN /\ era \in Nat /\ taken \in Nat /\ born \in 0..MaxTime
    BY <1>0 DEF Init
  <2> QED BY <1>1, <1>2, <2>1, <2>2 DEF LimitsOK
<1>4. CallersOK
  BY DEF Init, CallersOK, Place
<1> QED BY <1>3, <1>4 DEF FrontEndInv

LEMMA CleanedOK ==
  ASSUME NEW s, SeenOK(s), now \in 0..MaxTime
  PROVE  SeenOK(Cleaned(s))
BY FrontEndAssumption DEF SeenOK, Cleaned, Never

LEMMA MarkedOK ==
  ASSUME SeenOK(seen), now \in 0..MaxTime, NEW k \in Key
  PROVE  SeenOK(Marked(k))
<1> DEFINE s == [seen EXCEPT ![k] = now]
<1>1. SeenOK(s)
  BY FrontEndAssumption DEF SeenOK
<1>2. Marked(k) = s \/ Marked(k) = Cleaned(s)
  BY DEF Marked
<1> HIDE DEF s
<1> QED BY <1>1, <1>2, CleanedOK

\* The limits change at the clock and at five places of notify.
LEMMA NextLimits ==
  ASSUME LimitsOK, CallersOK, [Next]_vars
  PROVE  LimitsOK'
<1>0. /\ now \in 0..MaxTime /\ ready \in BOOLEAN /\ era \in Nat /\ taken \in Nat
      /\ born \in 0..MaxTime /\ now \in Nat /\ born \in Nat
      /\ bucket \in Bucket /\ bucket.refill \in born..now
      /\ channels \in [Channel -> Bucket] /\ \A c \in Channel : channels[c].refill <= now
      /\ SeenOK(seen)
  BY DEF LimitsOK
<1>b. bucket.refill \in Nat /\ \A c \in Channel : channels[c].refill \in Nat
  BY <1>0 DEF Bucket
<1>1. CASE Tick
  <2>1. now' \in 0..MaxTime /\ now' = now + 1
    BY <1>0, <1>1, FrontEndAssumption DEF Tick
  <2>2. SeenOK(seen)'
    BY <1>0, <1>1, <2>1 DEF Tick, SeenOK, Never
  <2>3. bucket'.refill \in born'..now' /\ \A c \in Channel : channels'[c].refill <= now'
    BY <1>0, <1>1, <1>b, <2>1 DEF Tick
  <2> QED BY <1>0, <1>1, <2>1, <2>2, <2>3 DEF Tick, LimitsOK
<1>2. CASE Cleanup
  <2>1. SeenOK(Cleaned(seen))
    BY <1>0, CleanedOK
  <2> QED BY <1>0, <1>2, <2>1 DEF Cleanup, LimitsOK, SeenOK
<1>3. ASSUME NEW p \in Caller, Initialized(p) \/ RoutesFail(p) PROVE LimitsOK'
  <2>1. /\ bucket' = Fresh(now) /\ channels' = [c \in Channel |-> Fresh(now)]
        /\ seen' = [k \in Key |-> Never] /\ born' = now /\ now' = now
        /\ ready' \in BOOLEAN /\ era' = era + 1 /\ taken' = 0
    BY <1>0, <1>3 DEF Initialized, RoutesFail, MakeLimits
  <2>2. Fresh(now) \in Bucket /\ Fresh(now).refill = now
    BY <1>0, FreshBucket
  <2>3. SeenOK(seen)'
    BY <1>0, <2>1 DEF SeenOK, Never
  <2> QED BY <1>0, <2>1, <2>2, <2>3 DEF LimitsOK
<1>4. ASSUME NEW p \in Caller, Admit(p) PROVE LimitsOK'
  <2>1. /\ bucket' = Allowed(bucket) /\ UNCHANGED <<now, ready, era, channels, born>>
        /\ taken' \in {taken, taken + 1}
        /\ seen' = seen \/ seen' = Marked(job[p].key)
    BY <1>4 DEF Admit
  <2>2. job[p].key \in Key
    <3>1. PICK k \in Key : job[p] = [NoJob EXCEPT !.key = k]
      BY <1>4 DEF CallersOK, HasKey, Admit
    <3> QED BY <3>1 DEF NoJob
  <2>3. SeenOK(seen)'
    BY <1>0, <2>1, <2>2, MarkedOK DEF SeenOK
  <2>4. Allowed(bucket) \in Bucket /\ Allowed(bucket).refill \in born..now
    <3>1. /\ Allowed(bucket) \in Bucket /\ Allowed(bucket).refill <= now
          /\ Allowed(bucket).refill = Refilled(bucket).refill
      BY <1>0, AllowedBucket
    <3>2. Refilled(bucket) = bucket \/ Refilled(bucket).refill = now
      BY DEF Refilled
    <3> QED BY <1>0, <3>1, <3>2
  <2> QED BY <1>0, <2>1, <2>3, <2>4 DEF LimitsOK
<1>5. ASSUME NEW p \in Caller, Route(p) PROVE LimitsOK'
  <2>1. PICK targets \in SUBSET Channel :
          channels' = [c \in Channel |-> IF c \in targets THEN Allowed(channels[c]) ELSE channels[c]]
    BY <1>5 DEF Route
  <2>2. \A c \in Channel : Allowed(channels[c]) \in Bucket /\ Allowed(channels[c]).refill <= now
    BY <1>0, AllowedBucket
  <2>3. channels' \in [Channel -> Bucket] /\ \A c \in Channel : channels'[c].refill <= now
    BY <1>0, <2>1, <2>2
  <2>4. UNCHANGED <<now, ready, era, bucket, seen, taken, born>>
    BY <1>5 DEF Route
  <2> QED BY <1>0, <2>3, <2>4 DEF LimitsOK, SeenOK
<1>6. CASE UNCHANGED <<now, ready, era, bucket, channels, seen, taken, born>>
  BY <1>0, <1>6 DEF LimitsOK, SeenOK
<1>7. ASSUME NEW p \in Caller,
             (\E k \in Key : Notify(p, k)) \/ InitializeFails(p) \/ RouteFails(p) \/ Enqueue(p)
      PROVE  LimitsOK'
  BY <1>6, <1>7 DEF Notify, InitializeFails, RouteFails, Enqueue
<1>8. CASE UNCHANGED vars
  BY <1>6, <1>8 DEF vars
<1> QED BY <1>1, <1>2, <1>3, <1>4, <1>5, <1>7, <1>8 DEF Next

\* One caller moves: the others keep their place and their job.
LEMMA CallerMoves ==
  ASSUME CallersOK, NEW p \in Caller, NEW to \in Place, NEW j,
         pc' = [pc EXCEPT ![p] = to], job' = [job EXCEPT ![p] = j],
         to = "idle" => j = NoJob,
         to \in {"initializing", "admitting"} => \E k \in Key : j = [NoJob EXCEPT !.key = k],
         to \in {"routing", "queueing"} => j \in Ticket,
         admitted' \subseteq Ticket
  PROVE  CallersOK'
<1>1. pc \in [Caller -> Place] /\ job = [q \in Caller |-> job[q]]
  BY DEF CallersOK
<1>2. pc' \in [Caller -> Place] /\ job' = [q \in Caller |-> job'[q]]
  BY <1>1
<1>3. ASSUME NEW q \in Caller
      PROVE  /\ pc'[q] = "idle" => job'[q] = NoJob
             /\ pc'[q] \in {"initializing", "admitting"} => HasKey(q)'
             /\ pc'[q] \in {"routing", "queueing"} => job'[q] \in Ticket
  <2>1. CASE q = p
    BY <1>1, <2>1 DEF HasKey
  <2>2. CASE q # p
    BY <1>1, <2>2 DEF CallersOK, HasKey
  <2> QED BY <2>1, <2>2
<1> QED BY <1>2, <1>3 DEF CallersOK

LEMMA NextCallers ==
  ASSUME LimitsOK, CallersOK, [Next]_vars
  PROVE  CallersOK'
<1>0. pc \in [Caller -> Place] /\ job = [q \in Caller |-> job[q]] /\ admitted \subseteq Ticket
  BY DEF CallersOK
<1>1. ASSUME UNCHANGED <<callerVars, admitted>> PROVE CallersOK'
  BY <1>0, <1>1 DEF callerVars, CallersOK, HasKey
<1>2. ASSUME NEW p \in Caller, NEW from, Done(p, from), admitted' \subseteq Ticket PROVE CallersOK'
  BY <1>2, CallerMoves DEF Done, Goes, Place
<1>3. CASE Tick \/ Cleanup \/ UNCHANGED vars
  BY <1>1, <1>3 DEF Tick, Cleanup, vars
<1>4. ASSUME NEW p \in Caller, NEW k \in Key, Notify(p, k) PROVE CallersOK'
  <2> DEFINE to == IF ready THEN "admitting" ELSE "initializing"
             j == [job[p] EXCEPT !.key = k]
  <2>1. pc[p] = "idle" /\ pc' = [pc EXCEPT ![p] = to] /\ job' = [job EXCEPT ![p] = j]
    BY <1>0, <1>4 DEF Notify, Goes
  <2>2. to \in Place /\ to \notin {"idle", "routing", "queueing"} /\ admitted' \subseteq Ticket
    BY <1>0, <1>4 DEF Place, Notify
  <2>3. j = [NoJob EXCEPT !.key = k]
    BY <2>1 DEF CallersOK
  <2> HIDE DEF to, j
  <2> QED BY <2>1, <2>2, <2>3, CallerMoves
<1>5. ASSUME NEW p \in Caller, Initialized(p) PROVE CallersOK'
  <2>1. pc[p] = "initializing" /\ pc' = [pc EXCEPT ![p] = "admitting"] /\ UNCHANGED <<job, admitted>>
    BY <1>5 DEF Initialized, MakeLimits, Goes
  <2>2. job' = [job EXCEPT ![p] = job[p]] /\ HasKey(p)
    BY <1>0, <2>1 DEF CallersOK
  <2> QED BY <1>0, <2>1, <2>2, CallerMoves DEF HasKey, Place
<1>6. ASSUME NEW p \in Caller, Admit(p) PROVE CallersOK'
  <2> DEFINE j == [key |-> job[p].key, at |-> now, era |-> era, token |-> taken + 1]
  <2>1. CASE Allows(bucket) /\ ~Suppressed(job[p].key)
    <3>1. pc' = [pc EXCEPT ![p] = "routing"] /\ job' = [job EXCEPT ![p] = j] /\ admitted' = admitted
      BY <1>6, <2>1 DEF Admit
    <3>2. j \in Ticket
      <4>1. PICK k \in Key : job[p] = [NoJob EXCEPT !.key = k]
        BY <1>6 DEF Admit, CallersOK, HasKey
      <4>2. job[p].key \in Key
        BY <4>1 DEF NoJob
      <4> QED BY <4>2 DEF Ticket, LimitsOK
    <3> HIDE DEF j
    <3> QED BY <1>0, <3>1, <3>2, CallerMoves DEF Place
  <2>2. CASE ~(Allows(bucket) /\ ~Suppressed(job[p].key))
    BY <1>0, <1>2, <1>6, <2>2 DEF Admit
  <2> QED BY <2>1, <2>2
<1>7. ASSUME NEW p \in Caller, RoutesFail(p) \/ InitializeFails(p) \/ RouteFails(p) PROVE CallersOK'
  BY <1>0, <1>2, <1>7 DEF RoutesFail, MakeLimits, InitializeFails, RouteFails
<1>8. ASSUME NEW p \in Caller, Route(p) PROVE CallersOK'
  <2>1. CASE Goes(p, "routing", "queueing") /\ UNCHANGED job
    <3>1. pc[p] = "routing" /\ pc' = [pc EXCEPT ![p] = "queueing"] /\ UNCHANGED <<job, admitted>>
      BY <1>8, <2>1 DEF Goes, Route
    <3>2. job' = [job EXCEPT ![p] = job[p]] /\ job[p] \in Ticket
      BY <1>0, <3>1 DEF CallersOK
    <3> QED BY <1>0, <3>1, <3>2, CallerMoves DEF Place
  <2>2. CASE Done(p, "routing")
    BY <1>0, <1>2, <1>8, <2>2 DEF Route
  <2> QED BY <1>8, <2>1, <2>2 DEF Route
<1>9. ASSUME NEW p \in Caller, Enqueue(p) PROVE CallersOK'
  <2>1. job[p] \in Ticket
    BY <1>9 DEF Enqueue, Done, Goes, CallersOK
  <2>2. Done(p, "queueing") /\ admitted' \subseteq Ticket
    BY <1>0, <1>9, <2>1 DEF Enqueue
  <2> QED BY <1>2, <2>2
<1> QED BY <1>3, <1>4, <1>5, <1>6, <1>7, <1>8, <1>9 DEF Next

\* Buckets hold between none and all of their tokens, whoever calls, and no
\* clock in them runs ahead.
THEOREM FrontEndTypes == Spec => []TypeOK
<1>1. FrontEndInv /\ [Next]_vars => FrontEndInv'
  BY NextLimits, NextCallers DEF FrontEndInv
<1>2. FrontEndInv => TypeOK
  BY DEF FrontEndInv, LimitsOK, CallersOK, SeenOK, Bucket, Place, TypeOK
<1> QED BY <1>1, <1>2, InitFrontEnd, PTL DEF Spec
-----------------------------------------------------------------------------
(* The rate                                                                *)

Refills(from, to) == ((to - from) * Rate) \div Minute

LEMMA RefillsNat ==
  ASSUME NEW a \in Nat, NEW b \in Nat, a <= b
  PROVE  Refills(a, b) \in Nat
<1>1. (b - a) * Rate \in Nat /\ Minute \in Nat \ {0}
  BY FrontEndAssumption
<1> QED BY <1>1, WholePart DEF Refills

\* Tokens taken and tokens left are those at first and those refilled.
RateInv == taken + bucket.tokens <= Max + Refills(born, bucket.refill)

LEMMA InitRate == Init => RateInv
<1>1. Refills(0, 0) \in Nat
  BY RefillsNat
<1>2. Max \in Nat
  BY FrontEndAssumption
<1> QED BY <1>1, <1>2 DEF Init, RateInv, Fresh

LEMMA NextRate ==
  ASSUME LimitsOK, RateInv, [Next]_vars
  PROVE  RateInv'
<1>0. /\ bucket \in Bucket /\ bucket.tokens \in Nat /\ bucket.refill \in Nat /\ now \in Nat
      /\ now \in 0..MaxTime /\ born \in Nat /\ taken \in Nat /\ Max \in Nat
      /\ born <= bucket.refill /\ bucket.refill <= now
  BY FrontEndAssumption DEF LimitsOK, Bucket
<1>1. CASE UNCHANGED <<taken, bucket, born>>
  BY <1>1 DEF RateInv
<1>2. ASSUME NEW p \in Caller, Initialized(p) \/ RoutesFail(p) PROVE RateInv'
  <2>1. taken' = 0 /\ bucket' = Fresh(now) /\ born' = now
    BY <1>2 DEF Initialized, RoutesFail, MakeLimits
  <2>2. Refills(now, now) \in Nat
    BY <1>0, RefillsNat
  <2> QED BY <1>0, <2>1, <2>2 DEF RateInv, Fresh
<1>3. ASSUME NEW p \in Caller, Admit(p) PROVE RateInv'
  <2> DEFINE r == Refilled(bucket)
             b == Allowed(bucket)
             old == Refills(born, bucket.refill)
             add == Refills(bucket.refill, now)
  <2>1. /\ bucket' = b /\ born' = born
        /\ taken' = IF Allows(bucket) THEN taken + 1 ELSE taken
    BY <1>3 DEF Admit
  <2>2. /\ r \in Bucket
        /\ r = bucket \/ (r.refill = now /\ r.tokens <= bucket.tokens + add)
    BY <1>0, RefilledBucket DEF Refills
  <2>3. /\ b.refill = r.refill
        /\ b.tokens = IF Allows(bucket) THEN r.tokens - 1 ELSE r.tokens
    BY <1>0, AllowedBucket
  <2>4. old \in Nat /\ add \in Nat /\ Refills(born, now) \in Nat /\ old + add <= Refills(born, now)
    <3>1. old \in Nat /\ add \in Nat /\ old + add <= Refills(born, now)
      BY <1>0, SpanTokens DEF Refills
    <3>2. Refills(born, now) \in Nat
      BY <1>0, SpanTokens DEF Refills
    <3> QED BY <3>1, <3>2
  <2>5. taken + bucket.tokens <= Max + old
    BY DEF RateInv
  <2>6. taken' + bucket'.tokens = taken + r.tokens /\ bucket'.refill = r.refill
    BY <1>0, <2>1, <2>2, <2>3 DEF Bucket
  <2>7. r.tokens \in Nat
    BY <2>2, FrontEndAssumption DEF Bucket
  <2> HIDE DEF r, b, old, add
  <2>8. CASE r = bucket
    <3>1. taken' + bucket'.tokens <= Max + old
      BY <2>5, <2>6, <2>8
    <3>2. Refills(born', bucket'.refill) = old
      BY <2>1, <2>6, <2>8 DEF old
    <3> QED BY <3>1, <3>2 DEF RateInv
  <2>9. CASE r.refill = now /\ r.tokens <= bucket.tokens + add
    <3>1. taken' + bucket'.tokens <= Max + Refills(born, now)
      BY <1>0, <2>4, <2>5, <2>6, <2>7, <2>9
    <3>2. Refills(born', bucket'.refill) = Refills(born, now)
      BY <2>1, <2>6, <2>9
    <3> QED BY <3>1, <3>2 DEF RateInv
  <2> QED BY <2>2, <2>8, <2>9
<1>4. ASSUME NEW p \in Caller,
             \/ \E k \in Key : Notify(p, k)
             \/ InitializeFails(p) \/ RouteFails(p) \/ Route(p) \/ Enqueue(p)
      PROVE  RateInv'
  BY <1>1, <1>4 DEF Notify, InitializeFails, RouteFails, Route, Enqueue
<1>5. CASE Tick \/ Cleanup \/ UNCHANGED vars
  BY <1>1, <1>5 DEF Tick, Cleanup, vars
<1> QED BY <1>2, <1>3, <1>4, <1>5 DEF Next

\* The bucket lets no more notifications by than it held and was refilled
\* with: rounding down at each refill gains none over rounding once.
THEOREM RateIsBounded == Spec => []RateBounded
<1>1. FrontEndInv /\ RateInv /\ [Next]_vars => FrontEndInv' /\ RateInv'
  BY NextLimits, NextCallers, NextRate DEF FrontEndInv
<1>2. ASSUME FrontEndInv, RateInv PROVE RateBounded
  <2>0. /\ bucket.tokens \in Nat /\ bucket.refill \in Nat /\ now \in Nat
        /\ born \in Nat /\ taken \in Nat /\ Max \in Nat
        /\ born <= bucket.refill /\ bucket.refill <= now
    BY <1>2, FrontEndAssumption DEF FrontEndInv, LimitsOK, Bucket
  <2>1. /\ Refills(born, bucket.refill) \in Nat /\ Refills(bucket.refill, now) \in Nat
        /\ Refills(born, bucket.refill) + Refills(bucket.refill, now) <= Refills(born, now)
    BY <2>0, SpanTokens DEF Refills
  <2>2. Refills(born, now) \in Nat
    BY <2>0, SpanTokens DEF Refills
  <2>3. taken <= Max + Refills(born, now)
    BY <1>2, <2>0, <2>1, <2>2 DEF RateInv
  <2> QED BY <2>3 DEF RateBounded, Refills
<1> QED BY <1>1, <1>2, InitFrontEnd, InitRate, PTL DEF Spec
-----------------------------------------------------------------------------
(* The window                                                              *)

\* Notifications that are queued, or on their way there.
Jobs == admitted \union {job[p] : p \in {q \in Caller : pc[q] \in {"routing", "queueing"}}}

Past == \A x \in Jobs : x.at <= now /\ x.era <= era

\* What the debouncer in use has let by is marked, or a window old.
Recent ==
  \A x \in Jobs : x.era = era => seen[x.key] >= x.at \/ now >= x.at + Window

Apart(x, y) ==
  x # y /\ x.key = y.key /\ x.era = y.era => x.at >= y.at + Window \/ y.at >= x.at + Window

WindowInv == Past /\ Recent /\ \A x, y \in Jobs : Apart(x, y)

LEMMA JobsAreTickets ==
  ASSUME CallersOK
  PROVE  Jobs \subseteq Ticket
BY DEF CallersOK, Jobs

\* One caller moves.
LEMMA JobsMove ==
  ASSUME CallersOK, NEW p \in Caller, NEW to, NEW j,
         pc' = [pc EXCEPT ![p] = to], job' = [job EXCEPT ![p] = j], admitted' \subseteq Jobs
  PROVE  Jobs' \subseteq Jobs \union (IF to \in {"routing", "queueing"} THEN {j} ELSE {})
<1>1. pc \in [Caller -> Place] /\ job = [q \in Caller |-> job[q]]
  BY DEF CallersOK
<1>2. ASSUME NEW q \in Caller, pc'[q] \in {"routing", "queueing"}
      PROVE  job'[q] \in Jobs \union (IF to \in {"routing", "queueing"} THEN {j} ELSE {})
  <2>1. CASE q = p
    BY <1>1, <1>2, <2>1
  <2>2. CASE q # p
    <3>1. pc[q] = pc'[q] /\ job[q] = job'[q]
      BY <1>1, <2>2
    <3> QED BY <1>2, <3>1 DEF Jobs
  <2> QED BY <2>1, <2>2
<1> QED BY <1>2 DEF Jobs

\* Time passes, and old entries are removed.
LEMMA WindowKept ==
  ASSUME LimitsOK, CallersOK, WindowInv, Jobs' \subseteq Jobs, era' = era, now' \in Nat, now' >= now,
         \A k \in Key : seen'[k] = seen[k] \/ seen[k] < now - Window
  PROVE  WindowInv'
<1>0. now \in Nat /\ Window \in Nat /\ era \in Nat
  BY FrontEndAssumption DEF LimitsOK
<1>1. \A x \in Jobs' : x \in Ticket /\ x \in Jobs /\ x.at \in Nat /\ x.era \in Nat /\ x.key \in Key
  BY JobsAreTickets DEF Ticket
<1>2. \A k \in Key : seen[k] \in Int
  BY DEF LimitsOK, SeenOK, Never
<1>3. Past'
  BY <1>0, <1>1 DEF WindowInv, Past
<1>4. Recent'
  <2> SUFFICES ASSUME NEW x \in Jobs', x.era = era, ~(now' >= x.at + Window)
               PROVE  seen'[x.key] >= x.at
    BY DEF Recent
  <2>1. ~(now >= x.at + Window)
    BY <1>0, <1>1
  <2>2. seen[x.key] >= x.at
    BY <1>1, <2>1 DEF WindowInv, Recent
  <2>3. ~(seen[x.key] < now - Window)
    BY <1>0, <1>1, <1>2, <2>1, <2>2
  <2> QED BY <1>1, <2>2, <2>3
<1>5. \A x, y \in Jobs' : Apart(x, y)
  BY <1>1 DEF WindowInv
<1> QED BY <1>3, <1>4, <1>5 DEF WindowInv, Apart

LEMMA InitWindow == Init => WindowInv
<1> SUFFICES ASSUME Init PROVE WindowInv
  OBVIOUS
<1>1. Jobs = {}
  BY DEF Init, Jobs
<1> QED BY <1>1 DEF WindowInv, Past, Recent

\* The debouncer lets a notification by: what it let by before is a window old.
LEMMA AdmitWindow ==
  ASSUME LimitsOK, CallersOK, WindowInv, NEW p \in Caller, Admit(p),
         Allows(bucket), ~Suppressed(job[p].key)
  PROVE  WindowInv'
<1> DEFINE k == job[p].key
           j == [key |-> k, at |-> now, era |-> era, token |-> taken + 1]
<1>0. now \in Nat /\ Window \in Nat /\ era \in Nat
  BY FrontEndAssumption DEF LimitsOK
<1>1. /\ pc' = [pc EXCEPT ![p] = "routing"] /\ job' = [job EXCEPT ![p] = j]
      /\ seen' = Marked(k) /\ UNCHANGED <<now, era, admitted>>
  BY DEF Admit
<1>2. Jobs' \subseteq Jobs \union {j}
  <2>1. admitted' \subseteq Jobs
    BY <1>1 DEF Jobs
  <2> HIDE DEF j
  <2> QED BY <1>1, <2>1, JobsMove
<1>3. k \in Key
  <2>1. PICK key \in Key : job[p] = [NoJob EXCEPT !.key = key]
    BY DEF Admit, CallersOK, HasKey
  <2> QED BY <2>1 DEF NoJob
<1>4. \A x \in Jobs : /\ x.at \in Nat /\ x.era \in Nat /\ x.key \in Key
                      /\ x.at <= now /\ x.era <= era
                      /\ x.era = era => seen[x.key] >= x.at \/ now >= x.at + Window
  BY JobsAreTickets DEF Ticket, WindowInv, Past, Recent
<1>5. seen \in [Key -> 0..MaxTime \union {Never}] /\ \A i \in Key : seen[i] \in Int
  BY DEF LimitsOK, SeenOK, Never
<1>6. seen[k] = Never \/ now - seen[k] >= Window
  BY <1>0, <1>3, <1>5 DEF Suppressed
<1>7. \A x \in Jobs : x.key = k /\ x.era = era => now >= x.at + Window
  BY <1>0, <1>3, <1>4, <1>5, <1>6 DEF Never
<1>8. j.key = k /\ j.at = now /\ j.era = era
  OBVIOUS
<1>m. \A i \in Key : IF i = k THEN Marked(k)[i] = now
                     ELSE Marked(k)[i] = seen[i] \/ seen[i] < now - Window
  <2> DEFINE s == [seen EXCEPT ![k] = now]
  <2>1. /\ \A i \in Key : s[i] = IF i = k THEN now ELSE seen[i]
        /\ Marked(k) = s \/ Marked(k) = [i \in Key |-> IF s[i] < now - Window THEN Never ELSE s[i]]
    BY <1>3, <1>5 DEF Marked, Cleaned
  <2>2. ~(now < now - Window)
    BY <1>0
  <2> HIDE DEF s
  <2> QED BY <2>1, <2>2
<1> HIDE DEF j, k
<1>10. Past'
  BY <1>0, <1>1, <1>2, <1>4, <1>8 DEF Past
<1>11. Recent'
  <2> SUFFICES ASSUME NEW x \in Jobs', x.era = era, ~(now >= x.at + Window)
               PROVE  Marked(k)[x.key] >= x.at
    BY <1>1 DEF Recent
  <2>1. CASE x = j
    BY <1>0, <1>3, <1>8, <1>m, <2>1
  <2>2. CASE x \in Jobs
    <3>1. x.key # k
      BY <1>7, <2>2
    <3>2. seen[x.key] >= x.at
      BY <1>4, <2>2
    <3>3. ~(seen[x.key] < now - Window)
      BY <1>0, <1>4, <1>5, <2>2, <3>2
    <3> QED BY <1>4, <1>m, <2>2, <3>1, <3>2, <3>3
  <2> QED BY <1>2, <2>1, <2>2
<1>12. \A x, y \in Jobs' : Apart(x, y)
  <2> SUFFICES ASSUME NEW x \in Jobs', NEW y \in Jobs' PROVE Apart(x, y)
    OBVIOUS
  <2>1. CASE x \in Jobs /\ y \in Jobs
    BY <2>1 DEF WindowInv
  <2>2. CASE x = j /\ y \in Jobs
    BY <1>7, <1>8, <2>2 DEF Apart
  <2>3. CASE x \in Jobs /\ y = j
    BY <1>7, <1>8, <2>3 DEF Apart
  <2>4. CASE x = j /\ y = j
    BY <2>4 DEF Apart
  <2> QED BY <1>2, <2>1, <2>2, <2>3, <2>4
<1> QED BY <1>10, <1>11, <1>12 DEF WindowInv, Apart

LEMMA NextWindow ==
  ASSUME LimitsOK, CallersOK, WindowInv, [Next]_vars
  PROVE  WindowInv'
<1>0. now \in Nat /\ era \in Nat /\ admitted \subseteq Jobs
      /\ pc \in [Caller -> Place] /\ job = [q \in Caller |-> job[q]]
  BY FrontEndAssumption DEF LimitsOK, CallersOK, Jobs
<1>1. ASSUME UNCHANGED <<now, era, seen>>, Jobs' \subseteq Jobs PROVE WindowInv'
  BY <1>0, <1>1, WindowKept
<1>2. ASSUME NEW p \in Caller, NEW from, Done(p, from), admitted' \subseteq Jobs
      PROVE  Jobs' \subseteq Jobs
  BY <1>2, JobsMove DEF Done, Goes
<1>3. CASE Tick \/ Cleanup \/ UNCHANGED vars
  <2>1. Jobs' = Jobs
    BY <1>3 DEF Tick, Cleanup, vars, Jobs, callerVars
  <2>2. CASE Tick
    BY <1>0, <2>1, <2>2, WindowKept DEF Tick
  <2>3. CASE Cleanup
    <3>1. \A k \in Key : seen'[k] = seen[k] \/ seen[k] < now - Window
      BY <2>3 DEF Cleanup, Cleaned
    <3> QED BY <1>0, <2>1, <2>3, <3>1, WindowKept DEF Cleanup
  <2>4. CASE UNCHANGED vars
    BY <1>1, <2>1, <2>4 DEF vars
  <2> QED BY <1>3, <2>2, <2>3, <2>4
<1>4. ASSUME NEW p \in Caller, NEW k \in Key, Notify(p, k) PROVE WindowInv'
  <2> DEFINE to == IF ready THEN "admitting" ELSE "initializing"
             j == [job[p] EXCEPT !.key = k]
  <2>1. pc' = [pc EXCEPT ![p] = to] /\ job' = [job EXCEPT ![p] = j] /\ admitted' \subseteq Jobs
    BY <1>0, <1>4 DEF Notify, Goes
  <2>2. to \notin {"routing", "queueing"}
    OBVIOUS
  <2> HIDE DEF to, j
  <2>3. Jobs' \subseteq Jobs
    BY <2>1, <2>2, JobsMove
  <2> QED BY <1>1, <1>4, <2>3 DEF Notify
<1>5. ASSUME NEW p \in Caller, Initialized(p) \/ RoutesFail(p) PROVE WindowInv'
  <2>1. admitted' \subseteq Jobs /\ era' = era + 1 /\ now' = now
    BY <1>0, <1>5 DEF Initialized, RoutesFail, MakeLimits
  <2>2. Jobs' \subseteq Jobs
    <3>1. CASE Initialized(p)
      <4>1. pc' = [pc EXCEPT ![p] = "admitting"] /\ job' = [job EXCEPT ![p] = job[p]]
        BY <1>0, <3>1 DEF Initialized, Goes
      <4> QED BY <2>1, <4>1, JobsMove
    <3>2. CASE RoutesFail(p)
      BY <1>2, <2>1, <3>2 DEF RoutesFail
    <3> QED BY <1>5, <3>1, <3>2
  <2>3. \A x \in Jobs : x.era \in Nat /\ x.era <= era /\ x.at <= now
    BY JobsAreTickets DEF Ticket, WindowInv, Past
  <2>4. Past' /\ Recent'
    BY <1>0, <2>1, <2>2, <2>3 DEF Past, Recent
  <2>5. \A x, y \in Jobs' : Apart(x, y)
    BY <2>2 DEF WindowInv
  <2> QED BY <2>4, <2>5 DEF WindowInv, Apart
<1>6. ASSUME NEW p \in Caller, Admit(p) PROVE WindowInv'
  <2>1. CASE Allows(bucket) /\ ~Suppressed(job[p].key)
    BY <1>6, <2>1, AdmitWindow
  <2>2. CASE ~(Allows(bucket) /\ ~Suppressed(job[p].key))
    BY <1>0, <1>1, <1>2, <1>6, <2>2 DEF Admit
  <2> QED BY <2>1, <2>2
<1>7. ASSUME NEW p \in Caller, InitializeFails(p) \/ RouteFails(p) PROVE WindowInv'
  BY <1>0, <1>1, <1>2, <1>7 DEF InitializeFails, RouteFails
<1>8. ASSUME NEW p \in Caller, Route(p) PROVE WindowInv'
  <2>1. CASE Goes(p, "routing", "queueing") /\ UNCHANGED job
    <3>1. /\ pc[p] = "routing" /\ pc' = [pc EXCEPT ![p] = "queueing"]
          /\ job' = [job EXCEPT ![p] = job[p]] /\ admitted' \subseteq Jobs
      BY <1>0, <1>8, <2>1 DEF Goes, Route
    <3>2. Jobs' \subseteq Jobs \union {job[p]} /\ job[p] \in Jobs
      <4>1. Jobs' \subseteq Jobs \union {job[p]}
        BY <3>1, JobsMove
      <4> QED BY <3>1, <4>1 DEF Jobs
    <3> QED BY <1>1, <1>8, <3>2 DEF Route
  <2>2. CASE Done(p, "routing")
    BY <1>0, <1>1, <1>2, <1>8, <2>2 DEF Route
  <2> QED BY <1>8, <2>1, <2>2 DEF Route
<1>9. ASSUME NEW p \in Caller, Enqueue(p) PROVE WindowInv'
  <2>1. job[p] \in Jobs
    BY <1>9 DEF Enqueue, Done, Goes, Jobs
  <2>2. Done(p, "queueing") /\ admitted' \subseteq Jobs
    BY <1>0, <1>9, <2>1 DEF Enqueue
  <2> QED BY <1>1, <1>2, <1>9, <2>2 DEF Enqueue
<1> QED BY <1>3, <1>4, <1>5, <1>6, <1>7, <1>8, <1>9 DEF Next

\* Of two queued notifications with one message and level one was admitted a
\* window after the other, whatever callers overlap, time passes between their
\* steps, and entries the debouncer drops, unless it was itself replaced.
THEOREM OneInAWindow == Spec => []OncePerWindow
<1>1. FrontEndInv /\ WindowInv /\ [Next]_vars => FrontEndInv' /\ WindowInv'
  BY NextLimits, NextCallers, NextWindow DEF FrontEndInv
<1>2. WindowInv => OncePerWindow
  BY DEF WindowInv, Apart, Jobs, OncePerWindow
<1> QED BY <1>1, <1>2, InitFrontEnd, InitWindow, PTL DEF Spec
=============================================================================
