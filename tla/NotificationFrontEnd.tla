------------------------- MODULE NotificationFrontEnd -------------------------
(***************************************************************************)
(* backend/services/safe_notification_manager.py with                      *)
(* notification_rate_limiting.py: what a caller of notify goes through     *)
(* before its notification is queued, a token bucket, a debouncer, routing *)
(* and a token bucket per channel, and the first initialization, which     *)
(* several callers may be in at once.  Time is in ticks.                   *)
(***************************************************************************)
EXTENDS Integers, FiniteSets

CONSTANTS
  Caller,     \* tasks that call notify
  Key,        \* level and hash of a message: the suppression key
  Channel,
  Max,        \* rate_limit_max_tokens, and max_tokens of a channel
  Rate,       \* tokens per Minute
  Minute,     \* ticks in a minute
  Window,     \* suppress_window
  MaxTracked, \* max_tracked_items
  MaxEra,     \* bound: limits made anew by initializations that then fail
  MaxTime     \* bound: of the clock

ASSUME FrontEndAssumption ==
  /\ Max \in Nat \ {0} /\ Rate \in Nat \ {0} /\ Minute \in Nat \ {0}
  /\ Window \in Nat /\ MaxTracked \in Nat
  /\ MaxEra \in Nat /\ MaxTime \in Nat

Never == -1

VARIABLES
  now,
  ready,    \* _initialized
  era,      \* which limiters and debouncer these are: how often they have been made
  bucket,   \* rate_limiter
  channels, \* channel_rate_limiter, with a bucket for each channel
  seen,     \* suppressed_notifications; Never: no entry
  pc,       \* of a caller: "idle", "initializing", "admitting", "routing", "queueing"
  job,      \* its notification: the key, when it was admitted and by which token
  taken,    \* tokens taken from the bucket, for the properties
  born,     \* when the bucket was made, likewise
  admitted  \* notifications queued, likewise

callerVars == <<pc, job>>
vars == <<now, ready, era, bucket, channels, seen, callerVars, taken, born, admitted>>

NoJob == [key |-> Never, at |-> Never, era |-> Never, token |-> Never]
Fresh(t) == [tokens |-> Max, refill |-> t]

Init ==
  /\ now = 0 /\ ready = FALSE /\ era = 0
  /\ bucket = Fresh(0) /\ channels = [c \in Channel |-> Fresh(0)]
  /\ seen = [k \in Key |-> Never]
  /\ pc = [p \in Caller |-> "idle"] /\ job = [p \in Caller |-> NoJob]
  /\ taken = 0 /\ born = 0 /\ admitted = {}
-----------------------------------------------------------------------------
(* Rate limiting                                                           *)

Lower(a, b) == IF a < b THEN a ELSE b

\* Mutant: the time of the refill is not kept.
Refilled_NoTime(b) ==
  LET add == ((now - b.refill) * Rate) \div Minute IN
  IF add >= 1 THEN [b EXCEPT !.tokens = Lower(Max, b.tokens + add)] ELSE b

\* _refill_tokens: whole tokens only, and the time of the last refill moves
\* when one was added.
Refilled(b) ==
  LET add == ((now - b.refill) * Rate) \div Minute IN
  IF add >= 1 THEN [tokens |-> Lower(Max, b.tokens + add), refill |-> now] ELSE b

Allows(b) == Refilled(b).tokens >= 1
Less(b) == [b EXCEPT !.tokens = @ - 1]

\* TokenBucketRateLimiter.allow.
Allowed(b) == IF Allows(b) THEN Less(Refilled(b)) ELSE Refilled(b)
-----------------------------------------------------------------------------
(* Debouncing                                                              *)

Suppressed(k) == seen[k] # Never /\ now - seen[k] < Window

Tracked(s) == {k \in Key : s[k] # Never}

\* _cleanup_old_entries.
Cleaned(s) == [k \in Key |-> IF s[k] < now - Window THEN Never ELSE s[k]]

\* Mutant: too many entries make room by dropping all the others.
Marked_Bounded(k) ==
  LET s == [seen EXCEPT ![k] = now] IN
  IF Cardinality(Tracked(s)) > MaxTracked
  THEN [j \in Key |-> IF j = k THEN now ELSE Never] ELSE s

\* The rest of NotificationDebouncer.allow.
Marked(k) ==
  LET s == [seen EXCEPT ![k] = now] IN
  IF Cardinality(Tracked(s)) > MaxTracked THEN Cleaned(s) ELSE s

\* _cleanup_loop of the debouncer last made.
Cleanup ==
  /\ era > 0
  /\ seen' = Cleaned(seen)
  /\ UNCHANGED <<now, ready, era, bucket, channels, callerVars, taken, born, admitted>>
-----------------------------------------------------------------------------
(* notify                                                                  *)

Goes(p, from, to) == pc[p] = from /\ pc' = [pc EXCEPT ![p] = to]
Done(p, from) == Goes(p, from, "idle") /\ job' = [job EXCEPT ![p] = NoJob]

\* A call of notify, or of initialize when the feature starts.
Notify(p, k) ==
  /\ Goes(p, "idle", IF ready THEN "admitting" ELSE "initializing")
  /\ job' = [job EXCEPT ![p].key = k]
  /\ UNCHANGED <<now, ready, era, bucket, channels, seen, taken, born, admitted>>

\* initialize once the queue is: limiters and debouncer are made anew, also
\* when another caller made some in the meantime.
MakeLimits ==
  /\ era' = era + 1
  /\ bucket' = Fresh(now) /\ channels' = [c \in Channel |-> Fresh(now)]
  /\ seen' = [k \in Key |-> Never]
  /\ taken' = 0 /\ born' = now
  /\ UNCHANGED <<now, admitted>>

\* The templates and the router follow.
Initialized(p) ==
  /\ Goes(p, "initializing", "admitting")
  /\ MakeLimits
  /\ ready' = TRUE /\ UNCHANGED job

\* They raise: the new limits stay, and so does _initialized.
RoutesFail(p) ==
  /\ era < MaxEra
  /\ Done(p, "initializing") /\ MakeLimits /\ UNCHANGED ready

\* The queue raises.
InitializeFails(p) ==
  /\ Done(p, "initializing")
  /\ UNCHANGED <<now, ready, era, bucket, channels, seen, taken, born, admitted>>

\* The two checks, with no await that yields between: a token is taken before
\* the debouncer is asked.
Admit(p) ==
  LET k == job[p].key IN
  /\ pc[p] = "admitting"
  /\ bucket' = Allowed(bucket)
  /\ taken' = IF Allows(bucket) THEN taken + 1 ELSE taken
  /\ IF Allows(bucket) /\ ~Suppressed(k)
     THEN /\ pc' = [pc EXCEPT ![p] = "routing"]
          /\ job' = [job EXCEPT ![p] = [key |-> k, at |-> now, era |-> era, token |-> taken + 1]]
          /\ seen' = Marked(k)
     ELSE Done(p, "admitting") /\ UNCHANGED seen
  /\ UNCHANGED <<now, ready, era, channels, born, admitted>>

\* Sanitizing the context or routing fails.
RouteFails(p) ==
  /\ Done(p, "routing")
  /\ UNCHANGED <<now, ready, era, bucket, channels, seen, taken, born, admitted>>

\* The router has chosen the channels: those with a token left are kept.
Route(p) ==
  /\ pc[p] = "routing"
  /\ \E targets \in SUBSET Channel :
       /\ channels' = [c \in Channel |->
                         IF c \in targets THEN Allowed(channels[c]) ELSE channels[c]]
       /\ IF \E c \in targets : Allows(channels[c])
          THEN Goes(p, "routing", "queueing") /\ UNCHANGED job
          ELSE Done(p, "routing")
  /\ UNCHANGED <<now, ready, era, bucket, seen, taken, born, admitted>>

\* queue.enqueue returns, or raises.
Enqueue(p) ==
  /\ Done(p, "queueing")
  /\ admitted' \in {admitted, admitted \union {job[p]}}
  /\ UNCHANGED <<now, ready, era, bucket, channels, seen, taken, born>>

Tick ==
  /\ now < MaxTime
  /\ now' = now + 1
  /\ UNCHANGED <<ready, era, bucket, channels, seen, callerVars, taken, born, admitted>>
-----------------------------------------------------------------------------
Next ==
  \/ Tick \/ Cleanup
  \/ \E p \in Caller :
       \/ \E k \in Key : Notify(p, k)
       \/ Initialized(p) \/ RoutesFail(p) \/ InitializeFails(p) \/ Admit(p)
       \/ RouteFails(p) \/ Route(p) \/ Enqueue(p)

Spec == Init /\ [][Next]_vars
-----------------------------------------------------------------------------
(* Properties                                                              *)

\* The variables hold the values the code gives them.
TypeOK ==
  /\ now \in 0..MaxTime /\ ready \in BOOLEAN /\ era \in Nat
  /\ bucket \in [tokens : 0..Max, refill : 0..MaxTime]
  /\ channels \in [Channel -> [tokens : 0..Max, refill : 0..MaxTime]]
  /\ seen \in [Key -> 0..MaxTime \union {Never}]
  /\ pc \in [Caller -> {"idle", "initializing", "admitting", "routing", "queueing"}]
  /\ taken \in Nat /\ born \in 0..MaxTime

\* Of two queued notifications with the same message and level one was
\* admitted a window or more after the other, in whatever order they were
\* queued, as long as no second initialization came between them.
OncePerWindow ==
  \A x, y \in admitted :
    x # y /\ x.key = y.key /\ x.era = y.era
      => x.at >= y.at + Window \/ y.at >= x.at + Window

\* No more notifications get past the bucket than it held at first and has
\* been refilled with since: rounding the refills never gains a token.
RateBounded == taken <= Max + ((now - born) * Rate) \div Minute
=============================================================================
