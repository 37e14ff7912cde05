------------------------ MODULE FeatureManagerProofs ------------------------
(***************************************************************************)
(* Theorems about FeatureManager for every list of features, dependency    *)
(* graph, hash seed and number of callers.                                 *)
(***************************************************************************)
EXTENDS FeatureHistory, SequenceTheorems, TLAPS

\* Whatever a feature is assigned, and whichever member of a transition set
\* comes first, the setter moves it along VALID_TRANSITIONS or not at all.
THEOREM SetterObeysTable ==
  ASSUME NEW class, NEW from \in FeatureState, NEW to \in FeatureState
  PROVE  Assigned(class, from, to) \in ValidTransitions(from) \union {from}
<1> DEFINE safe == SafeTransition(class, from, to)
<1>1. CASE TransitionAllowed(class, from, to)
  BY <1>1 DEF Assigned, TransitionAllowed
<1>2. CASE ~TransitionAllowed(class, from, to)
  <2>1. safe \in ValidTransitions(from)
    BY <1>2, FirstListedAssumption DEF SafeTransition, FeatureState, ValidTransitions
  <2> QED BY <1>2, <2>1 DEF Assigned
<1> QED BY <1>1, <1>2

\* The setter gives a feature a state of the machine.
LEMMA AssignedIsState ==
  ASSUME NEW class, NEW from \in FeatureState, NEW to \in FeatureState
  PROVE  Assigned(class, from, to) \in FeatureState
BY SetterObeysTable DEF FeatureState, ValidTransitions

\* The setter never takes an operating position-critical feature to FAILED.
LEMMA PositionAssigned ==
  ASSUME NEW from \in {"healthy", "degraded"}, NEW to \in FeatureState
  PROVE  Assigned("position_critical", from, to) # "failed"
BY DEF Assigned, SafeTransition, TransitionAllowed, ValidTransitions, FeatureState


\* Assigning through the setter keeps the type of `state`.
LEMMA AssignType ==
  ASSUME TypeOK, NEW F, NEW to \in FeatureState
  PROVE  Assign(F, to) \in [Feature -> FeatureState]
BY AssignedIsState DEF Assign, TypeOK

\* What Suspend and Return store is a call.
LEMMA SuspendType ==
  ASSUME TypeOK, NEW c \in Caller, NEW pc, NEW f, NEW n,
         [pc |-> pc, f |-> f, attempt |-> n] \in Call, Suspend(c, pc, f, n)
  PROVE  call' \in [Caller -> Call \union {Idle}]
BY DEF Suspend, TypeOK

\* A returned call is idle.
LEMMA ReturnType ==
  ASSUME TypeOK, NEW c \in Caller, Return(c)
  PROVE  call' \in [Caller -> Call \union {Idle}]
BY DEF Return, TypeOK

\* A suspended call works on a feature, at an attempt within the bound, which
\* leaves room for one more when it backs off.
LEMMA ResumedCall ==
  ASSUME TypeOK, NEW c \in Caller, NEW pc, Resumes(c, pc)
  PROVE  /\ call[c].f \in Feature /\ call[c].attempt \in 0..MaxAttempts
         /\ pc = "backoff" => call[c].attempt + 1 \in 0..MaxAttempts
         /\ call[c].attempt # MaxAttempts => call[c].attempt \in 0..(MaxAttempts - 1)
<1>1. call[c] \in Call
  BY DEF Resumes, TypeOK
<1>2. MaxAttempts \in Nat
  BY ManagerAssumption
<1> QED BY <1>1, <1>2 DEF Resumes, Call, Waiting

\* Beginning an attempt keeps the types.
LEMMA BeginAttemptType ==
  ASSUME TypeOK, NEW c \in Caller, NEW f \in Feature, NEW n \in 0..MaxAttempts, BeginAttempt(c, f, n)
  PROVE  TypeOK'
<1> DEFINE reset == Assign({f}, "initializing")
<1>1. reset \in [Feature -> FeatureState]
  BY AssignType DEF FeatureState
<1>2. state' \in [Feature -> FeatureState]
  BY <1>1 DEF BeginAttempt, TypeOK, FeatureState
<1>3. failedDeps' \in [Feature -> SUBSET Feature]
  BY DEF BeginAttempt, TypeOK
<1>4. call' \in [Caller -> Call \union {Idle}]
  <2>1. /\ [pc |-> "restarting", f |-> f, attempt |-> n] \in Call
        /\ [pc |-> "settling", f |-> f, attempt |-> n] \in Call
    BY DEF Call, Waiting
  <2> QED BY <2>1, SuspendType DEF BeginAttempt
<1> QED BY <1>2, <1>3, <1>4 DEF BeginAttempt, TypeOK

\* The exception path of a toggle keeps the types.
LEMMA ToggleRaisesType ==
  ASSUME TypeOK, NEW c \in Caller, ToggleRaises(c)
  PROVE  TypeOK'
<1>1. state' \in [Feature -> FeatureState]
  BY AssignType DEF ToggleRaises, FeatureState
<1>2. call' \in [Caller -> Call \union {Idle}]
  BY ReturnType DEF ToggleRaises
<1> QED BY <1>1, <1>2 DEF ToggleRaises, TypeOK

\* Start-up and shutdown keep the types.
LEMMA LifespanType ==
  ASSUME TypeOK, Lifespan
  PROVE  TypeOK'
<1>1. CASE Started
  BY <1>1 DEF Started, TypeOK, featureVars
<1>2. CASE BeginShutdown
  BY <1>2 DEF BeginShutdown, TypeOK, featureVars
<1>3. ASSUME NEW f \in Feature, StartUp(f) PROVE TypeOK'
  <2>1. Assign({f}, "failed") \in [Feature -> FeatureState] /\ state[f] \in FeatureState
    BY AssignType DEF FeatureState, TypeOK
  <2>2. state' \in [Feature -> FeatureState]
    BY <1>3, <2>1 DEF StartUp, TypeOK, featureVars, FeatureState
  <2>3. tracked' \in [Feature -> FeatureState]
    BY <1>3, <2>1 DEF StartUp, TypeOK, featureVars, FeatureState
  <2>4. enabled' \in [Feature -> BOOLEAN]
    BY <1>3 DEF StartUp, TypeOK, featureVars
  <2>5. failedDeps' = failedDeps
    BY <1>3 DEF StartUp, featureVars
  <2> QED BY <1>3, <2>2, <2>3, <2>4, <2>5 DEF StartUp, TypeOK
<1>4. ASSUME NEW f \in Feature, ShutDown(f) PROVE TypeOK'
  BY <1>4 DEF ShutDown, TypeOK, FeatureState
<1> QED BY <1>1, <1>2, <1>3, <1>4 DEF Lifespan

\* Requests keep the types.
LEMMA RequestsType ==
  ASSUME TypeOK, NEW c \in Caller, Requests(c)
  PROVE  TypeOK'
<1>1. ASSUME NEW f \in Feature, Recover(c, f) PROVE TypeOK'
  <2>1. 1 \in 0..MaxAttempts
    BY ManagerAssumption
  <2> QED BY <1>1, <2>1, BeginAttemptType DEF Recover
<1>2. ASSUME NEW f \in Feature, NEW a \in BOOLEAN, Enable(c, f, a) PROVE TypeOK'
  <2>1. /\ [pc |-> "starting", f |-> f, attempt |-> 0] \in Call
        /\ [pc |-> "verifying", f |-> f, attempt |-> 0] \in Call
    BY ManagerAssumption DEF Call, Waiting
  <2>2. state' \in [Feature -> FeatureState]
    <3>1. Assign({f}, "initializing") \in [Feature -> FeatureState]
      BY AssignType DEF FeatureState
    <3> QED BY <1>2, <3>1 DEF Enable, TypeOK, FeatureState
  <2>3. call' \in [Caller -> Call \union {Idle}]
    BY <1>2, <2>1, SuspendType DEF Enable
  <2> QED BY <1>2, <2>2, <2>3 DEF Enable, TypeOK
<1>3. ASSUME NEW f \in Feature, NEW a \in BOOLEAN, Disable(c, f, a) PROVE TypeOK'
  <2>1. [pc |-> "stopping", f |-> f, attempt |-> 0] \in Call
    BY ManagerAssumption DEF Call, Waiting
  <2>2. state' \in [Feature -> FeatureState]
    <3>1. Assign({f}, "safe_shutdown") \in [Feature -> FeatureState]
      BY AssignType DEF FeatureState
    <3> QED BY <1>3, <3>1 DEF Disable, TypeOK, FeatureState
  <2>3. enabled' \in [Feature -> BOOLEAN]
    BY <1>3 DEF Disable, TypeOK
  <2>4. call' \in [Caller -> Call \union {Idle}]
    BY <1>3, <2>1, SuspendType DEF Disable, TypeOK
  <2>5. failedDeps' \in [Feature -> SUBSET Feature]
    BY <1>3 DEF Disable, Informed, TypeOK
  <2> QED BY <1>3, <2>2, <2>3, <2>4, <2>5 DEF Disable, TypeOK
<1> QED BY <1>1, <1>2, <1>3 DEF Requests

\* Resumed coroutines keep the types.
LEMMA ResumedType ==
  ASSUME TypeOK, NEW c \in Caller, Resumed(c)
  PROVE  TypeOK'
<1> DEFINE f == call[c].f
           n == call[c].attempt
<1>1. CASE StartReturns(c)
  <2>1. f \in Feature
    BY <1>1, ResumedCall DEF StartReturns
  <2>2. [pc |-> "verifying", f |-> f, attempt |-> 0] \in Call
    BY <2>1, ManagerAssumption DEF Call, Waiting
  <2>3. call' \in [Caller -> Call \union {Idle}]
    BY <1>1, <2>2, SuspendType DEF StartReturns
  <2> QED BY <1>1, <2>3 DEF StartReturns, TypeOK, featureVars
<1>2. CASE StartRaises(c) \/ VerifyFails(c) \/ StopRaises(c)
  BY <1>2, ToggleRaisesType DEF StartRaises, VerifyFails, StopRaises
<1>3. CASE Verified(c)
  BY <1>3, ReturnType DEF Verified, TypeOK, featureVars
<1>4. CASE StopReturns(c)
  <2>1. state' \in [Feature -> FeatureState]
    BY <1>4, AssignType DEF StopReturns, FeatureState
  <2>2. call' \in [Caller -> Call \union {Idle}]
    BY <1>4, ReturnType DEF StopReturns
  <2>3. enabled' \in [Feature -> BOOLEAN]
    BY <1>4 DEF StopReturns, TypeOK
  <2> QED BY <1>4, <2>1, <2>2, <2>3 DEF StopReturns, TypeOK
<1>5. CASE RestartReturns(c)
  <2>1. [pc |-> "settling", f |-> f, attempt |-> n] \in Call
    BY <1>5, ResumedCall DEF RestartReturns, Call, Waiting
  <2>2. call' \in [Caller -> Call \union {Idle}]
    BY <1>5, <2>1, SuspendType DEF RestartReturns
  <2> QED BY <1>5, <2>2 DEF RestartReturns, TypeOK, featureVars
<1>6. CASE AttemptRaises(c)
  <2>1. state' \in [Feature -> FeatureState]
    <3>1. Assign({f}, "failed") \in [Feature -> FeatureState]
      BY AssignType DEF FeatureState
    <3> QED BY <1>6, <3>1 DEF AttemptRaises, TypeOK
  <2>2. call' \in [Caller -> Call \union {Idle}]
    <3>1. CASE LastAttempt(c)
      BY <1>6, <3>1, ReturnType DEF AttemptRaises
    <3>2. CASE ~LastAttempt(c)
      <4>1. f \in Feature /\ n \in 0..(MaxAttempts - 1)
        BY <1>6, <3>2, ResumedCall DEF AttemptRaises, LastAttempt
      <4>2. [pc |-> "backoff", f |-> f, attempt |-> n] \in Call
        BY <4>1 DEF Call
      <4> QED BY <1>6, <3>2, <4>2, SuspendType DEF AttemptRaises
    <3> QED BY <3>1, <3>2
  <2> QED BY <1>6, <2>1, <2>2 DEF AttemptRaises, TypeOK
<1>7. CASE Settled(c)
  <2>1. call' \in [Caller -> Call \union {Idle}]
    BY <1>7, ReturnType DEF Settled
  <2>2. enabled' \in [Feature -> BOOLEAN]
    BY <1>7 DEF Settled, TypeOK
  <2> QED BY <1>7, <2>1, <2>2 DEF Settled, TypeOK
<1>8. CASE Unsettled(c)
  <2>1. CASE ~LastAttempt(c) /\ BeginAttempt(c, f, n + 1)
    <3>1. f \in Feature /\ n \in 0..(MaxAttempts - 1)
      BY <1>8, <2>1, ResumedCall DEF Unsettled, LastAttempt
    <3>2. n + 1 \in 0..MaxAttempts
      BY <3>1, ManagerAssumption
    <3> QED BY <2>1, <3>1, <3>2, BeginAttemptType
  <2>2. CASE Return(c) /\ UNCHANGED <<phase, visited, featureVars, check>>
    BY <2>2, ReturnType DEF TypeOK, featureVars
  <2> QED BY <1>8, <2>1, <2>2 DEF Unsettled
<1>9. CASE BackoffEnds(c)
  <2>1. f \in Feature /\ n + 1 \in 0..MaxAttempts
    BY <1>9, ResumedCall DEF BackoffEnds
  <2> QED BY <1>9, <2>1, BeginAttemptType DEF BackoffEnds
<1> QED BY <1>1, <1>2, <1>3, <1>4, <1>5, <1>6, <1>7, <1>8, <1>9 DEF Resumed

\* A check that probes or propagates is an active one.
LEMMA Active ==
  ASSUME TypeOK, check.pc # "idle"
  PROVE  check \in ActiveCheck
BY DEF TypeOK, NoCheck

\* The frames _propagate_health_changes pushes are frames.
LEMMA FramesType ==
  ASSUME NEW change \in Change
  PROVE  Frame(change) \in StackFrame /\ Frames(change) \in Seq(StackFrame)
<1>1. Dependents(change.f) \in SUBSET Feature
  BY DEF Dependents
<1>2. Frame(change) \in StackFrame
  BY <1>1 DEF Frame, StackFrame
<1>3. <<>> \in Seq(StackFrame) /\ <<Frame(change)>> \in Seq(StackFrame)
  BY <1>2, EmptySeq
<1> QED BY <1>2, <1>3 DEF Frames

\* The loop of _check_all_feature_health keeps the types.
LEMMA ProbingType ==
  ASSUME TypeOK, NEW f \in Feature, AwaitProbe(f) \/ SkipDisabled(f) \/ ProbeAnswers(f)
  PROVE  TypeOK'
<1>1. check \in ActiveCheck
  BY Active DEF AwaitProbe, SkipDisabled, ProbeAnswers, Probing
<1>2. Tail(check.todo) \in Seq(Feature)
  <2>1. check.todo \in Seq(Feature) /\ check.todo # <<>>
    BY <1>1 DEF ActiveCheck, AwaitProbe, SkipDisabled, ProbeAnswers, Probing
  <2> QED BY <2>1, HeadTailProperties
<1>3. CASE AwaitProbe(f)
  <2>1. check' \in ActiveCheck
    BY <1>1, <1>3 DEF AwaitProbe, ActiveCheck
  <2> QED BY <1>3, <2>1 DEF AwaitProbe, TypeOK, featureVars
<1>4. CASE SkipDisabled(f)
  <2>1. check' \in ActiveCheck
    BY <1>1, <1>2, <1>4 DEF SkipDisabled, ActiveCheck
  <2> QED BY <1>4, <2>1 DEF SkipDisabled, TypeOK, featureVars
<1>5. CASE ProbeAnswers(f)
  <2>1. PICK answer \in Probes(f) :
          LET health == IF answer = "raises" THEN "failed" ELSE answer
          IN /\ check' = [check EXCEPT !.awaiting = FALSE, !.todo = Tail(@), !.seen[f] = health]
             /\ tracked' = Track(f, health)
             /\ state' = IF answer = "raises" \/ health # tracked[f] THEN Assign({f}, health) ELSE state
    BY <1>5 DEF ProbeAnswers
  <2> DEFINE health == IF answer = "raises" THEN "failed" ELSE answer
  <2>2. health \in FeatureState
    BY ManagerAssumption DEF Probes, FeatureState, TypeOK
  <2> HIDE DEF health
  <2>3. check' = [check EXCEPT !.awaiting = FALSE, !.todo = Tail(check.todo), !.seen[f] = health]
    BY <2>1 DEF health
  <2>4. check' \in ActiveCheck
    BY <1>1, <1>2, <2>2, <2>3 DEF ActiveCheck
  <2>5. tracked' \in [Feature -> FeatureState]
    BY <2>1, <2>2 DEF health, Track, TypeOK
  <2>6. state' \in [Feature -> FeatureState]
    <3>1. Assign({f}, health) \in [Feature -> FeatureState]
      BY <2>2, AssignType
    <3> QED BY <2>1, <3>1 DEF health, TypeOK
  <2> QED BY <1>5, <2>4, <2>5, <2>6 DEF ProbeAnswers, TypeOK
<1> QED BY <1>3, <1>4, <1>5

\* Listing the changes and going from one to the next keeps the types.
LEMMA PropagatingType ==
  ASSUME TypeOK, ListChanges \/ Propagate
  PROVE  TypeOK'
<1>1. check \in ActiveCheck
  BY Active DEF ListChanges, Propagate
<1>2. CASE ListChanges
  <2> DEFINE changes == [i \in 1..Len(Registered) |->
               [f |-> Registered[i], new |-> check.seen[Registered[i]], old |-> tracked[Registered[i]]]]
  <2>1. Len(Registered) \in Nat /\ \A i \in 1..Len(Registered) : Registered[i] \in Feature
    BY ManagerAssumption, LenProperties DEF Feature
  <2>2. \A i \in 1..Len(Registered) : changes[i] \in Change
    BY <1>1, <2>1 DEF TypeOK, ActiveCheck, Change
  <2>3. changes \in [1..Len(Registered) -> Change]
    BY <2>2
  <2>4. changes \in Seq(Change)
    BY <2>1, <2>3, SeqDef
  <2>5. check' = [check EXCEPT !.pc = "propagating", !.changes = changes]
    BY <1>2 DEF ListChanges
  <2> HIDE DEF changes
  <2>6. check' \in ActiveCheck
    BY <1>1, <2>4, <2>5 DEF ActiveCheck
  <2> QED BY <1>2, <2>6 DEF ListChanges, TypeOK, featureVars
<1>3. CASE Propagate
  <2>1. check.changes \in Seq(Change) /\ check.stack \in Seq(StackFrame)
    BY <1>1 DEF ActiveCheck
  <2>2. check' \in ActiveCheck
    <3>1. CASE check.changes # <<>> /\ check' =
                 [check EXCEPT !.changes = Tail(@), !.stack = Frames(Head(check.changes))]
      <4>1. Head(check.changes) \in Change /\ Tail(check.changes) \in Seq(Change)
        BY <2>1, <3>1, HeadTailProperties
      <4>2. Frames(Head(check.changes)) \in Seq(StackFrame)
        BY <4>1, FramesType
      <4> QED BY <1>1, <3>1, <4>1, <4>2 DEF ActiveCheck
    <3>2. CASE check.stack # <<>> /\ check' = [check EXCEPT !.stack = Tail(@)]
      <4>1. Tail(check.stack) \in Seq(StackFrame)
        BY <2>1, <3>2, HeadTailProperties
      <4> QED BY <1>1, <3>2, <4>1 DEF ActiveCheck
    <3> QED BY <1>3, <3>1, <3>2 DEF Propagate
  <2> QED BY <1>3, <2>2 DEF Propagate, TypeOK, featureVars
<1> QED BY <1>2, <1>3

\* Telling one dependent keeps the types.
LEMMA NotifyType ==
  ASSUME TypeOK, NEW g \in Feature, Notify(g)
  PROVE  TypeOK'
<1> DEFINE change == Head(check.stack).change
           rest == <<[Head(check.stack) EXCEPT !.todo = @ \ {g}]>> \o Tail(check.stack)
           down == {"failed", "degraded"}
           moved == IF change.new = "failed" /\ state[g] = "healthy" THEN "degraded" ELSE state[g]
           told == [state EXCEPT ![g] = moved]
           stopped == IF moved = "failed" /\ Class[g] = "critical"
                      THEN {p \in PositionCritical : enabled[p]} ELSE {}
           next == [f |-> g, new |-> moved, old |-> tracked[g]]
<1>1. check \in ActiveCheck
  BY Active DEF Notify
<1>2. check.stack \in Seq(StackFrame) /\ check.stack # <<>>
  BY <1>1 DEF ActiveCheck, Notify
<1>3. Head(check.stack) \in StackFrame /\ Tail(check.stack) \in Seq(StackFrame)
  BY <1>2, HeadTailProperties
<1>4. rest \in Seq(StackFrame)
  <2>1. [Head(check.stack) EXCEPT !.todo = @ \ {g}] \in StackFrame
    BY <1>3 DEF StackFrame
  <2> QED BY <1>3, <2>1, ConcatProperties
<1>5. change.f \in Feature
  BY <1>3 DEF StackFrame, Change
<1>6. moved \in FeatureState /\ told \in [Feature -> FeatureState]
  BY DEF TypeOK, FeatureState
<1>7. <<Frame(next)>> \o rest \in Seq(StackFrame)
  <2>1. next \in Change
    BY <1>6 DEF Change, TypeOK
  <2>2. <<Frame(next)>> \in Seq(StackFrame)
    BY <2>1, FramesType
  <2> QED BY <1>4, <2>2, ConcatProperties
<1>8. CASE ~enabled[g] /\ check' = [check EXCEPT !.stack = rest] /\ UNCHANGED featureVars
  <2>1. check' \in ActiveCheck
    BY <1>1, <1>4, <1>8 DEF ActiveCheck
  <2> QED BY <1>8, <2>1 DEF Notify, TypeOK, featureVars
<1>9. CASE
    /\ UNCHANGED enabled
    /\ failedDeps' = [failedDeps EXCEPT ![g] =
         CASE change.new \in down -> @ \union {change.f}
           [] change.new = "healthy" /\ change.old \in down -> @ \ {change.f}
           [] OTHER -> @]
    /\ \/ check' = [check EXCEPT !.stack = rest] /\ state' = told /\ UNCHANGED tracked
       \/ /\ check' = [check EXCEPT !.stack = <<Frame(next)>> \o rest]
          /\ state' = [f \in Feature |-> IF f \in stopped
               THEN Assigned(Class[f], told[f], "safe_shutdown") ELSE told[f]]
          /\ tracked' = [f \in Feature |-> CASE f = g -> moved
               [] f \in stopped -> "safe_shutdown"
               [] OTHER -> tracked[f]]
  <2>1. failedDeps' \in [Feature -> SUBSET Feature]
    BY <1>5, <1>9 DEF TypeOK
  <2> HIDE DEF change, rest, moved, told, stopped, next
  <2>2. check' \in ActiveCheck
    BY <1>1, <1>4, <1>7, <1>9 DEF ActiveCheck
  <2>3. state' \in [Feature -> FeatureState]
    <3>1. \A f \in Feature : Assigned(Class[f], told[f], "safe_shutdown") \in FeatureState
      BY <1>6, AssignedIsState DEF FeatureState
    <3> QED BY <1>6, <1>9, <3>1
  <2>4. tracked' \in [Feature -> FeatureState]
    BY <1>6, <1>9 DEF TypeOK, FeatureState
  <2> QED BY <1>9, <2>1, <2>2, <2>3, <2>4 DEF Notify, TypeOK
<1> QED BY <1>8, <1>9 DEF Notify

\* Beginning and ending a check keeps the types.
LEMMA CheckBoundsType ==
  ASSUME TypeOK, BeginCheck \/ EndCheck
  PROVE  TypeOK'
<1>1. CASE BeginCheck
  <2>1. check' \in ActiveCheck
    BY <1>1, ManagerAssumption, EmptySeq DEF BeginCheck, NoCheck, ActiveCheck, FeatureState
  <2> QED BY <1>1, <2>1 DEF BeginCheck, TypeOK, featureVars
<1>2. CASE EndCheck
  BY <1>2 DEF EndCheck, TypeOK, featureVars
<1> QED BY <1>1, <1>2

\* Every step of the manager keeps the types.
LEMMA TypeInductive ==
  ASSUME TypeOK, [Next]_managerVars
  PROVE  TypeOK'
<1>1. CASE ManagerStep
  <2>1. CASE CheckStep
    BY <2>1, ProbingType, PropagatingType, NotifyType DEF CheckStep
  <2> QED BY <1>1, <2>1, LifespanType, RequestsType, ResumedType DEF ManagerStep
<1>2. CASE BeginCheck \/ EndCheck
  BY <1>2, CheckBoundsType
<1>3. CASE UNCHANGED managerVars
  BY <1>3 DEF managerVars, TypeOK
<1> QED BY <1>1, <1>2, <1>3 DEF Next, Exited

\* Every variable keeps its type, for every list of features and every graph.
THEOREM TypeCorrect == Spec => []TypeOK
<1>1. Init => TypeOK
  BY DEF Init, TypeOK, FeatureState
<1> QED BY <1>1, TypeInductive, PTL DEF Spec
-----------------------------------------------------------------------------
(* What one step can do to the state of one feature, whoever takes it.     *)
(* Three properties of the manager follow from this alone.                 *)

\* A caller is between two attempts to recover f.
Recovering(f) == \E c \in Caller : call[c].pc \in {"settling", "backoff"} /\ call[c].f = f

\* The setter's choice for p, the unchanged state among them; what
\* on_dependency_failed writes; what the startup and shutdown of a generic
\* feature write.
SetterMoves(p) == \E to \in FeatureState : state'[p] = Assigned(Class[p], state[p], to)
DependencyMoves(p) == state[p] = "healthy" /\ state'[p] = "degraded"
GenericMoves(p) ==
  /\ p \notin Integrated
  /\ \/ state'[p] = "stopped"
     \/ /\ state'[p] = "healthy"
        /\ \/ phase = "starting" \/ ~enabled[p]
           \/ state[p] \in {"failed", "degraded"} \/ Recovering(p)

StateMoves(p) == SetterMoves(p) \/ DependencyMoves(p) \/ GenericMoves(p)

\* An assignment to whichever features moves each by the setter.
LEMMA AssignMoves ==
  ASSUME NEW p \in Feature, NEW F, NEW to \in FeatureState, state[p] \in FeatureState
  PROVE  \E t \in FeatureState : Assign(F, to)[p] = Assigned(Class[p], state[p], t)
<1>1. Assigned(Class[p], state[p], state[p]) = state[p]
  BY DEF Assigned, TransitionAllowed
<1> QED BY <1>1 DEF Assign

\* No write is one too.
LEMMA SameMoves ==
  ASSUME TypeOK, NEW p \in Feature, state'[p] = state[p]
  PROVE  StateMoves(p)
<1>1. Assigned(Class[p], state[p], state[p]) = state[p] /\ state[p] \in FeatureState
  BY DEF Assigned, TransitionAllowed, TypeOK
<1> QED BY <1>1 DEF StateMoves, SetterMoves

LEMMA AssignedMoves ==
  ASSUME TypeOK, NEW p \in Feature, NEW F, NEW to \in FeatureState,
         state' = Assign(F, to) \/ state'[p] = Assign(F, to)[p]
  PROVE  StateMoves(p)
<1>1. state[p] \in FeatureState
  BY DEF TypeOK
<1> QED BY <1>1, AssignMoves DEF StateMoves, SetterMoves

\* An attempt to recover f.
LEMMA AttemptMoves ==
  ASSUME TypeOK, NEW c, NEW f \in Feature, NEW n, BeginAttempt(c, f, n),
         state[f] \in {"failed", "degraded"} \/ Recovering(f), NEW p \in Feature
  PROVE  StateMoves(p)
<1>1. CASE f \in Integrated
  <2>1. state' = Assign({f}, "initializing")
    BY <1>1 DEF BeginAttempt
  <2> QED BY <2>1, AssignedMoves DEF FeatureState
<1>2. CASE f \notin Integrated /\ p = f
  BY <1>2 DEF BeginAttempt, StateMoves, GenericMoves, TypeOK
<1>3. CASE f \notin Integrated /\ p # f
  BY <1>3, SameMoves DEF BeginAttempt, TypeOK
<1> QED BY <1>1, <1>2, <1>3

LEMMA ResumedMoves ==
  ASSUME TypeOK, NEW c \in Caller, Resumed(c), NEW p \in Feature
  PROVE  StateMoves(p)
<1>1. CASE UNCHANGED state
  BY <1>1, SameMoves
<1>2. CASE StartReturns(c) \/ Verified(c) \/ RestartReturns(c) \/ Settled(c)
  BY <1>1, <1>2 DEF StartReturns, Verified, RestartReturns, Settled, featureVars
<1>3. CASE StartRaises(c) \/ VerifyFails(c) \/ StopRaises(c) \/ StopReturns(c) \/ AttemptRaises(c)
  <2>1. UNCHANGED state \/ \E to \in {"failed", "stopped"} : state' = Assign({call[c].f}, to)
    BY <1>3 DEF StartRaises, VerifyFails, StopRaises, ToggleRaises, StopReturns, AttemptRaises
  <2> QED BY <1>1, <2>1, AssignedMoves DEF FeatureState
<1>4. CASE Unsettled(c) \/ BackoffEnds(c)
  <2>1. call[c].f \in Feature /\ Recovering(call[c].f)
    BY <1>4, ResumedCall DEF Unsettled, BackoffEnds, Resumes, Recovering
  <2>2. UNCHANGED state \/ \E n : BeginAttempt(c, call[c].f, n)
    BY <1>4 DEF Unsettled, BackoffEnds, featureVars
  <2> QED BY <1>1, <2>1, <2>2, AttemptMoves
<1> QED BY <1>2, <1>3, <1>4 DEF Resumed

LEMMA RequestMoves ==
  ASSUME TypeOK, NEW c \in Caller, Requests(c), NEW p \in Feature
  PROVE  StateMoves(p)
<1>1. ASSUME NEW f \in Feature, Recover(c, f) PROVE StateMoves(p)
  BY <1>1, AttemptMoves DEF Recover
<1>2. ASSUME NEW f \in Feature, NEW a \in BOOLEAN, Enable(c, f, a) PROVE StateMoves(p)
  <2>1. CASE f \in Integrated
    BY <1>2, <2>1, AssignedMoves DEF Enable, FeatureState
  <2>2. CASE f \notin Integrated /\ p = f
    BY <1>2, <2>2 DEF Enable, StateMoves, GenericMoves, TypeOK
  <2>3. CASE f \notin Integrated /\ p # f
    BY <1>2, <2>3, SameMoves DEF Enable, TypeOK
  <2> QED BY <2>1, <2>2, <2>3
<1>3. ASSUME NEW f \in Feature, NEW a \in BOOLEAN, Disable(c, f, a) PROVE StateMoves(p)
  <2>1. CASE f \in Integrated
    BY <1>3, <2>1, AssignedMoves DEF Disable, FeatureState
  <2>2. CASE f \notin Integrated /\ p = f
    BY <1>3, <2>2 DEF Disable, StateMoves, GenericMoves, TypeOK
  <2>3. CASE f \notin Integrated /\ p # f
    BY <1>3, <2>3, SameMoves DEF Disable, TypeOK
  <2> QED BY <2>1, <2>2, <2>3
<1> QED BY <1>1, <1>2, <1>3 DEF Requests

LEMMA LifespanMoves ==
  ASSUME TypeOK, Lifespan, NEW p \in Feature
  PROVE  StateMoves(p)
<1>1. CASE UNCHANGED state
  BY <1>1, SameMoves
<1>2. ASSUME NEW f \in Feature, StartUp(f) PROVE StateMoves(p)
  <2>1. CASE f \in Integrated
    <3>1. UNCHANGED state \/ state' = Assign({f}, "failed")
      BY <1>2, <2>1 DEF StartUp, featureVars
    <3> QED BY <1>1, <3>1, AssignedMoves DEF FeatureState
  <2>2. CASE f \notin Integrated
    <3>1. /\ phase = "starting"
          /\ UNCHANGED state \/ state' = [state EXCEPT ![f] = "healthy"]
      BY <1>2, <2>2 DEF StartUp, featureVars
    <3>2. CASE p = f
      BY <1>1, <2>2, <3>1, <3>2 DEF StateMoves, GenericMoves, TypeOK
    <3>3. CASE p # f
      BY <3>1, <3>3, SameMoves DEF TypeOK
    <3> QED BY <3>2, <3>3
  <2> QED BY <2>1, <2>2
<1>3. ASSUME NEW f \in Feature, ShutDown(f) PROVE StateMoves(p)
  <2>1. UNCHANGED state \/ (f \notin Integrated /\ state' = [state EXCEPT ![f] = "stopped"])
    BY <1>3 DEF ShutDown
  <2>2. CASE p = f
    BY <1>1, <2>1, <2>2 DEF StateMoves, GenericMoves, TypeOK
  <2>3. CASE p # f
    BY <2>1, <2>3, SameMoves DEF TypeOK
  <2> QED BY <2>2, <2>3
<1> QED BY <1>1, <1>2, <1>3 DEF Lifespan, Started, BeginShutdown, featureVars

\* A health check: an answer goes through the setter, a dependent may be told
\* of a failure, and only when it has FAILED itself are others shut down.
LEMMA CheckMoves ==
  ASSUME TypeOK, CheckStep, NEW p \in Feature
  PROVE  StateMoves(p)
<1>1. CASE UNCHANGED state
  BY <1>1, SameMoves
<1>2. ASSUME NEW f \in Feature, ProbeAnswers(f) PROVE StateMoves(p)
  <2>1. PICK health \in FeatureState : state' = Assign({f}, health) \/ UNCHANGED state
    <3>1. PICK answer \in Probes(f) :
            LET health == IF answer = "raises" THEN "failed" ELSE answer
            IN state' = IF answer = "raises" \/ health # tracked[f] THEN Assign({f}, health) ELSE state
      BY <1>2 DEF ProbeAnswers
    <3>2. (IF answer = "raises" THEN "failed" ELSE answer) \in FeatureState
      BY ManagerAssumption DEF Probes, FeatureState, TypeOK
    <3> QED BY <3>1, <3>2
  <2> QED BY <1>1, <2>1, AssignedMoves
<1>3. ASSUME NEW g \in Feature, Notify(g) PROVE StateMoves(p)
  <2> DEFINE change == Head(check.stack).change
             moved == IF change.new = "failed" /\ state[g] = "healthy" THEN "degraded" ELSE state[g]
             told == [state EXCEPT ![g] = moved]
             stopped == IF moved = "failed" /\ Class[g] = "critical"
                        THEN {q \in PositionCritical : enabled[q]} ELSE {}
  <2>1. \/ UNCHANGED state \/ state' = told
        \/ state' = [f \in Feature |-> IF f \in stopped
             THEN Assigned(Class[f], told[f], "safe_shutdown") ELSE told[f]]
    BY <1>3 DEF Notify, featureVars
  <2>2. told[p] = state[p] \/ (state[p] = "healthy" /\ told[p] = "degraded")
    BY DEF TypeOK
  <2>3. p \in stopped => told[p] = state[p]
    BY DEF TypeOK
  <2> HIDE DEF told, stopped
  <2>4. \/ state'[p] = state[p] \/ (state[p] = "healthy" /\ state'[p] = "degraded")
        \/ state'[p] = Assigned(Class[p], state[p], "safe_shutdown")
    BY <2>1, <2>2, <2>3
  <2> QED BY <2>4, SameMoves DEF StateMoves, SetterMoves, DependencyMoves, FeatureState
<1>4. ASSUME ListChanges \/ Propagate \/ \E f \in Feature : AwaitProbe(f) \/ SkipDisabled(f)
      PROVE  UNCHANGED state
  BY <1>4 DEF ListChanges, Propagate, AwaitProbe, SkipDisabled, featureVars
<1> QED BY <1>1, <1>2, <1>3, <1>4 DEF CheckStep

\* Every step moves every feature so.
LEMMA StepMoves ==
  ASSUME TypeOK, [Next]_managerVars, NEW p \in Feature
  PROVE  StateMoves(p)
<1>1. CASE ManagerStep
  BY <1>1, LifespanMoves, CheckMoves, RequestMoves, ResumedMoves DEF ManagerStep
<1>2. CASE BeginCheck \/ EndCheck \/ Exited \/ UNCHANGED managerVars
  BY <1>2, SameMoves DEF BeginCheck, EndCheck, Exited, featureVars, managerVars
<1> QED BY <1>1, <1>2 DEF Next

(* PositionNeverFails, and the like for critical features.                 *)

\* The feature has not failed, and nothing that is assigned to it makes it FAILED.
CannotFail(f) ==
  state[f] # "failed" /\ \A to \in FeatureState : Assigned(Class[f], state[f], to) # "failed"

\* What the setter refuses to a feature no step of the manager does to it.
LEMMA StepKeeps ==
  ASSUME TypeOK, [Next]_managerVars, NEW p \in Feature, CannotFail(p)
  PROVE  state'[p] # "failed"
BY StepMoves DEF StateMoves, SetterMoves, DependencyMoves, GenericMoves, CannotFail

\* A position-critical feature in operation cannot fail.
LEMMA PositionCannotFail ==
  ASSUME NEW p \in PositionCritical, state[p] \in {"healthy", "degraded"}
  PROVE  p \in Feature /\ CannotFail(p)
<1>1. p \in Feature /\ Class[p] = "position_critical"
  BY DEF PositionCritical
<1> QED BY <1>1, PositionAssigned DEF CannotFail

\* No step of the manager, of its callers or of a health check takes a
\* position-critical feature from HEALTHY or DEGRADED to FAILED.
THEOREM PositionSafe == Spec => PositionNeverFails
<1>1. TypeOK /\ [Next]_managerVars =>
        [\A f \in PositionCritical :
           state[f] \in {"healthy", "degraded"} => state'[f] # "failed"]_managerVars
  BY StepKeeps, PositionCannotFail
<1> QED BY <1>1, TypeCorrect, PTL DEF Spec, PositionNeverFails

\* "Critical features must go through DEGRADED before FAILED": no step takes a
\* critical feature from HEALTHY to FAILED.
CriticalDegradesFirst ==
  [][\A f \in Feature :
       Class[f] = "critical" /\ state[f] = "healthy" => state'[f] # "failed"]_managerVars

\* A critical feature that is HEALTHY cannot fail, if the setter's last resort
\* does not choose FAILED itself.
LEMMA CriticalCannotFail ==
  ASSUME FirstListed["healthy"] # "failed",
         NEW p \in Feature, Class[p] = "critical", state[p] = "healthy"
  PROVE  CannotFail(p)
<1>1. \A to \in FeatureState : Assigned("critical", "healthy", to) # "failed"
  BY DEF Assigned, SafeTransition, TransitionAllowed, ValidTransitions, FeatureState
<1> QED BY <1>1 DEF CannotFail

\* The rule for critical features holds in every execution whose hash seed does
\* not list FAILED first among the successors of HEALTHY.
THEOREM CriticalNeverFailsAtOnce ==
  ASSUME FirstListed["healthy"] # "failed"
  PROVE  Spec => CriticalDegradesFirst
<1>1. TypeOK /\ [Next]_managerVars =>
        [\A f \in Feature :
           Class[f] = "critical" /\ state[f] = "healthy" => state'[f] # "failed"]_managerVars
  BY StepKeeps, CriticalCannotFail
<1> QED BY <1>1, TypeCorrect, PTL DEF Spec, CriticalDegradesFirst

\* The features with a startup and shutdown of their own obey the table of
\* SafetyValidator; generic ones, whose two methods write _state, do not.
IntegratedFollowTable ==
  [][\A f \in Integrated : state'[f] \in ValidTransitions(state[f]) \union {state[f]}]_managerVars

\* No interleaving of requests, recoveries and health checks takes an
\* integrated feature along an edge VALID_TRANSITIONS does not have.
THEOREM TableIsFollowed == Spec => IntegratedFollowTable
<1>1. ASSUME TypeOK, [Next]_managerVars, NEW f \in Integrated
      PROVE  state'[f] \in ValidTransitions(state[f]) \union {state[f]}
  <2>0. Integrated \subseteq Feature
    BY ManagerAssumption
  <2>1. f \in Feature /\ state[f] \in FeatureState
    BY <1>1, <2>0 DEF TypeOK
  <2>2. StateMoves(f)
    BY <1>1, <2>1, StepMoves
  <2>3. CASE SetterMoves(f)
    BY <2>1, <2>3, SetterObeysTable DEF SetterMoves
  <2>4. CASE DependencyMoves(f)
    BY <2>4 DEF DependencyMoves, ValidTransitions
  <2> QED BY <2>2, <2>3, <2>4 DEF StateMoves, GenericMoves
<1>2. TypeOK /\ [Next]_managerVars =>
        [\A f \in Integrated : state'[f] \in ValidTransitions(state[f]) \union {state[f]}]_managerVars
  BY <1>1
<1> QED BY <1>2, TypeCorrect, PTL DEF Spec, IntegratedFollowTable

InOperation == {"initializing", "healthy", "degraded", "failed"}

\* An enabled feature in SAFE_SHUTDOWN is not taken back into operation, nor to
\* FAILED, by a request, its own startup, a dependency or a health check.  The
\* exception is the loop of attempt_feature_recovery, which calls the startup
\* of a generic feature again.
ShutdownStands ==
  [][\A f \in Feature :
       phase # "starting" /\ enabled[f] /\ state[f] = "safe_shutdown" /\ state'[f] \in InOperation
         => f \notin Integrated /\ Recovering(f)]_managerVars

\* The setter leads out of SAFE_SHUTDOWN to STOPPED and MAINTENANCE only, and
\* the startup of a generic feature is not called otherwise.
LEMMA StandsStep ==
  ASSUME TypeOK, [Next]_managerVars, NEW p \in Feature,
         phase # "starting", enabled[p], state[p] = "safe_shutdown", state'[p] \in InOperation
  PROVE  p \notin Integrated /\ Recovering(p)
<1>1. \A to \in FeatureState :
        Assigned(Class[p], "safe_shutdown", to) \in {"safe_shutdown", "stopped", "maintenance"}
  BY SetterObeysTable DEF ValidTransitions, FeatureState
<1>2. ~SetterMoves(p) /\ ~DependencyMoves(p)
  BY <1>1 DEF SetterMoves, DependencyMoves, InOperation
<1> QED BY <1>2, StepMoves DEF StateMoves, GenericMoves, InOperation

\* Nothing but a recovery under way undoes a safe shutdown.
THEOREM ShutdownIsKept == Spec => ShutdownStands
<1>1. TypeOK /\ [Next]_managerVars =>
        [\A f \in Feature :
           phase # "starting" /\ enabled[f] /\ state[f] = "safe_shutdown" /\ state'[f] \in InOperation
             => f \notin Integrated /\ Recovering(f)]_managerVars
  BY StandsStep
<1> QED BY <1>1, TypeCorrect, PTL DEF Spec, ShutdownStands
-----------------------------------------------------------------------------
(* OwnDependencies.  The propagation walks dependents only, in every frame *)
(* of its stack.                                                           *)

DependentFrame == {frame \in StackFrame : frame.todo \subseteq Dependents(frame.change.f)}

PropagationInv == check.stack \in Seq(DependentFrame) /\ OwnDependencies

\* The frame an activation begins with holds dependents only.
LEMMA FrameDependent ==
  ASSUME NEW change \in Change
  PROVE  Frame(change) \in DependentFrame /\ Frames(change) \in Seq(DependentFrame)
<1>1. Frame(change) \in StackFrame
  BY FramesType
<1>2. Frame(change) \in DependentFrame
  BY <1>1 DEF Frame, DependentFrame
<1>3. <<>> \in Seq(DependentFrame) /\ <<Frame(change)>> \in Seq(DependentFrame)
  BY <1>2, EmptySeq
<1> QED BY <1>2, <1>3 DEF Frames

\* Telling one dependent of a failure or a recovery keeps both facts.
LEMMA NotifyOwn ==
  ASSUME TypeOK, PropagationInv, NEW g \in Feature, Notify(g)
  PROVE  PropagationInv'
<1> DEFINE change == Head(check.stack).change
           left == [Head(check.stack) EXCEPT !.todo = @ \ {g}]
           rest == <<left>> \o Tail(check.stack)
           moved == IF change.new = "failed" /\ state[g] = "healthy" THEN "degraded" ELSE state[g]
           next == [f |-> g, new |-> moved, old |-> tracked[g]]
<1>1. check \in ActiveCheck
  BY Active DEF Notify
<1>2. /\ check.stack # <<>> /\ g \in Head(check.stack).todo
      /\ Head(check.stack) \in DependentFrame /\ Tail(check.stack) \in Seq(DependentFrame)
  BY HeadTailProperties DEF Notify, PropagationInv
<1>3. g \in Dependents(change.f)
  BY <1>2 DEF DependentFrame
<1>4. rest \in Seq(DependentFrame)
  <2>1. left \in DependentFrame
    BY <1>2 DEF DependentFrame, StackFrame
  <2>2. <<left>> \in Seq(DependentFrame)
    BY <2>1
  <2> QED BY <1>2, <2>2, ConcatProperties
<1>5. <<Frame(next)>> \o rest \in Seq(DependentFrame)
  <2>1. next \in Change
    BY DEF Change, TypeOK, FeatureState
  <2>2. <<Frame(next)>> \in Seq(DependentFrame)
    BY <2>1, FrameDependent
  <2> QED BY <1>4, <2>2, ConcatProperties
<1>6. check'.stack \in Seq(DependentFrame)
  <2>1. check' = [check EXCEPT !.stack = rest] \/ check' = [check EXCEPT !.stack = <<Frame(next)>> \o rest]
    BY DEF Notify
  <2> HIDE DEF rest, next
  <2> QED BY <1>1, <1>4, <1>5, <2>1 DEF ActiveCheck
<1>7. OwnDependencies'
  <2>1. \A f \in Feature : failedDeps'[f] \subseteq failedDeps[f] \union (IF f = g THEN {change.f} ELSE {})
    <3>1. CASE failedDeps' = failedDeps
      BY <3>1
    <3>2. CASE failedDeps' = [failedDeps EXCEPT ![g] = @ \union {change.f}]
      BY <3>2 DEF TypeOK
    <3>3. CASE failedDeps' = [failedDeps EXCEPT ![g] = @ \ {change.f}]
      BY <3>3 DEF TypeOK
    <3>4. CASE failedDeps' = [failedDeps EXCEPT ![g] = @]
      BY <3>4 DEF TypeOK
    <3> QED BY <3>1, <3>2, <3>3, <3>4 DEF Notify, featureVars
  <2>2. change.f \in DependsOn[g]
    BY <1>3 DEF Dependents
  <2> QED BY <2>1, <2>2 DEF OwnDependencies, PropagationInv
<1> QED BY <1>6, <1>7 DEF PropagationInv

\* The other steps of a check tell nobody, and only Propagate pushes a frame.
LEMMA CheckOwn ==
  ASSUME TypeOK, PropagationInv, CheckStep
  PROVE  PropagationInv'
<1>1. CASE UNCHANGED <<failedDeps, check.stack>>
  BY <1>1 DEF PropagationInv, OwnDependencies
<1>2. check \in ActiveCheck
  BY Active DEF CheckStep, ListChanges, Propagate, AwaitProbe, SkipDisabled, ProbeAnswers, Notify, Probing
<1>3. CASE ListChanges
  BY <1>1, <1>2, <1>3 DEF ListChanges, ActiveCheck, featureVars
<1>4. ASSUME NEW f \in Feature, AwaitProbe(f) \/ SkipDisabled(f) \/ ProbeAnswers(f)
      PROVE  UNCHANGED <<failedDeps, check.stack>>
  BY <1>2, <1>4 DEF AwaitProbe, SkipDisabled, ProbeAnswers, ActiveCheck, featureVars
<1>5. CASE Propagate
  <2>1. check'.stack \in Seq(DependentFrame)
    <3>1. CASE check.changes # <<>> /\ check' =
                 [check EXCEPT !.changes = Tail(@), !.stack = Frames(Head(check.changes))]
      <4>1. Head(check.changes) \in Change
        BY <1>2, <3>1, HeadTailProperties DEF ActiveCheck
      <4> QED BY <1>2, <3>1, <4>1, FrameDependent DEF ActiveCheck
    <3>2. CASE check.stack # <<>> /\ check' = [check EXCEPT !.stack = Tail(@)]
      BY <1>2, <3>2, HeadTailProperties DEF ActiveCheck, PropagationInv
    <3> QED BY <1>5, <3>1, <3>2 DEF Propagate
  <2> QED BY <1>5, <2>1 DEF Propagate, PropagationInv, OwnDependencies, featureVars
<1> QED BY <1>1, <1>3, <1>4, <1>5, NotifyOwn DEF CheckStep

\* A disable tells the enabled dependents, a recovery forgets what recovered.
LEMMA CallOwn ==
  ASSUME TypeOK, PropagationInv, NEW c \in Caller, Requests(c) \/ Resumed(c)
  PROVE  OwnDependencies' /\ check' = check
<1>1. CASE UNCHANGED <<failedDeps, check>>
  BY <1>1 DEF PropagationInv, OwnDependencies
<1>2. ASSUME NEW f, NEW n, BeginAttempt(c, f, n) PROVE OwnDependencies' /\ check' = check
  BY <1>2 DEF BeginAttempt, PropagationInv, OwnDependencies, TypeOK
<1>3. ASSUME NEW f \in Feature, NEW a \in BOOLEAN, Disable(c, f, a)
      PROVE  OwnDependencies' /\ check' = check
  BY <1>3 DEF Disable, Informed, Dependents, PropagationInv, OwnDependencies
<1>4. CASE Requests(c)
  BY <1>1, <1>2, <1>3, <1>4 DEF Requests, Recover, Enable
<1>5. CASE Resumed(c)
  BY <1>1, <1>2, <1>5
     DEF Resumed, StartReturns, StartRaises, Verified, VerifyFails, StopReturns, StopRaises, ToggleRaises,
         RestartReturns, AttemptRaises, Settled, Unsettled, BackoffEnds, featureVars
<1> QED BY <1>4, <1>5

\* A feature is told of failures of its own dependencies only, however deep
\* the propagation and whatever is toggled meanwhile.
THEOREM OwnFailuresOnly == Spec => []OwnDependencies
<1>1. Init => PropagationInv
  BY EmptySeq DEF Init, PropagationInv, OwnDependencies, NoCheck
<1>2. ASSUME TypeOK, PropagationInv, [Next]_managerVars PROVE PropagationInv'
  <2>1. CASE UNCHANGED <<failedDeps, check>>
    BY <1>2, <2>1 DEF PropagationInv, OwnDependencies
  <2>2. CASE CheckStep
    BY <1>2, <2>2, CheckOwn
  <2>3. ASSUME NEW c \in Caller, Requests(c) \/ Resumed(c) PROVE PropagationInv'
    BY <1>2, <2>3, CallOwn DEF PropagationInv
  <2>4. CASE Lifespan
    BY <2>1, <2>4 DEF Lifespan, Started, BeginShutdown, StartUp, ShutDown, featureVars
  <2>5. CASE BeginCheck \/ EndCheck
    <3>1. NoCheck.stack = <<>> /\ check'.stack = NoCheck.stack
      BY <2>5 DEF BeginCheck, EndCheck, NoCheck
    <3> QED BY <1>2, <2>5, <3>1, EmptySeq
            DEF BeginCheck, EndCheck, PropagationInv, OwnDependencies, featureVars
  <2>6. CASE Exited \/ UNCHANGED managerVars
    BY <2>1, <2>6 DEF Exited, managerVars
  <2> QED BY <1>2, <2>2, <2>3, <2>4, <2>5, <2>6 DEF Next, ManagerStep
<1>3. PropagationInv => OwnDependencies
  BY DEF PropagationInv
<1> QED BY <1>1, <1>2, <1>3, TypeCorrect, PTL DEF Spec
-----------------------------------------------------------------------------
(* Health checks of features that do not probe a device, as all of the     *)
(* repository's.  Such a check never suspends, so it sees one state of     *)
(* every feature; it stores that state before it compares, so it finds no  *)
(* change of an enabled feature to propagate.                              *)

Members(s) == {s[i] : i \in 1..Len(s)}

UnspreadChange == {change \in Change : change.new = change.old \/ change.new = "stopped"}
StoppedFrame == {frame \in StackFrame : frame.change.new = "stopped"}

\* What a check under way has done so far: seen and tracked are the state of
\* each enabled feature it is done with, and its work list holds no failure.
ScanInv ==
  /\ ~check.awaiting
  /\ check.pc # "idle" => phase # "starting"
  /\ \A f \in Feature : check.pc # "idle" /\ ~enabled[f] => check.seen[f] = "stopped"
  /\ \A f \in Feature \ Members(check.todo) :
       check.pc # "idle" /\ enabled[f] => check.seen[f] = state[f] /\ tracked[f] = state[f]
  /\ check.pc = "propagating" => check.todo = <<>>
  /\ check.changes \in Seq(UnspreadChange)
  /\ check.stack \in Seq(StoppedFrame)

\* Nothing but its head leaves a sequence with it.
LEMMA TailMembers ==
  ASSUME NEW s \in Seq(Feature), s # <<>>
  PROVE  Members(s) \subseteq {Head(s)} \union Members(Tail(s))
<1> SUFFICES ASSUME NEW i \in 1..Len(s), i # 1
             PROVE  s[i] \in Members(Tail(s))
  BY HeadTailProperties DEF Members
<1>1. Len(Tail(s)) = Len(s) - 1 /\ Len(s) \in Nat
  BY HeadTailProperties, LenProperties
<1>2. i - 1 \in 1..Len(Tail(s)) /\ Tail(s)[i - 1] = s[i]
  BY <1>1, HeadTailProperties
<1> QED BY <1>2 DEF Members

\* A step that begins while no check is under way, and starts none, keeps it.
LEMMA IdleScan ==
  ASSUME ScanInv, check.pc = "idle", check' = check
  PROVE  ScanInv'
BY DEF ScanInv

\* The loop over the features.
LEMMA ScanProbing ==
  ASSUME Monitored = {}, TypeOK, ScanInv,
         NEW f \in Feature, AwaitProbe(f) \/ SkipDisabled(f) \/ ProbeAnswers(f)
  PROVE  ScanInv' /\ UNCHANGED <<state, failedDeps>>
<1>1. check \in ActiveCheck /\ check.pc = "probing" /\ ~check.awaiting
      /\ check.todo \in Seq(Feature) /\ check.todo # <<>> /\ f = Head(check.todo)
  BY Active DEF AwaitProbe, SkipDisabled, ProbeAnswers, Probing, ActiveCheck, ScanInv
<1>2. ~AwaitProbe(f)
  BY DEF AwaitProbe
<1>3. Members(check.todo) \subseteq {f} \union Members(Tail(check.todo))
  BY <1>1, TailMembers
<1>4. CASE SkipDisabled(f)
  <2>1. check' = [check EXCEPT !.todo = Tail(check.todo)] /\ ~enabled[f]
        /\ UNCHANGED <<phase, enabled, state, tracked, failedDeps>>
    BY <1>4 DEF SkipDisabled, featureVars
  <2>2. /\ check'.todo = Tail(check.todo) /\ check'.seen = check.seen /\ check'.pc = check.pc
        /\ check'.awaiting = check.awaiting /\ check'.changes = check.changes /\ check'.stack = check.stack
    BY <1>1, <2>1 DEF ActiveCheck
  <2> QED BY <1>1, <1>3, <2>1, <2>2 DEF ScanInv
<1>5. CASE ProbeAnswers(f)
  <2>1. enabled[f] /\ f \notin Monitored /\ Probes(f) = {state[f]} /\ state[f] # "raises"
    BY <1>1, <1>5 DEF ProbeAnswers, Probes, TypeOK, FeatureState
  <2>2. /\ check' = [check EXCEPT !.awaiting = FALSE, !.todo = Tail(check.todo), !.seen[f] = state[f]]
        /\ tracked' = [tracked EXCEPT ![f] = state[f]]
        /\ state' = IF state[f] # tracked[f] THEN Assign({f}, state[f]) ELSE state
        /\ UNCHANGED <<phase, enabled, failedDeps>>
    BY <1>5, <2>1 DEF ProbeAnswers, Track
  <2>3. state' = state
    <3>1. Assign({f}, state[f]) = state
      BY DEF Assign, Assigned, TransitionAllowed, TypeOK
    <3> QED BY <2>2, <3>1
  <2>4. /\ check'.todo = Tail(check.todo) /\ check'.seen = [check.seen EXCEPT ![f] = state[f]]
        /\ check'.pc = check.pc /\ ~check'.awaiting
        /\ check'.changes = check.changes /\ check'.stack = check.stack
    BY <1>1, <2>2 DEF ActiveCheck
  <2>5. check.seen \in [Feature -> FeatureState] /\ tracked \in [Feature -> FeatureState]
    BY <1>1 DEF ActiveCheck, TypeOK
  <2> QED BY <1>1, <1>3, <2>1, <2>2, <2>3, <2>4, <2>5 DEF ScanInv
<1> QED BY <1>2, <1>4, <1>5

\* Listing the changes and taking up the next one.
LEMMA ScanPropagating ==
  ASSUME TypeOK, ScanInv, ListChanges \/ Propagate
  PROVE  ScanInv' /\ UNCHANGED <<state, failedDeps>>
<1>1. check \in ActiveCheck
  BY Active DEF ListChanges, Propagate
<1>2. UNCHANGED <<phase, enabled, state, tracked, failedDeps>>
  BY DEF ListChanges, Propagate, featureVars
<1>3. CASE ListChanges
  <2> DEFINE entry(f) == [f |-> f, new |-> check.seen[f], old |-> tracked[f]]
             changes == [i \in 1..Len(Registered) |-> entry(Registered[i])]
  <2>1. Len(Registered) \in Nat /\ \A i \in 1..Len(Registered) : Registered[i] \in Feature
    BY ManagerAssumption, LenProperties DEF Feature
  <2>2. check.todo = <<>> /\ Members(check.todo) = {}
    BY <1>3 DEF ListChanges, Members
  <2>3. \A f \in Feature : entry(f) \in UnspreadChange
    <3> SUFFICES ASSUME NEW f \in Feature PROVE entry(f) \in UnspreadChange
      OBVIOUS
    <3>1. entry(f) \in Change
      BY <1>1 DEF Change, ActiveCheck, TypeOK
    <3>2. check.seen[f] = tracked[f] \/ check.seen[f] = "stopped"
      BY <1>3, <2>2 DEF ScanInv, ListChanges, TypeOK
    <3> QED BY <3>1, <3>2 DEF UnspreadChange
  <2> HIDE DEF entry
  <2>4. changes \in Seq(UnspreadChange)
    BY <2>1, <2>3, SeqDef
  <2>5. check' = [check EXCEPT !.pc = "propagating", !.changes = changes]
    BY <1>3 DEF ListChanges, entry
  <2> HIDE DEF changes
  <2>6. /\ check'.pc = "propagating" /\ check'.changes = changes /\ check'.seen = check.seen
        /\ check'.todo = check.todo /\ check'.awaiting = check.awaiting /\ check'.stack = check.stack
    BY <1>1, <2>5 DEF ActiveCheck
  <2> QED BY <1>2, <1>3, <2>2, <2>4, <2>6 DEF ScanInv, ListChanges
<1>4. CASE Propagate
  <2>1. CASE check.changes # <<>> /\ check' =
               [check EXCEPT !.changes = Tail(@), !.stack = Frames(Head(check.changes))]
    <3> DEFINE change == Head(check.changes)
    <3>1. change \in UnspreadChange /\ Tail(check.changes) \in Seq(UnspreadChange)
      BY <2>1, HeadTailProperties DEF ScanInv
    <3>2. Frames(change) \in Seq(StoppedFrame)
      <4>1. Frame(change) \in StackFrame /\ Frame(change).change = change
        BY <3>1, FramesType DEF UnspreadChange, Frame
      <4>2. change.new = "stopped" => <<Frame(change)>> \in Seq(StoppedFrame)
        BY <4>1 DEF StoppedFrame
      <4> QED BY <3>1, <4>2, EmptySeq DEF Frames, UnspreadChange
    <3>3. /\ check'.changes = Tail(check.changes) /\ check'.stack = Frames(change) /\ check'.seen = check.seen
          /\ check'.todo = check.todo /\ check'.awaiting = check.awaiting /\ check'.pc = check.pc
      BY <1>1, <2>1 DEF ActiveCheck
    <3> QED BY <1>2, <3>1, <3>2, <3>3 DEF ScanInv
  <2>2. CASE check.stack # <<>> /\ check' = [check EXCEPT !.stack = Tail(@)]
    <3>1. Tail(check.stack) \in Seq(StoppedFrame)
      BY <2>2, HeadTailProperties DEF ScanInv
    <3>2. /\ check'.changes = check.changes /\ check'.stack = Tail(check.stack) /\ check'.seen = check.seen
          /\ check'.todo = check.todo /\ check'.awaiting = check.awaiting /\ check'.pc = check.pc
      BY <1>1, <2>2 DEF ActiveCheck
    <3> QED BY <1>2, <3>1, <3>2 DEF ScanInv
  <2> QED BY <1>4, <2>1, <2>2 DEF Propagate
<1> QED BY <1>2, <1>3, <1>4

\* A dependent is told of a feature that is not running, which changes nothing
\* about it: it is neither degraded nor does the propagation go on from it.
LEMMA ScanNotify ==
  ASSUME TypeOK, ScanInv, NEW g \in Feature, Notify(g)
  PROVE  ScanInv' /\ UNCHANGED <<state, failedDeps>>
<1> DEFINE change == Head(check.stack).change
           left == [Head(check.stack) EXCEPT !.todo = @ \ {g}]
           rest == <<left>> \o Tail(check.stack)
<1>1. check \in ActiveCheck /\ check.pc = "propagating" /\ check.todo = <<>> /\ Members(check.todo) = {}
  <2>1. check \in ActiveCheck /\ check.pc = "propagating"
    BY Active DEF Notify
  <2>2. check.todo = <<>>
    BY <2>1 DEF ScanInv
  <2>3. Members(<<>>) = {}
    BY DEF Members
  <2> QED BY <2>1, <2>2, <2>3
<1>2. /\ Head(check.stack) \in StoppedFrame /\ Tail(check.stack) \in Seq(StoppedFrame)
      /\ change.new = "stopped"
  <2>1. check.stack \in Seq(StoppedFrame) /\ check.stack # <<>>
    BY <1>1 DEF Notify, ScanInv
  <2>2. Head(check.stack) \in StoppedFrame /\ Tail(check.stack) \in Seq(StoppedFrame)
    BY <2>1, HeadTailProperties
  <2> QED BY <2>2 DEF StoppedFrame
<1>3. rest \in Seq(StoppedFrame)
  <2>1. left \in StoppedFrame
    BY <1>2 DEF StoppedFrame, StackFrame
  <2> QED BY <1>2, <2>1, ConcatProperties
<1>4. check' = [check EXCEPT !.stack = rest] /\ UNCHANGED <<phase, enabled, state, tracked, failedDeps>>
  <2>1. CASE ~enabled[g]
    BY <2>1 DEF Notify, featureVars
  <2>2. CASE enabled[g]
    <3>1. tracked[g] = state[g]
      BY <1>1, <2>2 DEF ScanInv
    <3>2. failedDeps' = failedDeps
      BY <1>2, <2>2 DEF Notify, TypeOK
    <3>3. check' = [check EXCEPT !.stack = rest] /\ state' = [state EXCEPT ![g] = state[g]]
          /\ UNCHANGED <<phase, enabled, tracked>>
      BY <1>2, <2>2, <3>1 DEF Notify
    <3> QED BY <3>2, <3>3 DEF TypeOK
  <2> QED BY <2>1, <2>2
<1> HIDE DEF rest
<1>5. /\ check'.changes = check.changes /\ check'.stack = rest /\ check'.seen = check.seen
      /\ check'.todo = check.todo /\ check'.awaiting = check.awaiting /\ check'.pc = check.pc
  BY <1>1, <1>4 DEF ActiveCheck
<1> QED BY <1>3, <1>4, <1>5 DEF ScanInv

\* No step of a check changes a state or tells anyone anything.
LEMMA ScanCheck ==
  ASSUME Monitored = {}, TypeOK, ScanInv, CheckStep
  PROVE  ScanInv' /\ UNCHANGED <<state, failedDeps>>
BY ScanProbing, ScanPropagating, ScanNotify DEF CheckStep

\* A new check has everything before it, and one that has ended nothing.
LEMMA ScanBounds ==
  ASSUME ScanInv, BeginCheck \/ check' = NoCheck
  PROVE  ScanInv'
<1>1. CASE BeginCheck
  <2> DEFINE first == [pc |-> "probing", awaiting |-> FALSE, todo |-> Registered,
                       seen |-> [f \in Feature |-> "stopped"], changes |-> <<>>, stack |-> <<>>]
  <2>1. check' = first /\ phase' = phase /\ phase # "starting"
    BY <1>1 DEF BeginCheck, NoCheck
  <2>2. Members(Registered) = Feature
    BY DEF Members, Feature
  <2> QED BY <2>1, <2>2, EmptySeq DEF ScanInv
<1>2. CASE check' = NoCheck
  BY <1>2, EmptySeq DEF ScanInv, NoCheck
<1> QED BY <1>1, <1>2

\* Every other step of the manager leaves the check alone.
LEMMA OthersKeepCheck ==
  ASSUME Lifespan \/ \E c \in Caller : Requests(c) \/ Resumed(c)
  PROVE  check' = check
<1>1. CASE Lifespan
  BY <1>1 DEF Lifespan, Started, BeginShutdown, StartUp, ShutDown
<1>2. ASSUME NEW c \in Caller, Requests(c) PROVE check' = check
  BY <1>2 DEF Requests, Recover, BeginAttempt, Enable, Disable
<1>3. ASSUME NEW c \in Caller, Resumed(c) PROVE check' = check
  BY <1>3 DEF Resumed, StartReturns, StartRaises, Verified, VerifyFails, StopReturns, StopRaises,
              ToggleRaises, RestartReturns, AttemptRaises, Settled, Unsettled, BackoffEnds, BeginAttempt
<1> QED BY <1>1, <1>2, <1>3

\* ... and is taken only while no check is under way, since none ever awaits.
LEMMA OthersFindIdle ==
  ASSUME ScanInv, Lifespan \/ \E c \in Caller : Requests(c) \/ Resumed(c)
  PROVE  check.pc = "idle"
<1>1. LoopFree => check.pc = "idle"
  BY DEF LoopFree, ScanInv
<1>2. CASE Lifespan
  BY <1>1, <1>2 DEF Lifespan, Started, BeginShutdown, StartUp, ShutDown, Running, ScanInv
<1>3. ASSUME NEW c \in Caller, Requests(c) PROVE LoopFree
  BY <1>3 DEF Requests, Recover, Enable, Disable, Running
<1>4. ASSUME NEW c \in Caller, Resumed(c) PROVE LoopFree
  BY <1>4 DEF Resumed, StartReturns, StartRaises, Verified, VerifyFails, StopReturns, StopRaises,
              RestartReturns, AttemptRaises, Settled, Unsettled, BackoffEnds, Resumes, Running
<1> QED BY <1>1, <1>2, <1>3, <1>4

\* Every step of the manager keeps it.
LEMMA ScanStep ==
  ASSUME Monitored = {}, TypeOK, ScanInv, [Next]_managerVars
  PROVE  ScanInv'
<1>1. CASE CheckStep
  BY <1>1, ScanCheck
<1>2. CASE Lifespan \/ \E c \in Caller : Requests(c) \/ Resumed(c)
  BY <1>2, OthersKeepCheck, OthersFindIdle, IdleScan
<1>3. CASE BeginCheck \/ EndCheck
  BY <1>3, ScanBounds DEF EndCheck
<1>4. CASE Exited \/ UNCHANGED managerVars
  BY <1>4 DEF Exited, managerVars, ScanInv
<1> QED BY <1>1, <1>2, <1>3, <1>4 DEF Next, ManagerStep

LEMMA ScanInit == Init => ScanInv
BY EmptySeq DEF Init, NoCheck, ScanInv, Members

\* At the end of a check nothing is left to visit.
LEMMA ScanDone ==
  ASSUME ScanInv
  PROVE  TrackedAgrees /\ ReportComplete
<1>1. CheckDone => check.pc # "idle" /\ Members(check.todo) = {}
  BY DEF CheckDone, ScanInv, Members
<1> QED BY <1>1 DEF ScanInv, TrackedAgrees, ReportComplete, FailedCritical

\* Whatever is toggled and recovered between checks, and by however many
\* callers, after a check the manager's view of every enabled feature is the
\* feature's own state.
THEOREM ViewIsTrue ==
  ASSUME Monitored = {}
  PROVE  Spec => []TrackedAgrees
<1>1. TypeOK /\ ScanInv /\ [Next]_managerVars => ScanInv'
  BY ScanStep
<1>2. ScanInv => TrackedAgrees
  BY ScanDone
<1> QED BY <1>1, <1>2, ScanInit, TypeCorrect, PTL DEF Spec

\* ... and its report names every enabled safety-critical feature that is FAILED.
THEOREM ReportsEveryFailure ==
  ASSUME Monitored = {}
  PROVE  Spec => []ReportComplete
<1>1. TypeOK /\ ScanInv /\ [Next]_managerVars => ScanInv'
  BY ScanStep
<1>2. ScanInv => ReportComplete
  BY ScanDone
<1> QED BY <1>1, <1>2, ScanInit, TypeCorrect, PTL DEF Spec

\* A health check changes no feature's state and no feature's list of failed
\* dependencies: "Propagate health changes" reaches nobody.
ChecksOnlyObserve == [][CheckStep => UNCHANGED <<state, failedDeps>>]_managerVars

\* So it is with every feature whose check_health answers with its state.
THEOREM NothingIsPropagated ==
  ASSUME Monitored = {}
  PROVE  Spec => ChecksOnlyObserve
<1>1. TypeOK /\ ScanInv /\ [Next]_managerVars => ScanInv'
  BY ScanStep
<1>2. TypeOK /\ ScanInv /\ [Next]_managerVars
        => [CheckStep => UNCHANGED <<state, failedDeps>>]_managerVars
  BY ScanCheck
<1> QED BY <1>1, <1>2, ScanInit, TypeCorrect, PTL DEF Spec, ChecksOnlyObserve
-----------------------------------------------------------------------------
(* The dependency validation of request_feature_toggle, which a feature    *)
(* with a shutdown of its own undergoes before it is disabled.             *)

\* What the validation found holds until shutdown() has returned, but for the
\* dependents enabled meanwhile.
StopInv ==
  \A c \in Caller : call[c].pc = "stopping" =>
    /\ call[c].f \in Integrated
    /\ \A g \in Dependents(call[c].f) : IsCritical(g) /\ enabled[g] => g \in late[call[c].f]

\* A caller is stopping a feature after its step because it has just asked to;
\* the others stay where they are.
LEMMA CallMoves ==
  ASSUME TypeOK, NEW c \in Caller, Requests(c) \/ Resumed(c)
  PROVE  /\ \A d \in Caller \ {c} : call'[d] = call[d]
         /\ call'[c].pc = "stopping" =>
              \E f \in Integrated : call'[c].f = f /\ BlockedBy(f) = {} /\ enabled' = enabled
<1> DEFINE Kept == \A d \in Caller \ {c} : call'[d] = call[d]
<1>1. ASSUME NEW pc, NEW f, NEW n, Suspend(c, pc, f, n)
      PROVE  Kept /\ call'[c].pc = pc /\ call'[c].f = f
  BY <1>1 DEF Suspend, TypeOK
<1>2. ASSUME Return(c) PROVE Kept /\ call'[c].pc # "stopping"
  BY <1>2 DEF Return, Idle, TypeOK
<1>3. ASSUME NEW f, NEW n, BeginAttempt(c, f, n) PROVE Kept /\ call'[c].pc # "stopping"
  BY <1>1, <1>3 DEF BeginAttempt
<1>4. CASE Resumed(c)
  <2>1. Kept /\ call'[c].pc # "stopping"
    BY <1>1, <1>2, <1>3, <1>4
       DEF Resumed, StartReturns, StartRaises, Verified, VerifyFails, StopReturns, StopRaises, ToggleRaises,
           RestartReturns, AttemptRaises, Settled, Unsettled, BackoffEnds
  <2> QED BY <2>1
<1>5. ASSUME NEW f \in Feature, Recover(c, f) PROVE Kept /\ call'[c].pc # "stopping"
  BY <1>3, <1>5 DEF Recover
<1>6. ASSUME NEW f \in Feature, NEW a \in BOOLEAN, Enable(c, f, a)
      PROVE  Kept /\ call'[c].pc # "stopping"
  BY <1>1, <1>6 DEF Enable
<1>7. ASSUME NEW f \in Feature, NEW a \in BOOLEAN, Disable(c, f, a)
      PROVE  /\ Kept
             /\ call'[c].pc = "stopping" =>
                  f \in Integrated /\ call'[c].f = f /\ BlockedBy(f) = {} /\ enabled' = enabled
  <2>1. CASE f \in Integrated
    BY <1>1, <1>7, <2>1 DEF Disable
  <2>2. CASE f \notin Integrated
    BY <1>7, <2>2 DEF Disable, Idle
  <2> QED BY <2>1, <2>2
<1> QED BY <1>4, <1>5, <1>6, <1>7 DEF Requests

\* The steps of the lifespan and of a check leave the calls alone.
LEMMA OthersKeepCalls ==
  ASSUME CheckStep \/ Lifespan \/ BeginCheck \/ EndCheck \/ Exited
  PROVE  call' = call
<1>1. CASE CheckStep
  BY <1>1 DEF CheckStep, ListChanges, Propagate, AwaitProbe, SkipDisabled, ProbeAnswers, Notify
<1>2. CASE Lifespan
  BY <1>2 DEF Lifespan, Started, BeginShutdown, StartUp, ShutDown
<1>3. CASE BeginCheck \/ EndCheck \/ Exited
  BY <1>3 DEF BeginCheck, EndCheck, Exited, managerVars
<1> QED BY <1>1, <1>2, <1>3

\* The history has, after a step, every dependent of a feature still stopping
\* that is enabled: it was in it before, or the step enabled it.
LEMMA HistoryKeeps ==
  ASSUME TypeOK, StopInv, Record, NEW d \in Caller, call'[d] = call[d], call[d].pc = "stopping"
  PROVE  /\ call'[d].f \in Integrated
         /\ \A g \in Dependents(call'[d].f) : IsCritical(g) /\ enabled'[g] => g \in late'[call'[d].f]
<1> DEFINE f == call[d].f
<1>1. f \in Integrated /\ f \in Feature
  BY ManagerAssumption DEF StopInv
<1>2. StopAwaited(f)'
  BY DEF StopAwaited, Idle
<1>3. late'[f] = late[f] \union EnabledNow(f)
  BY <1>1, <1>2 DEF Record
<1>4. ASSUME NEW g \in Dependents(f), IsCritical(g), enabled'[g] PROVE g \in late'[f]
  BY <1>3, <1>4 DEF StopInv, EnabledNow
<1> QED BY <1>1, <1>4

LEMMA StopStep ==
  ASSUME TypeOK, StopInv, [HistoryNext]_historyVars
  PROVE  StopInv'
<1> SUFFICES ASSUME NEW d \in Caller, call'[d].pc = "stopping"
             PROVE  /\ call'[d].f \in Integrated
                    /\ \A g \in Dependents(call'[d].f) : IsCritical(g) /\ enabled'[g] => g \in late'[call'[d].f]
  BY DEF StopInv, Dependents, IsCritical
<1>1. ASSUME NEW c \in Caller, Requests(c) \/ Resumed(c), Record
      PROVE  /\ call'[d].f \in Integrated
             /\ \A g \in Dependents(call'[d].f) : IsCritical(g) /\ enabled'[g] => g \in late'[call'[d].f]
  <2>1. CASE d = c
    BY <1>1, <2>1, CallMoves DEF BlockedBy
  <2>2. CASE d # c
    BY <1>1, <2>2, CallMoves, HistoryKeeps
  <2> QED BY <2>1, <2>2
<1>2. CASE (CheckStep \/ Lifespan \/ BeginCheck \/ EndCheck \/ Exited) /\ Record
  BY <1>2, OthersKeepCalls, HistoryKeeps
<1>3. CASE UNCHANGED historyVars
  BY <1>3 DEF historyVars, managerVars, StopInv
<1> QED BY <1>1, <1>2, <1>3 DEF HistoryNext, Next, ManagerStep

\* The step that disables a feature finds no safety-critical dependent enabled
\* but those of the history.
LEMMA DisableStep ==
  ASSUME TypeOK, StopInv, [Next]_managerVars, phase = "running",
         NEW f \in Feature, enabled[f], ~enabled'[f]
  PROVE  \A g \in Dependents(f) : IsCritical(g) /\ enabled'[g] => g \in late[f]
<1>1. Dependents(f) \subseteq Feature
  BY DEF Dependents
<1>2. ASSUME NEW c \in Caller, Resumed(c)
      PROVE  \A g \in Dependents(f) : IsCritical(g) /\ enabled'[g] => g \in late[f]
  <2>1. StopReturns(c) /\ f = call[c].f
    BY <1>2 DEF Resumed, StartReturns, StartRaises, Verified, VerifyFails, StopReturns, StopRaises,
                ToggleRaises, RestartReturns, AttemptRaises, Settled, Unsettled, BackoffEnds, BeginAttempt,
                featureVars, TypeOK
  <2> QED BY <1>1, <2>1 DEF StopReturns, Resumes, StopInv, TypeOK
<1>3. ASSUME NEW c \in Caller, Requests(c)
      PROVE  \A g \in Dependents(f) : IsCritical(g) /\ enabled'[g] => g \in late[f]
  <2>1. PICK a \in BOOLEAN : Disable(c, f, a)
    BY <1>3 DEF Requests, Recover, BeginAttempt, Enable, Disable, TypeOK
  <2> QED BY <1>1, <2>1 DEF Disable, BlockedBy, TypeOK
<1>4. CASE Lifespan
  BY <1>4 DEF Lifespan, Started, BeginShutdown, StartUp, ShutDown, featureVars
<1>5. CASE CheckStep \/ BeginCheck \/ EndCheck \/ Exited \/ UNCHANGED managerVars
  BY <1>5 DEF CheckStep, ListChanges, Propagate, AwaitProbe, SkipDisabled, ProbeAnswers, Notify,
              BeginCheck, EndCheck, Exited, featureVars, managerVars
<1> QED BY <1>2, <1>3, <1>4, <1>5 DEF Next, ManagerStep

LEMMA StopStart == Init => StopInv
BY DEF Init, StopInv, Idle

\* While requests are served no feature is disabled under an enabled
\* safety-critical dependent, save one enabled after the validation and before
\* the shutdown has returned: any number of callers.
THEOREM DependentsAreKept == HistorySpec => DisableKeepsDependents
<1>1. HistoryInit => TypeOK /\ StopInv
  <2>1. Init => TypeOK
    BY DEF Init, TypeOK, FeatureState
  <2> QED BY <2>1, StopStart DEF HistoryInit
<1>2. [HistoryNext]_historyVars => [Next]_managerVars
  BY DEF HistoryNext, historyVars
<1>3. TypeOK /\ StopInv /\ [HistoryNext]_historyVars => (TypeOK /\ StopInv)'
  BY <1>2, TypeInductive, StopStep
<1>4. TypeOK /\ StopInv /\ [HistoryNext]_historyVars
        => [\A f \in Feature : phase = "running" /\ enabled[f] /\ ~enabled'[f] =>
              \A g \in Dependents(f) : IsCritical(g) /\ enabled'[g] => g \in late[f]]_historyVars
  BY <1>2, DisableStep
<1> QED BY <1>1, <1>3, <1>4, PTL DEF HistorySpec, DisableKeepsDependents
-----------------------------------------------------------------------------
(* How long a toggle or a recovery can take.                               *)

\* The most resumptions a coroutine that waits at pc, in attempt n, still has:
\* each attempt left takes three.
Rank(pc, n) ==
  CASE pc = "starting" -> 2
    [] pc \in {"verifying", "stopping"} -> 1
    [] pc = "restarting" -> 3 * (MaxAttempts - n) + 3
    [] pc = "settling" -> 3 * (MaxAttempts - n) + 2
    [] OTHER -> 3 * (MaxAttempts - n) + 1

StepsLeft(k) == IF k = Idle THEN 0 ELSE Rank(k.pc, k.attempt)

\* A suspended call that goes on has fewer resumptions left than before,
\* whatever other calls, checks and probes do in between: no path through the
\* retry loop goes round.
CallsWindDown ==
  [][\A c \in Caller : call[c] # Idle /\ call'[c] # call[c] =>
       StepsLeft(call'[c]) < StepsLeft(call[c])]_managerVars

\* No call ever has more left than a recovery that begins its first attempt.
CallsBounded == \A c \in Caller : StepsLeft(call[c]) \in 0..(3 * MaxAttempts)

\* A suspended call has a resumption left.
LEMMA RankPositive ==
  ASSUME NEW k \in Call
  PROVE  StepsLeft(k) \in Nat \ {0} /\ k.attempt \in 0..MaxAttempts /\ k # Idle
<1>1. MaxAttempts \in Nat \ {0}
  BY ManagerAssumption
<1>2. k.attempt \in 0..MaxAttempts /\ k # Idle
  BY <1>1 DEF Call, Waiting, Idle
<1> QED BY <1>1, <1>2 DEF StepsLeft, Rank

\* The rank of what Suspend stores, and of what Resumes finds.
LEMMA SuspendRank ==
  ASSUME TypeOK, NEW c \in Caller, NEW pc \in Waiting \union {"backoff"}, NEW f, NEW n, Suspend(c, pc, f, n)
  PROVE  StepsLeft(call'[c]) = Rank(pc, n)
<1> DEFINE k == [pc |-> pc, f |-> f, attempt |-> n]
<1>1. call'[c] = k
  BY DEF Suspend, TypeOK
<1>2. k # Idle /\ k.pc = pc /\ k.attempt = n
  BY DEF Idle, Waiting
<1> HIDE DEF k
<1> QED BY <1>1, <1>2 DEF StepsLeft

LEMMA ResumedRank ==
  ASSUME NEW c \in Caller, NEW pc, Resumes(c, pc)
  PROVE  StepsLeft(call[c]) = Rank(pc, call[c].attempt)
BY DEF Resumes, StepsLeft

\* An attempt begins with a start, or for a generic feature after it.
LEMMA AttemptRank ==
  ASSUME TypeOK, NEW c \in Caller, NEW f, NEW n, BeginAttempt(c, f, n)
  PROVE  StepsLeft(call'[c]) \in {Rank("restarting", n), Rank("settling", n)}
BY SuspendRank DEF BeginAttempt, Waiting

\* Every resumption of a call lowers its rank.
LEMMA ResumedWinds ==
  ASSUME TypeOK, NEW c \in Caller, Resumed(c)
  PROVE  StepsLeft(call'[c]) \in Nat /\ StepsLeft(call'[c]) < StepsLeft(call[c])
<1> DEFINE n == call[c].attempt
           Lower == StepsLeft(call'[c]) \in Nat /\ StepsLeft(call'[c]) < StepsLeft(call[c])
<1>1. call[c] \in Call
  BY DEF TypeOK, Resumed, StartReturns, StartRaises, Verified, VerifyFails, StopReturns,
         StopRaises, RestartReturns, AttemptRaises, Settled, Unsettled, BackoffEnds, Resumes
<1>2. MaxAttempts \in Nat \ {0} /\ n \in 0..MaxAttempts /\ StepsLeft(call[c]) \in Nat \ {0}
  BY <1>1, ManagerAssumption, RankPositive
<1>3. ASSUME Return(c) PROVE Lower
  <2>1. call'[c] = Idle
    BY <1>3 DEF Return, TypeOK
  <2> QED BY <1>2, <2>1 DEF StepsLeft
<1>4. CASE StartReturns(c)
  <2>1. StepsLeft(call[c]) = Rank("starting", n) /\ StepsLeft(call'[c]) = Rank("verifying", 0)
    BY <1>4, ResumedRank, SuspendRank DEF StartReturns, Waiting
  <2> QED BY <2>1 DEF Rank
<1>5. CASE StartRaises(c) \/ Verified(c) \/ VerifyFails(c) \/ StopReturns(c) \/ StopRaises(c) \/ Settled(c)
  BY <1>3, <1>5 DEF StartRaises, Verified, VerifyFails, StopReturns, StopRaises, Settled, ToggleRaises
<1>6. CASE RestartReturns(c)
  <2>1. StepsLeft(call[c]) = Rank("restarting", n) /\ StepsLeft(call'[c]) = Rank("settling", n)
    BY <1>6, ResumedRank, SuspendRank DEF RestartReturns, Waiting
  <2> QED BY <1>2, <2>1 DEF Rank
<1>7. CASE AttemptRaises(c)
  <2>1. StepsLeft(call[c]) \in {Rank("restarting", n), Rank("settling", n)}
    BY <1>7, ResumedRank DEF AttemptRaises
  <2>2. CASE Suspend(c, "backoff", call[c].f, n)
    <3>1. StepsLeft(call'[c]) = Rank("backoff", n)
      BY <2>2, SuspendRank
    <3> QED BY <1>2, <2>1, <3>1 DEF Rank
  <2> QED BY <1>3, <1>7, <2>2 DEF AttemptRaises
<1>8. CASE Unsettled(c)
  <2>1. StepsLeft(call[c]) = Rank("settling", n)
    BY <1>8, ResumedRank DEF Unsettled
  <2>2. CASE ~LastAttempt(c) /\ BeginAttempt(c, call[c].f, n + 1)
    <3>1. n + 1 \in 0..MaxAttempts
      BY <1>2, <2>2 DEF LastAttempt
    <3>2. StepsLeft(call'[c]) \in {Rank("restarting", n + 1), Rank("settling", n + 1)}
      BY <2>2, AttemptRank
    <3> QED BY <1>2, <2>1, <3>1, <3>2 DEF Rank
  <2> QED BY <1>3, <1>8, <2>2 DEF Unsettled
<1>9. CASE BackoffEnds(c)
  <2>1. StepsLeft(call[c]) = Rank("backoff", n)
    BY <1>9, ResumedRank DEF BackoffEnds
  <2>2. n + 1 \in 0..MaxAttempts
    BY <1>9, ResumedCall DEF BackoffEnds
  <2>3. StepsLeft(call'[c]) \in {Rank("restarting", n + 1), Rank("settling", n + 1)}
    BY <1>9, AttemptRank DEF BackoffEnds
  <2> QED BY <1>2, <2>1, <2>2, <2>3 DEF Rank
<1> QED BY <1>4, <1>5, <1>6, <1>7, <1>8, <1>9 DEF Resumed

\* A request is served at once, or begins with a rank within the bound.
LEMMA RequestRank ==
  ASSUME TypeOK, NEW c \in Caller, Requests(c)
  PROVE  call[c] = Idle /\ (call'[c] = call[c] \/ StepsLeft(call'[c]) \in 0..(3 * MaxAttempts))
<1>1. MaxAttempts \in Nat \ {0}
  BY ManagerAssumption
<1>2. ASSUME NEW f \in Feature, Recover(c, f)
      PROVE  call[c] = Idle /\ StepsLeft(call'[c]) \in 0..(3 * MaxAttempts)
  <2>1. StepsLeft(call'[c]) \in {Rank("restarting", 1), Rank("settling", 1)}
    BY <1>2, AttemptRank DEF Recover
  <2> QED BY <1>1, <1>2, <2>1 DEF Rank, Recover
<1>3. ASSUME NEW f \in Feature, NEW a \in BOOLEAN, Enable(c, f, a)
      PROVE  call[c] = Idle /\ StepsLeft(call'[c]) \in 0..(3 * MaxAttempts)
  <2>1. StepsLeft(call'[c]) \in {Rank("starting", 0), Rank("verifying", 0)}
    BY <1>3, SuspendRank DEF Enable, Waiting
  <2> QED BY <1>1, <1>3, <2>1 DEF Rank, Enable
<1>4. ASSUME NEW f \in Feature, NEW a \in BOOLEAN, Disable(c, f, a)
      PROVE  /\ call[c] = Idle
             /\ call' = call \/ StepsLeft(call'[c]) \in 0..(3 * MaxAttempts)
  <2>1. call' = call \/ StepsLeft(call'[c]) = Rank("stopping", 0)
    BY <1>4, SuspendRank DEF Disable, Waiting
  <2> QED BY <1>1, <1>4, <2>1 DEF Rank, Disable
<1> QED BY <1>2, <1>3, <1>4 DEF Requests

\* Every suspended call goes towards its end with every step of its own, and
\* no other step moves it.
LEMMA WindsStep ==
  ASSUME TypeOK, CallsBounded, [Next]_managerVars
  PROVE  /\ CallsBounded'
         /\ \A d \in Caller : call[d] # Idle /\ call'[d] # call[d] =>
              StepsLeft(call'[d]) < StepsLeft(call[d])
<1>1. ASSUME NEW c \in Caller, Requests(c) \/ Resumed(c), NEW d \in Caller
      PROVE  /\ StepsLeft(call'[d]) \in 0..(3 * MaxAttempts)
             /\ call[d] # Idle /\ call'[d] # call[d] => StepsLeft(call'[d]) < StepsLeft(call[d])
  <2>1. StepsLeft(call[d]) \in 0..(3 * MaxAttempts) /\ MaxAttempts \in Nat
    BY ManagerAssumption DEF CallsBounded
  <2>2. CASE d # c
    BY <1>1, <2>1, <2>2, CallMoves
  <2>3. CASE d = c /\ Requests(c)
    BY <2>1, <2>3, RequestRank
  <2>4. CASE d = c /\ Resumed(c)
    BY <2>1, <2>4, ResumedWinds
  <2> QED BY <1>1, <2>2, <2>3, <2>4
<1>2. CASE CheckStep \/ Lifespan \/ BeginCheck \/ EndCheck \/ Exited \/ UNCHANGED managerVars
  <2>1. call' = call
    BY <1>2, OthersKeepCalls DEF managerVars
  <2> QED BY <2>1 DEF CallsBounded
<1> QED BY <1>1, <1>2 DEF Next, ManagerStep, CallsBounded

\* A toggle returns within two resumptions and a recovery within three for
\* each attempt, with any number of callers: what fairness has to add for
\* CallsReturn is that what a feature was asked for is answered.
THEOREM EveryCallEnds == Spec => CallsWindDown /\ []CallsBounded
<1>1. Init => CallsBounded
  BY ManagerAssumption DEF Init, CallsBounded, StepsLeft
<1>2. TypeOK /\ CallsBounded /\ [Next]_managerVars => CallsBounded'
  BY WindsStep
<1>3. TypeOK /\ CallsBounded /\ [Next]_managerVars
        => [\A c \in Caller : call[c] # Idle /\ call'[c] # call[c] =>
              StepsLeft(call'[c]) < StepsLeft(call[c])]_managerVars
  BY WindsStep
<1> QED BY <1>1, <1>2, <1>3, TypeCorrect, PTL DEF Spec, CallsWindDown
=============================================================================
