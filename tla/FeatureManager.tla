--------------------------- MODULE FeatureManager ---------------------------
(***************************************************************************)
(* backend/services/feature_manager.py: the life cycle of the features,    *)
(* with every coroutine of the manager split at the awaits where it can be *)
(* suspended.  Callers (requests, tests, scripts) toggle and recover       *)
(* features; at most one system health check runs at a time.               *)
(***************************************************************************)
EXTENDS FeatureStates, Naturals, Sequences, FiniteSets

CONSTANTS
  Registered,   \* the names in feature_flags.yaml, in the order of the file
  Class,        \* their safety classification
  DependsOn,    \* depends_on
  DefaultOn,    \* enabled_by_default
  Mandatory,    \* features marked mandatory
  Integrated,   \* features whose class has a startup and shutdown of its own, not GenericFeature's
  Monitored,    \* features whose class overrides check_health with a real probe
  Answers,      \* the states their probes answer with: any of FeatureState, unless bounded
  Caller,       \* concurrent users of the manager
  MaxAttempts   \* max_attempts of attempt_feature_recovery

Feature == {Registered[i] : i \in 1..Len(Registered)}

ASSUME ManagerAssumption ==
  /\ Registered \in Seq(Feature)
  /\ Class \in [Feature -> SafetyClassification]
  /\ DependsOn \in [Feature -> SUBSET Feature]
  /\ \A f \in Feature : f \notin DependsOn[f]
  /\ DefaultOn \subseteq Feature /\ Mandatory \subseteq Feature
  /\ Integrated \subseteq Feature /\ Monitored \subseteq Integrated
  /\ Answers \subseteq FeatureState
  /\ MaxAttempts \in Nat \ {0}

VARIABLES
  phase,       \* where the process is in its lifespan
  visited,     \* features startup() or shutdown() is done with
  enabled,     \* Feature.enabled
  state,       \* Feature._state
  tracked,     \* FeatureManager._feature_states
  failedDeps,  \* Feature._failed_dependencies
  call,        \* for each caller, the coroutine it is suspended in
  check        \* the running check_system_health

managerVars == <<phase, visited, enabled, state, tracked, failedDeps, call, check>>
featureVars == <<enabled, state, tracked, failedDeps>>

IsCritical(f) == Class[f] \in SafetyCritical
Dependents(f) == {g \in Feature : f \in DependsOn[g]}
PositionCritical == {f \in Feature : Class[f] = "position_critical"}

\* `feature.state = to` for every feature of F.
Assign(F, to) == [f \in Feature |-> IF f \in F THEN Assigned(Class[f], state[f], to) ELSE state[f]]

Idle == [pc |-> "idle"]
Waiting == {"starting", "verifying", "stopping", "restarting", "settling"}
Call == [pc : Waiting, f : Feature, attempt : 0..MaxAttempts]
          \union [pc : {"backoff"}, f : Feature, attempt : 0..(MaxAttempts - 1)]

NoCheck == [pc |-> "idle", awaiting |-> FALSE, todo |-> <<>>, seen |-> <<>>, changes |-> <<>>, stack |-> <<>>]

(***************************************************************************)
(* asyncio runs one coroutine until it awaits something unfinished.  The   *)
(* health check is written here as several steps; between those that do    *)
(* not await a probe nothing else runs.                                    *)
(***************************************************************************)
LoopFree == check.pc = "idle" \/ check.awaiting
Running == phase = "running" /\ LoopFree

Init ==
  /\ phase = "starting"
  /\ visited = {}
  \* apply_runtime_config: environment and settings may enable anything, but
  \* disable neither a mandatory nor a safety-critical feature.
  /\ enabled \in {e \in [Feature -> BOOLEAN] :
       \A f \in DefaultOn : IsCritical(f) \/ f \in Mandatory => e[f]}
  /\ state = [f \in Feature |-> "stopped"]
  /\ tracked = [f \in Feature |-> "stopped"]
  /\ failedDeps = [f \in Feature |-> {}]
  /\ call = [c \in Caller |-> Idle]
  /\ check = NoCheck
-----------------------------------------------------------------------------
(* startup() and shutdown(), run by the application's lifespan.            *)

StartUp(f) ==
  /\ phase = "starting" /\ f \notin visited /\ DependsOn[f] \subseteq visited
  /\ visited' = visited \union {f}
  /\ \/ ~enabled[f] /\ UNCHANGED featureVars
     \/ /\ enabled[f] /\ f \notin Integrated
        /\ state' = [state EXCEPT ![f] = "healthy"]
        /\ tracked' = [tracked EXCEPT ![f] = "healthy"]
        /\ UNCHANGED <<enabled, failedDeps>>
     \/ /\ enabled[f] /\ f \in Integrated      \* startup() returns; no integration sets its state
        /\ tracked' = [tracked EXCEPT ![f] = state[f]]
        /\ UNCHANGED <<enabled, state, failedDeps>>
     \/ /\ enabled[f] /\ f \in Integrated      \* startup() raises
        /\ state' = Assign({f}, "failed")
        /\ tracked' = [tracked EXCEPT ![f] = "failed"]
        /\ enabled' = [enabled EXCEPT ![f] = FALSE]
        /\ UNCHANGED failedDeps
  /\ UNCHANGED <<phase, call, check>>

Started ==
  /\ phase = "starting" /\ visited = Feature
  /\ phase' = "running" /\ visited' = {}
  /\ UNCHANGED <<featureVars, call, check>>

\* The server drains its requests before the lifespan shuts the features down.
BeginShutdown ==
  /\ Running /\ \A c \in Caller : call[c] = Idle
  /\ phase' = "stopping"
  /\ UNCHANGED <<visited, featureVars, call, check>>

ShutDown(f) ==
  /\ phase = "stopping" /\ LoopFree /\ f \notin visited /\ Dependents(f) \subseteq visited
  /\ visited' = visited \union {f}
  /\ state' = IF enabled[f] /\ f \notin Integrated THEN [state EXCEPT ![f] = "stopped"] ELSE state
  /\ UNCHANGED <<phase, enabled, tracked, failedDeps, call, check>>
-----------------------------------------------------------------------------
(* request_feature_toggle                                                  *)

Suspend(c, pc, f, n) == call' = [call EXCEPT ![c] = [pc |-> pc, f |-> f, attempt |-> n]]
Return(c) == call' = [call EXCEPT ![c] = Idle]

\* `authorized`: override_safety is set and the authorization code is valid for the user.
Enable(c, f, authorized) ==
  /\ Running /\ call[c] = Idle
  /\ ~enabled[f] /\ (IsCritical(f) => authorized)
  /\ enabled' = [enabled EXCEPT ![f] = TRUE]
  /\ IF f \in Integrated
     THEN state' = Assign({f}, "initializing") /\ Suspend(c, "starting", f, 0)
     ELSE state' = [state EXCEPT ![f] = "healthy"] /\ Suspend(c, "verifying", f, 0)
  /\ UNCHANGED <<phase, visited, tracked, failedDeps, check>>

\* Mutant: only "critical" dependents count, not every safety-critical one.
BlockedBy_CriticalOnly(f) == {g \in Dependents(f) : Class[g] = "critical" /\ enabled[g]}

\* The enabled safety-critical features that would lose their dependency.
BlockedBy(f) == {g \in Dependents(f) : IsCritical(g) /\ enabled[g]}

\* Mutant: the feature's dependencies are told instead of its dependents.
Informed_Forward(f) == {g \in DependsOn[f] : enabled[g]}

\* The features _propagate_shutdown_to_dependents tells.
Informed(f) == {g \in Dependents(f) : enabled[g]}

Disable(c, f, authorized) ==
  /\ Running /\ call[c] = Idle
  /\ enabled[f] /\ (IsCritical(f) => authorized)
  /\ BlockedBy(f) = {}
  /\ failedDeps' = [g \in Feature |->
       IF g \in Informed(f) THEN failedDeps[g] \union {f} ELSE failedDeps[g]]
  /\ IF f \in Integrated
     THEN /\ state' = Assign({f}, "safe_shutdown") /\ Suspend(c, "stopping", f, 0)
          /\ UNCHANGED enabled
     ELSE /\ state' = [state EXCEPT ![f] = "stopped"]
          /\ enabled' = [enabled EXCEPT ![f] = FALSE] /\ UNCHANGED call
  /\ UNCHANGED <<phase, visited, tracked, check>>

Resumes(c, pc) == Running /\ call[c] # Idle /\ call[c].pc = pc

\* The `except` branch of request_feature_toggle.
ToggleRaises(c) ==
  /\ state' = Assign({call[c].f}, "failed") /\ Return(c)
  /\ UNCHANGED <<phase, visited, enabled, tracked, failedDeps, check>>

StartReturns(c) ==
  /\ Resumes(c, "starting")
  /\ Suspend(c, "verifying", call[c].f, 0)
  /\ UNCHANGED <<phase, visited, featureVars, check>>

StartRaises(c) == Resumes(c, "starting") /\ ToggleRaises(c)

\* What check_health may answer: the state itself, unless the class probes its device.
Probes(f) == IF f \in Monitored THEN Answers \union {"raises"} ELSE {state[f]}

Verified(c) ==
  /\ Resumes(c, "verifying")
  /\ Probes(call[c].f) \intersect {"healthy", "initializing"} # {}
  /\ Return(c)
  /\ UNCHANGED <<phase, visited, featureVars, check>>

VerifyFails(c) ==
  /\ Resumes(c, "verifying")
  /\ Probes(call[c].f) \ {"healthy", "initializing"} # {}
  /\ ToggleRaises(c)

StopReturns(c) ==
  /\ Resumes(c, "stopping")
  /\ enabled' = [enabled EXCEPT ![call[c].f] = FALSE]
  /\ state' = Assign({call[c].f}, "stopped")
  /\ Return(c)
  /\ UNCHANGED <<phase, visited, tracked, failedDeps, check>>

StopRaises(c) == Resumes(c, "stopping") /\ ToggleRaises(c)
-----------------------------------------------------------------------------
(* attempt_feature_recovery; bulk_feature_recovery is a caller that makes  *)
(* these calls one after the other.                                        *)

BeginAttempt(c, f, n) ==
  LET reset == Assign({f}, "initializing")
      recovered == {d \in failedDeps[f] : reset[d] = "healthy"}
  IN /\ failedDeps' = [failedDeps EXCEPT ![f] = @ \ recovered]
     /\ IF f \in Integrated
        THEN state' = reset /\ Suspend(c, "restarting", f, n)
        ELSE state' = [state EXCEPT ![f] = "healthy"] /\ Suspend(c, "settling", f, n)
     /\ UNCHANGED <<phase, visited, enabled, tracked, check>>

Recover(c, f) ==
  /\ Running /\ call[c] = Idle
  /\ state[f] \in {"failed", "degraded"}
  /\ BeginAttempt(c, f, 1)

RestartReturns(c) ==
  /\ Resumes(c, "restarting")
  /\ Suspend(c, "settling", call[c].f, call[c].attempt)
  /\ UNCHANGED <<phase, visited, featureVars, check>>

\* Mutant: one attempt too many.
LastAttempt_OffByOne(c) == call[c].attempt > MaxAttempts

LastAttempt(c) == call[c].attempt = MaxAttempts

\* startup() or check_health() raised during an attempt.
AttemptRaises(c) ==
  /\ \/ Resumes(c, "restarting")
     \/ Resumes(c, "settling") /\ "raises" \in Probes(call[c].f)
  /\ IF LastAttempt(c)
     THEN state' = Assign({call[c].f}, "failed") /\ Return(c)
     ELSE UNCHANGED state /\ Suspend(c, "backoff", call[c].f, call[c].attempt)
  /\ UNCHANGED <<phase, visited, enabled, tracked, failedDeps, check>>

Settled(c) ==
  /\ Resumes(c, "settling") /\ "healthy" \in Probes(call[c].f)
  /\ enabled' = [enabled EXCEPT ![call[c].f] = TRUE]
  /\ Return(c)
  /\ UNCHANGED <<phase, visited, state, tracked, failedDeps, check>>

\* Not healthy but nothing raised: the loop goes on at once, or ends.
Unsettled(c) ==
  /\ Resumes(c, "settling") /\ Probes(call[c].f) \ {"healthy", "raises"} # {}
  /\ \/ ~LastAttempt(c) /\ BeginAttempt(c, call[c].f, call[c].attempt + 1)
     \/ /\ LastAttempt(c) /\ Return(c)
        /\ UNCHANGED <<phase, visited, featureVars, check>>

\* Mutant: the attempt counter is not advanced after a wait.
BackoffEnds_SameAttempt(c) == Resumes(c, "backoff") /\ BeginAttempt(c, call[c].f, call[c].attempt)

BackoffEnds(c) == Resumes(c, "backoff") /\ BeginAttempt(c, call[c].f, call[c].attempt + 1)
-----------------------------------------------------------------------------
(* check_system_health                                                     *)

\* A second check meanwhile returns "check_in_progress" and changes nothing.
BeginCheck ==
  /\ phase # "starting" /\ check = NoCheck
  /\ check' = [NoCheck EXCEPT !.pc = "probing", !.todo = Registered, !.seen = [f \in Feature |-> "stopped"]]
  /\ UNCHANGED <<phase, visited, featureVars, call>>

\* The loop of _check_all_feature_health is at feature f.
Probing(f) == check.pc = "probing" /\ check.todo # <<>> /\ f = Head(check.todo)

\* A probe that suspends: the event loop is free until it answers.
AwaitProbe(f) ==
  /\ Probing(f) /\ ~check.awaiting /\ enabled[f] /\ f \in Monitored
  /\ check' = [check EXCEPT !.awaiting = TRUE]
  /\ UNCHANGED <<phase, visited, featureVars, call>>

SkipDisabled(f) ==
  /\ Probing(f) /\ ~check.awaiting /\ ~enabled[f]
  /\ check' = [check EXCEPT !.todo = Tail(@)]
  /\ UNCHANGED <<phase, visited, featureVars, call>>

\* Mutant: only failures are tracked.
Track_FailuresOnly(f, health) == IF health = "failed" THEN [tracked EXCEPT ![f] = health] ELSE tracked

Track(f, health) == [tracked EXCEPT ![f] = health]

\* check_health answered: the tracked state and, through the setter, the
\* feature's own follow it.  An exception counts as "failed".
ProbeAnswers(f) ==
  /\ Probing(f)
  /\ check.awaiting \/ (enabled[f] /\ f \notin Monitored)
  /\ \E answer \in Probes(f) :
       LET health == IF answer = "raises" THEN "failed" ELSE answer
       IN /\ check' = [check EXCEPT !.awaiting = FALSE, !.todo = Tail(@), !.seen[f] = health]
          /\ tracked' = Track(f, health)
          /\ state' = IF answer = "raises" \/ health # tracked[f] THEN Assign({f}, health) ELSE state
  /\ UNCHANGED <<phase, visited, enabled, failedDeps, call>>

\* Enabled features were just tracked as seen, so what differs here is a
\* disabled feature whose tracked state startup() or an earlier check left.
ListChanges ==
  /\ check.pc = "probing" /\ check.todo = <<>>
  /\ check' = [check EXCEPT !.pc = "propagating", !.changes = [i \in 1..Len(Registered) |->
       [f |-> Registered[i], new |-> check.seen[Registered[i]], old |-> tracked[Registered[i]]]]]
  /\ UNCHANGED <<phase, visited, featureVars, call>>

\* _propagate_health_changes, depth first: one frame per activation.
Frame(change) == [change |-> change, todo |-> Dependents(change.f)]
Frames(change) == IF change.new = change.old THEN <<>> ELSE <<Frame(change)>>

Propagate ==
  /\ check.pc = "propagating"
  /\ \/ /\ check.stack = <<>> /\ check.changes # <<>>
        /\ check' = [check EXCEPT !.changes = Tail(@), !.stack = Frames(Head(check.changes))]
     \/ /\ check.stack # <<>> /\ Head(check.stack).todo = {}
        /\ check' = [check EXCEPT !.stack = Tail(@)]
  /\ UNCHANGED <<phase, visited, featureVars, call>>

\* One dependent: on_dependency_failed or on_dependency_recovered, then its
\* tracked state, _handle_critical_failure, and its own dependents.
Notify(g) ==
  /\ check.pc = "propagating" /\ check.stack # <<>> /\ g \in Head(check.stack).todo
  /\ LET change == Head(check.stack).change
         rest == <<[Head(check.stack) EXCEPT !.todo = @ \ {g}]>> \o Tail(check.stack)
         down == {"failed", "degraded"}
         moved == IF change.new = "failed" /\ state[g] = "healthy" THEN "degraded" ELSE state[g]
         told == [state EXCEPT ![g] = moved]
         stopped == IF moved = "failed" /\ Class[g] = "critical"
                    THEN {p \in PositionCritical : enabled[p]} ELSE {}
     IN \/ ~enabled[g] /\ check' = [check EXCEPT !.stack = rest] /\ UNCHANGED featureVars
        \/ /\ enabled[g] /\ UNCHANGED enabled
           /\ failedDeps' = [failedDeps EXCEPT ![g] =
                CASE change.new \in down -> @ \union {change.f}
                  [] change.new = "healthy" /\ change.old \in down -> @ \ {change.f}
                  [] OTHER -> @]
           /\ IF moved = tracked[g]
              THEN /\ check' = [check EXCEPT !.stack = rest]
                   /\ state' = told /\ UNCHANGED tracked
              ELSE /\ check' = [check EXCEPT !.stack =
                        <<Frame([f |-> g, new |-> moved, old |-> tracked[g]])>> \o rest]
                   /\ state' = [f \in Feature |-> IF f \in stopped
                        THEN Assigned(Class[f], told[f], "safe_shutdown") ELSE told[f]]
                   /\ tracked' = [f \in Feature |-> CASE f = g -> moved
                        [] f \in stopped -> "safe_shutdown"
                        [] OTHER -> tracked[f]]
  /\ UNCHANGED <<phase, visited, call>>

\* Mutant: only the "critical" class is reported.
FailedCritical_CriticalOnly ==
  {f \in Feature : enabled[f] /\ Class[f] = "critical" /\ check.seen[f] = "failed"}

\* health_report["failed_critical"] of a finished check.
FailedCritical == {f \in Feature : enabled[f] /\ IsCritical(f) /\ check.seen[f] = "failed"}

CheckDone == check.pc = "propagating" /\ check.changes = <<>> /\ check.stack = <<>>

\* Mutant: _health_check_running is not reset.
EndCheck_KeepsFlag == CheckDone /\ UNCHANGED managerVars

EndCheck ==
  /\ CheckDone
  /\ check' = NoCheck
  /\ UNCHANGED <<phase, visited, featureVars, call>>
-----------------------------------------------------------------------------
Lifespan == Started \/ BeginShutdown \/ \E f \in Feature : StartUp(f) \/ ShutDown(f)

Requests(c) == \E f \in Feature :
  Recover(c, f) \/ \E authorized \in BOOLEAN : Enable(c, f, authorized) \/ Disable(c, f, authorized)

Resumed(c) ==
  \/ StartReturns(c) \/ StartRaises(c) \/ Verified(c) \/ VerifyFails(c) \/ StopReturns(c) \/ StopRaises(c)
  \/ RestartReturns(c) \/ AttemptRaises(c) \/ Settled(c) \/ Unsettled(c) \/ BackoffEnds(c)

CheckStep ==
  \/ ListChanges \/ Propagate
  \/ \E f \in Feature : AwaitProbe(f) \/ SkipDisabled(f) \/ ProbeAnswers(f) \/ Notify(f)

ManagerStep == Lifespan \/ CheckStep \/ \E c \in Caller : Requests(c) \/ Resumed(c)

\* After the lifespan has ended nothing is left to do.
Exited == phase = "stopping" /\ visited = Feature /\ UNCHANGED managerVars

Next == ManagerStep \/ BeginCheck \/ EndCheck \/ Exited

Spec == Init /\ [][Next]_managerVars
-----------------------------------------------------------------------------
(* Properties                                                              *)

Change == [f : Feature, new : FeatureState, old : FeatureState]
StackFrame == [change : Change, todo : SUBSET Feature]
ActiveCheck == [pc : {"probing", "propagating"}, awaiting : BOOLEAN, todo : Seq(Feature),
                seen : [Feature -> FeatureState], changes : Seq(Change), stack : Seq(StackFrame)]

\* The variables hold the values the code gives them.
TypeOK ==
  /\ phase \in {"starting", "running", "stopping"}
  /\ visited \subseteq Feature
  /\ enabled \in [Feature -> BOOLEAN]
  /\ state \in [Feature -> FeatureState]
  /\ tracked \in [Feature -> FeatureState]
  /\ failedDeps \in [Feature -> SUBSET Feature]
  /\ call \in [Caller -> Call \union {Idle}]
  /\ check \in ActiveCheck \union {NoCheck}

\* "Position-critical features should use SAFE_SHUTDOWN instead of FAILED": no
\* step of the manager takes one from HEALTHY or DEGRADED to FAILED.
PositionNeverFails ==
  [][\A f \in PositionCritical :
       state[f] \in {"healthy", "degraded"} => state'[f] # "failed"]_managerVars

\* A feature is only ever told of failures of its own dependencies.
OwnDependencies == \A f \in Feature : failedDeps[f] \subseteq DependsOn[f]

\* A finished check reports every enabled safety-critical feature that is FAILED.
ReportComplete ==
  CheckDone => \A f \in Feature : enabled[f] /\ IsCritical(f) /\ state[f] = "failed" => f \in FailedCritical

\* "Update the feature's internal state to match": after a check the manager
\* and the feature agree on the state of every enabled feature.
TrackedAgrees == CheckDone => \A f \in Feature : enabled[f] => tracked[f] = state[f]

(***************************************************************************)
(* The event loop runs ready coroutines first in first out, so one that    *)
(* can go on again and again does; that a feature's own startup, shutdown  *)
(* or probe returns or raises is assumed of the feature.                   *)
(***************************************************************************)
Fairness ==
  /\ WF_managerVars(CheckStep) /\ WF_managerVars(EndCheck)
  /\ \A c \in Caller : SF_managerVars(Resumed(c))

FairSpec == Spec /\ Fairness

\* Every toggle and every recovery returns to its caller: the retries are bounded.
CallsReturn == \A c \in Caller : call[c] # Idle ~> call[c] = Idle

\* A health check always ends and gives up _health_check_running, the
\* propagation through the dependency graph included.
CheckEnds == check # NoCheck ~> check = NoCheck
=============================================================================
