---------------------------- MODULE SafetyService ----------------------------
(***************************************************************************)
(* backend/services/safety_service.py composed with the feature manager it *)
(* watches: interlocks, the emergency stop, the safe state, the health     *)
(* monitoring loop and its watchdog.                                       *)
(***************************************************************************)
EXTENDS FeatureManager

CONSTANTS
  Condition,   \* conditions the system state can satisfy (vehicle_not_moving, ...)
  Interlock,   \* names interlocks are added under
  Default,     \* those _setup_default_interlocks adds
  Requires,    \* interlock_conditions
  MetAtFirst   \* the conditions an empty system state satisfies by its defaults

ASSUME SafetyAssumption ==
  /\ Default \subseteq Interlock /\ MetAtFirst \subseteq Condition
  /\ Requires \in [Interlock -> SUBSET Condition]

VARIABLES
  inSafeState,  \* _in_safe_state
  stopActive,   \* _emergency_stop_active
  installed,    \* the keys of _interlocks
  engaged,      \* the interlocks whose is_engaged is set
  met,          \* the conditions _system_state satisfies
  monitor,      \* _health_monitor_task: "none", or where its loop is
  watchdog,     \* _watchdog_task
  stopping,     \* the task stop_monitoring has cancelled and awaits
  overdue,      \* more than watchdog_timeout has passed since the last kick
  overtaken     \* history: the monitor was started while stop_monitoring awaited the watchdog

stateVars == <<inSafeState, stopActive>>
interlockVars == <<installed, engaged, met>>
taskVars == <<monitor, watchdog, stopping, overtaken>>
safetyVars == <<stateVars, interlockVars, taskVars, overdue>>
vars == <<managerVars, safetyVars>>
restOfManager == <<phase, visited, enabled, tracked, failedDeps, call>>

\* The service is used once the features have been started.
Serving == phase # "starting" /\ LoopFree

\* Mutant: the unmet conditions instead of the interlocks they belong to.
Violated_Conditions == UNION {Requires[i] : i \in installed} \ met

\* The interlocks whose conditions are not all met.
Violated == {i \in installed : ~(Requires[i] \subseteq met)}

SafetyInit ==
  /\ Init
  /\ inSafeState = FALSE /\ stopActive = FALSE
  /\ installed = Default /\ engaged = {} /\ met = MetAtFirst
  /\ monitor = "none" /\ watchdog = "none" /\ stopping = "none"
  /\ overdue = FALSE /\ overtaken = FALSE
-----------------------------------------------------------------------------
\* Mutant: critical features are left running.
MustShutDown_PositionOnly == {f \in Feature : enabled[f] /\ Class[f] = "position_critical"}

\* The features _shutdown_safety_critical_features moves.
MustShutDown == {f \in Feature : enabled[f] /\ Class[f] \in {"critical", "position_critical"}}

\* `feature.state = SAFE_SHUTDOWN` for every feature of F in the states st.
ShutdownFrom(st, F) ==
  [f \in Feature |-> IF f \in F THEN Assigned(Class[f], st[f], "safe_shutdown") ELSE st[f]]

\* Mutant: the flag is set only if there is a feature to shut down.
EnterSafeState_IfNeeded(st, held) ==
  /\ inSafeState' = (inSafeState \/ MustShutDown # {})
  /\ state' = IF inSafeState THEN st ELSE ShutdownFrom(st, MustShutDown)
  /\ engaged' = IF inSafeState THEN held ELSE installed

\* Mutant: only emergency_stop engages the interlocks.
EnterSafeState_LeavesInterlocks(st, held) ==
  /\ inSafeState' = TRUE
  /\ state' = IF inSafeState THEN st ELSE ShutdownFrom(st, MustShutDown)
  /\ engaged' = held

\* _enter_safe_state, on states st and with the interlocks `held` engaged:
\* nothing when already in the safe state.
EnterSafeState(st, held) ==
  /\ inSafeState' = TRUE
  /\ state' = IF inSafeState THEN st ELSE ShutdownFrom(st, MustShutDown)
  /\ engaged' = IF inSafeState THEN held ELSE installed

\* emergency_stop; `held` are the interlocks engaged when it is called.
EmergencyStop(held) ==
  IF stopActive
  THEN engaged' = held /\ UNCHANGED <<state, inSafeState, stopActive>>
  ELSE /\ stopActive' = TRUE
       /\ EnterSafeState(ShutdownFrom(state, {f \in PositionCritical : enabled[f]}), installed)

ManualStop ==
  /\ Serving /\ EmergencyStop(engaged)
  /\ UNCHANGED <<restOfManager, check, installed, met, taskVars, overdue>>

\* A wrong code changes nothing.
ResetEmergencyStop ==
  /\ Serving /\ stopActive
  /\ stopActive' = FALSE
  /\ UNCHANGED <<managerVars, inSafeState, interlockVars, taskVars, overdue>>

UpdateSystemState ==
  /\ Serving
  /\ \E changed \in SUBSET Condition : met' = changed
  /\ UNCHANGED <<managerVars, stateVars, installed, engaged, taskVars, overdue>>

\* A new interlock, in the place of one of the same name, is not engaged.
AddInterlock(i) ==
  /\ Serving
  /\ installed' = installed \union {i} /\ engaged' = engaged \ {i}
  /\ UNCHANGED <<managerVars, stateVars, met, taskVars, overdue>>

\* What check_safety_interlocks leaves engaged, having looked at those in `seen`.
Checked(seen) == (Violated \intersect seen) \union (engaged \ seen)

\* Anybody's check_safety_interlocks.  A condition that cannot be evaluated (a
\* non-numeric speed) ends it early.
CheckSafetyInterlocks ==
  /\ Serving
  /\ \E seen \in SUBSET installed : engaged' = Checked(seen)
  /\ UNCHANGED <<managerVars, stateVars, installed, met, taskVars, overdue>>
-----------------------------------------------------------------------------
(* start_monitoring and stop_monitoring                                    *)

Looping == {"ready", "checking", "sleeping"}

\* start_monitoring creates the tasks it does not hold; one that has finished, or
\* that stop_monitoring awaits, is still held.
StartMonitoring ==
  /\ Serving
  /\ monitor' = IF monitor = "none" THEN "ready" ELSE monitor
  /\ watchdog' = IF watchdog = "none" THEN "running" ELSE watchdog
  /\ overdue' = FALSE
  /\ overtaken' = (watchdog # "none" /\ (overtaken \/ stopping = "watchdog"))
  /\ UNCHANGED <<managerVars, stateVars, interlockVars, stopping>>

\* The monitor's task is dropped and the watchdog cancelled, which is awaited
\* unless it had finished.
DropMonitor ==
  /\ monitor' = "none"
  /\ IF watchdog = "running"
     THEN stopping' = "watchdog" /\ UNCHANGED watchdog
     ELSE stopping' = "none" /\ watchdog' = "none"
  /\ UNCHANGED overtaken

\* stop_monitoring cancels the monitor and awaits it, unless it has finished.
\* (One call of it at a time.)
StopMonitoring ==
  /\ Serving /\ stopping = "none"
  /\ IF monitor \in Looping
     THEN stopping' = "monitor" /\ UNCHANGED <<monitor, watchdog, overtaken>>
     ELSE DropMonitor
  /\ UNCHANGED <<managerVars, stateVars, interlockVars, overdue>>

\* A health check the monitor was awaiting gives up its flag in its `finally`.
MonitorStopped ==
  /\ LoopFree /\ stopping = "monitor"
  /\ DropMonitor
  /\ check' = IF monitor = "checking" THEN NoCheck ELSE check
  /\ UNCHANGED <<restOfManager, state, stateVars, interlockVars, overdue>>

\* Mutant: the finished watchdog task is kept, so it is never created again.
WatchdogStopped_Kept ==
  /\ LoopFree /\ stopping = "watchdog"
  /\ watchdog' = "done" /\ stopping' = "none"
  /\ UNCHANGED <<managerVars, stateVars, interlockVars, monitor, overdue, overtaken>>

WatchdogStopped ==
  /\ LoopFree /\ stopping = "watchdog"
  /\ watchdog' = "none" /\ stopping' = "none"
  /\ UNCHANGED <<managerVars, stateVars, interlockVars, monitor, overdue, overtaken>>
-----------------------------------------------------------------------------
(* The two loops                                                           *)

\* Mutant: only interlock violations count.
Emergency_InterlocksOnly(failed) == Cardinality(Violated) >= 3

\* _check_emergency_conditions.
Emergency(failed) == failed # {} \/ Cardinality(Violated) >= 3

\* The rest of a round of _health_monitoring_loop once check_system_health
\* reported `failed`: interlocks, kick, _check_emergency_conditions, sleep.
FinishRound(failed) ==
  /\ overdue' = FALSE
  /\ IF Emergency(failed)
     THEN EmergencyStop(Violated)
     ELSE engaged' = Violated /\ UNCHANGED <<state, stateVars>>
  /\ monitor' = "sleeping"
  /\ UNCHANGED <<restOfManager, installed, met, watchdog, stopping, overtaken>>

LoopEnds == inSafeState

MonitorRound ==
  /\ LoopFree /\ monitor \in {"ready", "sleeping"} /\ stopping # "monitor"
  /\ \/ /\ LoopEnds /\ monitor' = "done"
        /\ UNCHANGED <<managerVars, stateVars, interlockVars, watchdog, stopping, overtaken, overdue>>
     \/ /\ ~LoopEnds /\ BeginCheck /\ monitor' = "checking"
        /\ UNCHANGED <<stateVars, interlockVars, watchdog, stopping, overtaken, overdue>>
     \/ /\ ~LoopEnds /\ check # NoCheck       \* "check_in_progress": no failed_critical
        /\ FinishRound({}) /\ UNCHANGED check

MonitorReport ==
  /\ monitor = "checking" /\ CheckDone
  /\ FinishRound(FailedCritical)
  /\ check' = NoCheck

\* An interlock condition that cannot be evaluated.
MonitorRaises ==
  /\ \/ monitor = "checking" /\ CheckDone /\ check' = NoCheck
     \/ /\ LoopFree /\ monitor \in {"ready", "sleeping"} /\ stopping # "monitor"
        /\ ~LoopEnds /\ check # NoCheck /\ UNCHANGED check
  /\ \E seen \in SUBSET installed : EnterSafeState(state, Checked(seen))
  /\ monitor' = "done"
  /\ UNCHANGED <<restOfManager, stopActive, installed, met, watchdog, stopping, overtaken, overdue>>

\* Time passes while the monitor waits for a probe.
KickMissed ==
  /\ watchdog = "running" /\ monitor = "checking" /\ check.awaiting /\ ~overdue
  /\ overdue' = TRUE
  /\ UNCHANGED <<managerVars, stateVars, interlockVars, taskVars>>

\* Mutant: the time since the last kick is not looked at.
WatchdogRound_IgnoresKick ==
  /\ LoopFree /\ watchdog = "running" /\ stopping # "watchdog" /\ inSafeState
  /\ watchdog' = "done"
  /\ UNCHANGED <<managerVars, stateVars, interlockVars, monitor, stopping, overtaken, overdue>>

\* A round of _watchdog_loop; one that finds the kick in time changes nothing.
WatchdogRound ==
  /\ LoopFree /\ watchdog = "running" /\ stopping # "watchdog"
  /\ inSafeState \/ overdue
  /\ watchdog' = "done"
  /\ EnterSafeState(state, engaged)
  /\ UNCHANGED <<restOfManager, check, stopActive, installed, met, monitor, stopping, overtaken, overdue>>
-----------------------------------------------------------------------------
Monitoring == MonitorRound \/ MonitorReport \/ MonitorRaises

\* Somebody else's check_system_health.
OtherCheck == BeginCheck \/ (monitor # "checking" /\ EndCheck)

\* The monitor's own check does not go on once it is cancelled.
Cancelled == stopping = "monitor" /\ monitor = "checking"

SafetyNext ==
  \/ /\ ManagerStep \/ OtherCheck \/ Exited
     /\ Cancelled => check' = check
     /\ UNCHANGED safetyVars
  \/ ManualStop \/ ResetEmergencyStop \/ UpdateSystemState
  \/ CheckSafetyInterlocks \/ \E i \in Interlock : AddInterlock(i)
  \/ StartMonitoring \/ StopMonitoring \/ MonitorStopped \/ WatchdogStopped
  \/ Monitoring \/ KickMissed \/ WatchdogRound

SafetySpec == SafetyInit /\ [][SafetyNext]_vars

\* The tasks of the service and the steps of a running check go on.  No feature
\* is assumed to answer the monitor's probes; other callers' checks do end, and
\* do not meet the monitor at every one of its rounds.
SafetyFairness ==
  /\ WF_vars((CheckStep /\ ~LoopFree) /\ UNCHANGED safetyVars)
  /\ WF_vars((monitor # "checking" /\ (CheckStep \/ EndCheck)) /\ UNCHANGED safetyVars)
  /\ SF_vars(MonitorRound) /\ SF_vars(MonitorRound /\ BeginCheck) /\ WF_vars(MonitorReport)
  /\ WF_vars(KickMissed) /\ SF_vars(WatchdogRound)
  /\ SF_vars(MonitorStopped) /\ SF_vars(WatchdogStopped)

SafetyFairSpec == SafetySpec /\ SafetyFairness
-----------------------------------------------------------------------------
(* Properties                                                              *)

\* The variables hold the values the code gives them.
SafetyTypeOK ==
  /\ TypeOK
  /\ inSafeState \in BOOLEAN /\ stopActive \in BOOLEAN
  /\ installed \subseteq Interlock /\ engaged \subseteq installed /\ met \subseteq Condition
  /\ monitor \in {"none", "done"} \union Looping
  /\ watchdog \in {"none", "running", "done"}
  /\ stopping \in {"none", "monitor", "watchdog"}
  /\ overdue \in BOOLEAN /\ overtaken \in BOOLEAN

\* An active emergency stop implies the safe state, resets, second stops and
\* stops from the monitor included.
StopImpliesSafeState == stopActive => inSafeState

\* Whatever enters the safe state engages every interlock; from then on one is
\* released by nothing (no stop, no report that comes late, no monitoring
\* error) but a check that finds its conditions met, or a new one of its name.
InterlocksHold ==
  [][inSafeState' =>
       IF inSafeState
       THEN \A i \in engaged \ engaged' : Requires[i] \subseteq met \/ AddInterlock(i)
       ELSE engaged' = installed]_vars

\* Outside the safe state a running health monitor is itself watched, unless it
\* was started while stop_monitoring awaited the watchdog.
WatchdogGuards == monitor \in Looping /\ ~inSafeState /\ ~overtaken => watchdog = "running"

\* Entering the safe state shuts down every enabled critical and
\* position-critical feature that was operating or had failed.
SafeStateReachesOperating ==
  [][~inSafeState /\ inSafeState' =>
       \A f \in Feature : enabled[f] /\ Class[f] \in {"critical", "position_critical"}
         /\ state[f] \in {"healthy", "degraded", "failed"} => state'[f] = "safe_shutdown"]_vars

\* check_health finds f FAILED: its state, or what a probe answered last.
FoundFailed(f) == IF f \in Monitored THEN tracked[f] = "failed" ELSE state[f] = "failed"

\* A safety-critical feature that is found FAILED for good, under a monitor that
\* is watched, brings the system to the safe state.
CriticalFailureStops ==
  \A f \in Feature :
    LET failing == monitor \in Looping /\ phase = "running"
                     /\ enabled[f] /\ IsCritical(f) /\ FoundFailed(f)
    IN failing ~> (inSafeState \/ ~failing \/ overtaken)

\* A probe that never answers cannot silence the monitor: the watchdog brings
\* the system to the safe state.
WatchdogTrips == monitor = "checking" ~> (monitor # "checking" \/ inSafeState \/ overtaken)
=============================================================================
