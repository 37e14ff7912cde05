------------------------ MODULE SafetyServiceProofs ------------------------
(***************************************************************************)
(* Theorems about SafetyService for every set of features, interlocks and  *)
(* conditions.                                                             *)
(***************************************************************************)
EXTENDS SafetyService, FeatureManagerProofs
-----------------------------------------------------------------------------
(* The emergency stop and the safe state                                   *)

\* emergency_stop sets both flags or, when it does nothing, keeps them.
LEMMA StopKeeps ==
  ASSUME NEW held, EmergencyStop(held), StopImpliesSafeState
  PROVE  StopImpliesSafeState'
BY DEF EmergencyStop, EnterSafeState, StopImpliesSafeState

\* So does a round of the monitor.
LEMMA RoundKeeps ==
  ASSUME NEW failed, FinishRound(failed), StopImpliesSafeState
  PROVE  StopImpliesSafeState'
<1>1. CASE Emergency(failed)
  BY <1>1, StopKeeps DEF FinishRound
<1>2. CASE ~Emergency(failed)
  BY <1>2 DEF FinishRound, stateVars, StopImpliesSafeState
<1> QED BY <1>1, <1>2

\* The steps that neither enter the safe state nor touch the emergency stop.
StandingStep ==
  \/ UpdateSystemState \/ CheckSafetyInterlocks \/ \E i \in Interlock : AddInterlock(i)
  \/ StartMonitoring \/ StopMonitoring \/ MonitorStopped \/ WatchdogStopped \/ KickMissed
  \/ UNCHANGED safetyVars

LEMMA StandingKeeps == ASSUME StandingStep PROVE UNCHANGED <<inSafeState, stopActive>>
BY DEF StandingStep, UpdateSystemState, CheckSafetyInterlocks, AddInterlock, StartMonitoring, StopMonitoring,
       MonitorStopped, WatchdogStopped, KickMissed, safetyVars, stateVars

\* An active emergency stop implies the safe state, whatever resets, second
\* stops, monitoring rounds and watchdog expiries come in between.
THEOREM StopSafe == SafetySpec => []StopImpliesSafeState
<1>1. SafetyInit => StopImpliesSafeState
  BY DEF SafetyInit, StopImpliesSafeState
<1>2. ASSUME StopImpliesSafeState, [SafetyNext]_vars PROVE StopImpliesSafeState'
  <2>1. CASE UNCHANGED <<inSafeState, stopActive>>
    BY <1>2, <2>1 DEF StopImpliesSafeState
  <2>2. CASE ManualStop
    BY <1>2, <2>2, StopKeeps DEF ManualStop
  <2>3. CASE ResetEmergencyStop
    BY <2>3 DEF ResetEmergencyStop, StopImpliesSafeState
  <2>4. CASE Monitoring
    <3>1. CASE MonitorRound
      BY <1>2, <3>1, <2>1, RoundKeeps DEF MonitorRound, stateVars
    <3>2. CASE MonitorReport
      BY <1>2, <3>2, RoundKeeps DEF MonitorReport
    <3>3. CASE MonitorRaises
      BY <3>3 DEF MonitorRaises, EnterSafeState, StopImpliesSafeState
    <3> QED BY <2>4, <3>1, <3>2, <3>3 DEF Monitoring
  <2>5. CASE WatchdogRound
    BY <2>5 DEF WatchdogRound, EnterSafeState, StopImpliesSafeState
  <2>6. CASE StandingStep
    BY <2>6, <2>1, StandingKeeps
  <2>7. CASE UNCHANGED vars
    BY <2>7, <2>1 DEF vars, safetyVars, stateVars
  <2> QED BY <1>2, <2>2, <2>3, <2>4, <2>5, <2>6, <2>7 DEF SafetyNext, StandingStep
<1> QED BY <1>1, <1>2, PTL DEF SafetySpec
-----------------------------------------------------------------------------
(* The watchdog                                                            *)

\* A monitor without a watchdog task was started while stop_monitoring awaited
\* the old one, and the watchdog's loop ends in the safe state only.
WatchdogInv ==
  /\ watchdog \in {"none", "running", "done"}
  /\ watchdog = "none" => monitor = "none" \/ overtaken
  /\ watchdog = "done" => inSafeState
  /\ stopping = "watchdog" => watchdog = "running" /\ (monitor = "none" \/ overtaken)

\* While the monitor runs outside the safe state, the watchdog runs too, unless
\* the monitor was started between stop_monitoring's last two steps.
THEOREM MonitorGuarded == SafetySpec => []WatchdogGuards
<1>1. SafetyInit => WatchdogInv
  BY DEF SafetyInit, WatchdogInv
<1>2. ASSUME WatchdogInv, [SafetyNext]_vars PROVE WatchdogInv'
  <2>1. CASE /\ UNCHANGED <<watchdog, stopping, overtaken>>
             /\ monitor = "none" => monitor' = "none"
             /\ inSafeState => inSafeState'
    BY <1>2, <2>1 DEF WatchdogInv
  <2>2. CASE ManualStop
    BY <2>1, <2>2 DEF ManualStop, EmergencyStop, EnterSafeState, taskVars
  <2>3. CASE Monitoring
    <3>1. \A failed : FinishRound(failed) =>
            UNCHANGED <<watchdog, stopping, overtaken>> /\ (inSafeState => inSafeState')
      BY DEF FinishRound, EmergencyStop, EnterSafeState, stateVars
    <3>2. monitor # "none"
      BY <2>3 DEF Monitoring, MonitorRound, MonitorReport, MonitorRaises
    <3> QED BY <2>1, <2>3, <3>1, <3>2
            DEF Monitoring, MonitorRound, MonitorReport, MonitorRaises, EnterSafeState, stateVars
  <2>4. CASE StartMonitoring
    BY <1>2, <2>4 DEF StartMonitoring, WatchdogInv, stateVars
  <2>5. CASE StopMonitoring \/ MonitorStopped
    BY <1>2, <2>5 DEF StopMonitoring, MonitorStopped, DropMonitor, WatchdogInv, stateVars
  <2>6. CASE WatchdogStopped
    BY <1>2, <2>6 DEF WatchdogStopped, WatchdogInv, stateVars
  <2>7. CASE WatchdogRound
    BY <1>2, <2>7 DEF WatchdogRound, EnterSafeState, WatchdogInv
  <2>8. CASE \/ ResetEmergencyStop \/ UpdateSystemState \/ CheckSafetyInterlocks \/ KickMissed
             \/ \E i \in Interlock : AddInterlock(i)
             \/ UNCHANGED safetyVars \/ UNCHANGED vars
    BY <2>1, <2>8 DEF ResetEmergencyStop, UpdateSystemState, CheckSafetyInterlocks, KickMissed, AddInterlock,
                      safetyVars, vars, stateVars, taskVars
  <2> QED BY <1>2, <2>2, <2>3, <2>4, <2>5, <2>6, <2>7, <2>8 DEF SafetyNext
<1>3. WatchdogInv => WatchdogGuards
  BY DEF WatchdogInv, WatchdogGuards, Looping
<1> QED BY <1>1, <1>2, <1>3, PTL DEF SafetySpec
-----------------------------------------------------------------------------
(* Types                                                                   *)

\* Shutting features down keeps the type of their states.
LEMMA ShutdownType ==
  ASSUME TypeOK, NEW st \in [Feature -> FeatureState], NEW F
  PROVE  ShutdownFrom(st, F) \in [Feature -> FeatureState]
BY AssignedIsState DEF ShutdownFrom, FeatureState

\* Entering the safe state keeps the types of what it writes.
LEMMA EnterType ==
  ASSUME SafetyTypeOK, NEW st \in [Feature -> FeatureState], NEW held \in SUBSET installed,
         EnterSafeState(st, held)
  PROVE  state' \in [Feature -> FeatureState] /\ inSafeState' \in BOOLEAN /\ engaged' \in SUBSET installed
BY ShutdownType DEF EnterSafeState, SafetyTypeOK

\* And so does an emergency stop.
LEMMA StopType ==
  ASSUME SafetyTypeOK, NEW held \in SUBSET installed, EmergencyStop(held)
  PROVE  /\ state' \in [Feature -> FeatureState] /\ inSafeState' \in BOOLEAN
         /\ stopActive' \in BOOLEAN /\ engaged' \in SUBSET installed
<1>1. CASE stopActive
  BY <1>1 DEF EmergencyStop, SafetyTypeOK, TypeOK
<1>2. CASE ~stopActive
  <2>1. ShutdownFrom(state, {f \in PositionCritical : enabled[f]}) \in [Feature -> FeatureState]
    BY ShutdownType DEF SafetyTypeOK, TypeOK
  <2> QED BY <1>2, <2>1, EnterType DEF EmergencyStop
<1> QED BY <1>1, <1>2

\* The end of a monitoring round keeps the types of what it writes.
LEMMA RoundType ==
  ASSUME SafetyTypeOK, NEW failed, FinishRound(failed)
  PROVE  /\ state' \in [Feature -> FeatureState] /\ inSafeState' \in BOOLEAN
         /\ stopActive' \in BOOLEAN /\ engaged' \in SUBSET installed
<1>1. Violated \in SUBSET installed
  BY DEF Violated
<1>2. CASE Emergency(failed)
  BY <1>1, <1>2, StopType DEF FinishRound
<1>3. CASE ~Emergency(failed)
  BY <1>1, <1>3 DEF FinishRound, SafetyTypeOK, TypeOK, stateVars
<1> QED BY <1>2, <1>3

\* A check of the interlocks leaves installed ones engaged.
LEMMA CheckedType ==
  ASSUME SafetyTypeOK, NEW seen \in SUBSET installed
  PROVE  Checked(seen) \in SUBSET installed
BY DEF SafetyTypeOK, Checked

\* The types of the manager's variables the service does not write.
LEMMA RestType ==
  ASSUME TypeOK, UNCHANGED restOfManager, check' \in {check, NoCheck}, state' \in [Feature -> FeatureState]
  PROVE  TypeOK'
BY DEF restOfManager, TypeOK

\* Every step of the composed system keeps them.
LEMMA SafetyTypeInductive ==
  ASSUME SafetyTypeOK, [SafetyNext]_vars
  PROVE  SafetyTypeOK'
<1>1. TypeOK
  BY DEF SafetyTypeOK
<1>2. CASE (ManagerStep \/ OtherCheck \/ Exited) /\ UNCHANGED safetyVars
  <2>1. TypeOK'
    BY <1>1, <1>2, TypeInductive DEF Next, OtherCheck
  <2> QED BY <1>2, <2>1 DEF SafetyTypeOK, safetyVars, stateVars, interlockVars, taskVars
<1>3. CASE ManualStop
  <2>1. engaged \in SUBSET installed
    BY DEF SafetyTypeOK
  <2>2. /\ state' \in [Feature -> FeatureState] /\ inSafeState' \in BOOLEAN
        /\ stopActive' \in BOOLEAN /\ engaged' \in SUBSET installed
    BY <1>3, <2>1, StopType DEF ManualStop
  <2>3. TypeOK'
    BY <1>1, <1>3, <2>2, RestType DEF ManualStop
  <2> QED BY <1>3, <2>2, <2>3 DEF ManualStop, SafetyTypeOK, taskVars
<1>4. CASE ResetEmergencyStop \/ UpdateSystemState \/ StartMonitoring \/ KickMissed \/ UNCHANGED vars
  <2>1. TypeOK'
    BY <1>1, <1>4, TypeInductive
       DEF ResetEmergencyStop, UpdateSystemState, StartMonitoring, KickMissed, vars
  <2> QED BY <1>4, <2>1 DEF ResetEmergencyStop, UpdateSystemState, StartMonitoring, KickMissed, Looping,
                            vars, safetyVars, stateVars, interlockVars, taskVars, SafetyTypeOK
<1>5. CASE StopMonitoring \/ WatchdogStopped
  <2>1. TypeOK'
    BY <1>1, <1>5, TypeInductive DEF StopMonitoring, WatchdogStopped
  <2> QED BY <1>5, <2>1 DEF StopMonitoring, WatchdogStopped, DropMonitor, stateVars, interlockVars, SafetyTypeOK
<1>6. CASE MonitorStopped
  <2>1. state' \in [Feature -> FeatureState] /\ check' \in {check, NoCheck}
    BY <1>6 DEF MonitorStopped, SafetyTypeOK, TypeOK
  <2>2. TypeOK'
    BY <1>1, <1>6, <2>1, RestType DEF MonitorStopped
  <2> QED BY <1>6, <2>2 DEF MonitorStopped, DropMonitor, stateVars, interlockVars, SafetyTypeOK
<1>7. CASE CheckSafetyInterlocks \/ \E i \in Interlock : AddInterlock(i)
  <2>1. TypeOK'
    BY <1>1, <1>7, TypeInductive DEF CheckSafetyInterlocks, AddInterlock
  <2>2. installed' \in SUBSET Interlock /\ engaged' \in SUBSET installed'
    BY <1>7, CheckedType DEF CheckSafetyInterlocks, AddInterlock, SafetyTypeOK
  <2> QED BY <1>7, <2>1, <2>2 DEF CheckSafetyInterlocks, AddInterlock, stateVars, taskVars, SafetyTypeOK
<1>8. CASE MonitorRound
  <2>1. CASE /\ BeginCheck \/ UNCHANGED managerVars
             /\ monitor' \in {"done", "checking"}
             /\ UNCHANGED <<stateVars, interlockVars, watchdog, stopping, overtaken, overdue>>
    <3>1. TypeOK'
      BY <1>1, <2>1, TypeInductive, CheckBoundsType
    <3> QED BY <2>1, <3>1 DEF SafetyTypeOK, stateVars, interlockVars, Looping
  <2>2. CASE FinishRound({}) /\ UNCHANGED <<check, overtaken>>
    <3>1. /\ state' \in [Feature -> FeatureState] /\ inSafeState' \in BOOLEAN
          /\ stopActive' \in BOOLEAN /\ engaged' \in SUBSET installed
      BY <2>2, RoundType
    <3>2. TypeOK'
      BY <1>1, <2>2, <3>1, RestType DEF FinishRound
    <3> QED BY <2>2, <3>1, <3>2 DEF FinishRound, SafetyTypeOK, Looping
  <2> QED BY <1>8, <2>1, <2>2 DEF MonitorRound, FinishRound
<1>9. CASE MonitorReport
  <2>1. /\ state' \in [Feature -> FeatureState] /\ inSafeState' \in BOOLEAN
        /\ stopActive' \in BOOLEAN /\ engaged' \in SUBSET installed
    BY <1>9, RoundType DEF MonitorReport
  <2>2. TypeOK'
    BY <1>1, <1>9, <2>1, RestType DEF MonitorReport, FinishRound
  <2> QED BY <1>9, <2>1, <2>2 DEF MonitorReport, FinishRound, SafetyTypeOK, Looping
<1>10. CASE MonitorRaises
  <2>1. state' \in [Feature -> FeatureState] /\ inSafeState' \in BOOLEAN /\ engaged' \in SUBSET installed
    BY <1>1, <1>10, EnterType, CheckedType DEF MonitorRaises, TypeOK
  <2>2. TypeOK'
    BY <1>1, <1>10, <2>1, RestType DEF MonitorRaises
  <2> QED BY <1>10, <2>1, <2>2 DEF MonitorRaises, SafetyTypeOK
<1>11. CASE WatchdogRound
  <2>1. engaged \in SUBSET installed
    BY DEF SafetyTypeOK
  <2>2. state' \in [Feature -> FeatureState] /\ inSafeState' \in BOOLEAN /\ engaged' \in SUBSET installed
    BY <1>1, <1>11, <2>1, EnterType DEF WatchdogRound, TypeOK
  <2>3. TypeOK'
    BY <1>1, <1>11, <2>2, RestType DEF WatchdogRound
  <2> QED BY <1>11, <2>2, <2>3 DEF WatchdogRound, SafetyTypeOK
<1> QED BY <1>2, <1>3, <1>4, <1>5, <1>6, <1>7, <1>8, <1>9, <1>10, <1>11 DEF SafetyNext, Monitoring

LEMMA SafetyInitType == SafetyInit => SafetyTypeOK
BY SafetyAssumption DEF SafetyInit, SafetyTypeOK, Init, TypeOK, FeatureState

\* The service's and the manager's variables keep their types together.
THEOREM SafetyTypeCorrect == SafetySpec => []SafetyTypeOK
BY SafetyInitType, SafetyTypeInductive, PTL DEF SafetySpec
-----------------------------------------------------------------------------
(* The interlocks                                                          *)

\* An interlock that a check of them releases has its conditions met.
LEMMA CheckedReleases ==
  ASSUME SafetyTypeOK, NEW seen, NEW i \in engaged \ Checked(seen)
  PROVE  Requires[i] \subseteq met
BY DEF SafetyTypeOK, Checked, Violated

\* So have those that are engaged and not violated.
LEMMA ViolatedReleases ==
  ASSUME SafetyTypeOK, NEW i \in engaged \ Violated
  PROVE  Requires[i] \subseteq met
BY DEF SafetyTypeOK, Violated

\* A step releases interlocks in the safe state as a check may, and engages
\* all when it enters the safe state.
Holding ==
  inSafeState' =>
    IF inSafeState
    THEN \A i \in engaged \ engaged' : Requires[i] \subseteq met \/ AddInterlock(i)
    ELSE engaged' = installed

\* emergency_stop releases no more than was released when it was called.
LEMMA StopHolds ==
  ASSUME SafetyTypeOK, StopImpliesSafeState, NEW held, EmergencyStop(held),
         \A i \in engaged \ held : Requires[i] \subseteq met
  PROVE  Holding
BY DEF EmergencyStop, EnterSafeState, StopImpliesSafeState, SafetyTypeOK, Holding

LEMMA RoundHolds ==
  ASSUME SafetyTypeOK, StopImpliesSafeState, NEW failed, FinishRound(failed)
  PROVE  Holding
<1>1. \A i \in engaged \ Violated : Requires[i] \subseteq met
  BY ViolatedReleases
<1>2. CASE Emergency(failed)
  BY <1>1, <1>2, StopHolds DEF FinishRound
<1>3. CASE ~Emergency(failed)
  BY <1>1, <1>3 DEF FinishRound, stateVars, Holding
<1> QED BY <1>2, <1>3

\* Whoever enters the safe state or checks interlocks in it: the monitor's late
\* report, its error path, the watchdog, an operator.
LEMMA HoldStep ==
  ASSUME SafetyTypeOK, StopImpliesSafeState, [SafetyNext]_vars
  PROVE  Holding
<1>1. CASE UNCHANGED <<inSafeState, engaged>>
  BY <1>1 DEF Holding
<1>2. CASE ManualStop
  BY <1>2, StopHolds DEF ManualStop
<1>3. CASE CheckSafetyInterlocks
  BY <1>3, CheckedReleases DEF CheckSafetyInterlocks, stateVars, Holding
<1>4. ASSUME NEW i \in Interlock, AddInterlock(i) PROVE Holding
  BY <1>4 DEF AddInterlock, stateVars, Holding
<1>5. CASE Monitoring
  <2>1. ASSUME NEW seen, EnterSafeState(state, Checked(seen)) PROVE Holding
    BY <2>1, CheckedReleases DEF EnterSafeState, Holding
  <2> QED BY <1>1, <1>5, <2>1, RoundHolds
          DEF Monitoring, MonitorRound, MonitorReport, MonitorRaises, stateVars, interlockVars
<1>6. CASE WatchdogRound
  BY <1>6 DEF WatchdogRound, EnterSafeState, Holding
<1>7. CASE \/ ResetEmergencyStop \/ UpdateSystemState \/ StartMonitoring \/ StopMonitoring \/ MonitorStopped
           \/ WatchdogStopped \/ KickMissed \/ UNCHANGED safetyVars \/ UNCHANGED vars
  BY <1>1, <1>7 DEF ResetEmergencyStop, UpdateSystemState, StartMonitoring, StopMonitoring, MonitorStopped,
                    WatchdogStopped, KickMissed, vars, safetyVars, stateVars, interlockVars
<1> QED BY <1>2, <1>3, <1>4, <1>5, <1>6, <1>7 DEF SafetyNext

\* Entering the safe state engages every interlock; in it a stop, a late
\* report, an error and a check of the interlocks release only those whose
\* conditions are met.
THEOREM InterlocksHeld == SafetySpec => InterlocksHold
<1>1. SafetyTypeOK /\ StopImpliesSafeState /\ [SafetyNext]_vars
        => [inSafeState' =>
              IF inSafeState
              THEN \A i \in engaged \ engaged' : Requires[i] \subseteq met \/ AddInterlock(i)
              ELSE engaged' = installed]_vars
  BY HoldStep DEF Holding
<1> QED BY <1>1, StopSafe, SafetyTypeCorrect, PTL DEF SafetySpec, InterlocksHold
-----------------------------------------------------------------------------
(* With features that do not probe a device a check never suspends, and    *)
(* nothing comes between the monitor's test of the safe state and its use  *)
(* of the report.                                                          *)

QuietInv ==
  /\ ~check.awaiting
  /\ monitor = "checking" => check.pc # "idle" /\ ~inSafeState
  /\ StopImpliesSafeState

\* A check begins busy.
LEMMA CheckBegins ==
  ASSUME BeginCheck
  PROVE  check.pc = "idle" /\ check'.pc = "probing" /\ ~check'.awaiting
<1>1. check.pc = "idle"
  BY DEF BeginCheck, NoCheck
<1> DEFINE first == [pc |-> "probing", awaiting |-> FALSE, todo |-> Registered,
                     seen |-> [f \in Feature |-> "stopped"], changes |-> <<>>, stack |-> <<>>]
<1>2. check' = first
  BY DEF BeginCheck, NoCheck
<1>3. first.pc = "probing" /\ ~first.awaiting
  OBVIOUS
<1> QED BY <1>1, <1>2, <1>3

\* A step of a check neither suspends nor ends it.
LEMMA CheckStaysBusy ==
  ASSUME Monitored = {}, TypeOK, ~check.awaiting, CheckStep
  PROVE  ~check'.awaiting /\ check'.pc # "idle" /\ check.pc # "idle"
<1>1. check.pc # "idle"
  BY DEF CheckStep, ListChanges, Propagate, SkipDisabled, AwaitProbe, ProbeAnswers, Notify, Probing
<1>2. check \in ActiveCheck
  BY <1>1, Active
<1>3. CASE ListChanges \/ Propagate
  BY <1>2, <1>3 DEF ListChanges, Propagate, ActiveCheck
<1>4. ASSUME NEW f \in Feature, AwaitProbe(f) PROVE FALSE
  BY <1>4 DEF AwaitProbe
<1>5. ASSUME NEW f \in Feature, SkipDisabled(f) \/ ProbeAnswers(f)
      PROVE  ~check'.awaiting /\ check'.pc # "idle"
  BY <1>2, <1>5 DEF SkipDisabled, ProbeAnswers, ActiveCheck
<1>6. ASSUME NEW f \in Feature, Notify(f) PROVE ~check'.awaiting /\ check'.pc # "idle"
  BY <1>2, <1>6 DEF Notify, ActiveCheck
<1> QED BY <1>1, <1>3, <1>4, <1>5, <1>6 DEF CheckStep

LEMMA QuietInit == SafetyInit => QuietInv
BY DEF SafetyInit, Init, NoCheck, QuietInv, StopImpliesSafeState

\* Every step of the composed system keeps it.
LEMMA QuietStep ==
  ASSUME Monitored = {}, SafetyTypeOK, QuietInv, [SafetyNext]_vars
  PROVE  QuietInv'
<1>1. TypeOK /\ StopImpliesSafeState /\ ~check.awaiting
  BY DEF SafetyTypeOK, QuietInv
<1>2. LoopFree => monitor # "checking"
  BY DEF QuietInv, LoopFree
<1>3. CASE UNCHANGED <<check, monitor, inSafeState, stopActive>>
  BY <1>3 DEF QuietInv, StopImpliesSafeState
<1>4. CASE ManagerStep /\ UNCHANGED safetyVars
  <2>1. CASE CheckStep
    BY <1>1, <1>4, <2>1, CheckStaysBusy
       DEF QuietInv, StopImpliesSafeState, safetyVars, stateVars, taskVars
  <2> QED BY <1>3, <1>4, <2>1, OthersKeepCheck DEF ManagerStep, safetyVars, stateVars, taskVars
<1>5. CASE OtherCheck /\ UNCHANGED safetyVars
  <2>1. ~check'.awaiting
    BY <1>5, CheckBegins DEF OtherCheck, EndCheck, NoCheck
  <2>2. monitor # "checking"
    BY <1>2, <1>5, CheckBegins DEF OtherCheck, LoopFree
  <2> QED BY <1>5, <2>1, <2>2 DEF QuietInv, StopImpliesSafeState, safetyVars, stateVars, taskVars
<1>6. CASE ManualStop
  <2>1. StopImpliesSafeState'
    BY <1>1, <1>6, StopKeeps DEF ManualStop
  <2>2. monitor # "checking" /\ UNCHANGED <<check, monitor>>
    BY <1>2, <1>6 DEF ManualStop, Serving, taskVars
  <2> QED BY <1>1, <2>1, <2>2 DEF QuietInv
<1>7. CASE \/ ResetEmergencyStop \/ UpdateSystemState \/ CheckSafetyInterlocks \/ StartMonitoring
           \/ StopMonitoring \/ MonitorStopped \/ WatchdogStopped \/ \E i \in Interlock : AddInterlock(i)
  <2>1. monitor # "checking"
    BY <1>2, <1>7 DEF ResetEmergencyStop, UpdateSystemState, CheckSafetyInterlocks, AddInterlock,
                      StartMonitoring, StopMonitoring, MonitorStopped, WatchdogStopped, Serving
  <2>2. /\ monitor' # "checking" /\ (stopActive' => stopActive)
        /\ check' = check /\ UNCHANGED inSafeState
    BY <2>1, <1>7 DEF ResetEmergencyStop, UpdateSystemState, CheckSafetyInterlocks, AddInterlock,
                      StartMonitoring, StopMonitoring, MonitorStopped, WatchdogStopped, DropMonitor,
                      managerVars, stateVars, taskVars
  <2> QED BY <1>1, <2>2 DEF QuietInv, StopImpliesSafeState
<1>8. CASE MonitorRound
  <2>1. CASE LoopEnds /\ monitor' = "done" /\ UNCHANGED <<managerVars, stateVars>>
    BY <1>1, <2>1 DEF QuietInv, StopImpliesSafeState, managerVars, stateVars
  <2>2. CASE ~LoopEnds /\ BeginCheck /\ UNCHANGED stateVars
    <3>1. StopImpliesSafeState' /\ ~inSafeState'
      BY <1>1, <2>2 DEF StopImpliesSafeState, LoopEnds, stateVars
    <3>2. check'.pc # "idle" /\ ~check'.awaiting
      BY <2>2, CheckBegins
    <3> QED BY <3>1, <3>2 DEF QuietInv
  <2>3. CASE ~LoopEnds /\ FinishRound({}) /\ UNCHANGED check
    <3>1. StopImpliesSafeState'
      BY <1>1, <2>3, RoundKeeps
    <3>2. monitor' = "sleeping"
      BY <2>3 DEF FinishRound
    <3> QED BY <1>1, <2>3, <3>1, <3>2 DEF QuietInv
  <2> QED BY <1>8, <2>1, <2>2, <2>3 DEF MonitorRound
<1>9. CASE MonitorReport
  <2>1. StopImpliesSafeState'
    BY <1>1, <1>9, RoundKeeps DEF MonitorReport
  <2>2. monitor' = "sleeping" /\ check' = NoCheck
    BY <1>9 DEF MonitorReport, FinishRound
  <2> QED BY <2>1, <2>2 DEF QuietInv, NoCheck
<1>10. CASE MonitorRaises
  <2>1. ~check'.awaiting
    BY <1>1, <1>10 DEF MonitorRaises, NoCheck
  <2> QED BY <1>10, <2>1 DEF MonitorRaises, EnterSafeState, QuietInv, StopImpliesSafeState
<1>11. CASE KickMissed
  BY <1>1, <1>11 DEF KickMissed
<1>12. CASE WatchdogRound
  BY <1>1, <1>2, <1>12 DEF WatchdogRound, EnterSafeState, QuietInv, StopImpliesSafeState
<1>13. CASE (Exited /\ UNCHANGED safetyVars) \/ UNCHANGED vars
  BY <1>3, <1>13 DEF Exited, vars, safetyVars, managerVars, stateVars, taskVars
<1> QED BY <1>4, <1>5, <1>6, <1>7, <1>8, <1>9, <1>10, <1>11, <1>12, <1>13
        DEF SafetyNext, Monitoring
-----------------------------------------------------------------------------
(* Entering the safe state                                                 *)

\* An operating feature, or one that has failed, is shut down by one
\* assignment, and a second changes nothing.
LEMMA ShutdownAssigned ==
  ASSUME NEW class, NEW from \in {"healthy", "degraded", "failed", "safe_shutdown"}
  PROVE  Assigned(class, from, "safe_shutdown") = "safe_shutdown"
BY DEF Assigned, TransitionAllowed, ValidTransitions

\* The states a shutdown moves, and where to.
Operating == {"healthy", "degraded", "failed"}

ShutsDown == \A f \in MustShutDown : state[f] \in Operating => state'[f] = "safe_shutdown"

\* _enter_safe_state shuts down what must be; emergency_stop likewise, though
\* it assigns to the position-critical features twice.
LEMMA EnterShutsDown ==
  ASSUME NEW held, EnterSafeState(state, held), ~inSafeState
  PROVE  ShutsDown /\ inSafeState'
<1>1. MustShutDown \subseteq Feature
  BY DEF MustShutDown
<1> QED BY <1>1, ShutdownAssigned DEF EnterSafeState, ShutdownFrom, ShutsDown, Operating

LEMMA StopShutsDown ==
  ASSUME NEW held, EmergencyStop(held), ~stopActive, ~inSafeState
  PROVE  ShutsDown /\ inSafeState' /\ stopActive' /\ engaged' = installed
<1> DEFINE first == ShutdownFrom(state, {f \in PositionCritical : enabled[f]})
<1>1. state' = ShutdownFrom(first, MustShutDown) /\ MustShutDown \subseteq Feature
  BY DEF EmergencyStop, EnterSafeState, MustShutDown
<1>2. \A f \in Feature : state[f] \in Operating => first[f] \in Operating \union {"safe_shutdown"}
  BY ShutdownAssigned DEF ShutdownFrom, Operating
<1> HIDE DEF first
<1>3. ShutsDown
  BY <1>1, <1>2, ShutdownAssigned DEF ShutdownFrom, ShutsDown, Operating
<1> QED BY <1>3 DEF EmergencyStop, EnterSafeState

\* However the safe state is entered (by hand, by the monitor, by its error
\* path or by the watchdog), the features that must be are shut down with it.
LEMMA SafeStateStep ==
  ASSUME StopImpliesSafeState, [SafetyNext]_vars, ~inSafeState, inSafeState'
  PROVE  ShutsDown
<1>1. ~stopActive
  BY DEF StopImpliesSafeState
<1>2. ASSUME NEW failed, FinishRound(failed) PROVE ShutsDown
  BY <1>1, <1>2, StopShutsDown DEF FinishRound, stateVars
<1>3. CASE ManualStop
  BY <1>1, <1>3, StopShutsDown DEF ManualStop
<1>4. CASE Monitoring
  BY <1>2, <1>4, EnterShutsDown DEF Monitoring, MonitorRound, MonitorReport, MonitorRaises, stateVars
<1>5. CASE WatchdogRound
  BY <1>5, EnterShutsDown DEF WatchdogRound
<1>6. ~ResetEmergencyStop /\ ~StandingStep
  BY StandingKeeps DEF ResetEmergencyStop
<1> QED BY <1>3, <1>4, <1>5, <1>6 DEF SafetyNext, StandingStep, vars, safetyVars, stateVars

\* Entering the safe state shuts down every enabled critical and
\* position-critical feature that was operating or had failed, for every list
\* of features and whatever waits or runs at the time.
THEOREM SafeStateIsReached == SafetySpec => SafeStateReachesOperating
<1>1. StopImpliesSafeState /\ [SafetyNext]_vars =>
        [~inSafeState /\ inSafeState' =>
           \A f \in Feature : enabled[f] /\ Class[f] \in {"critical", "position_critical"}
             /\ state[f] \in {"healthy", "degraded", "failed"} => state'[f] = "safe_shutdown"]_vars
  BY SafeStateStep DEF ShutsDown, Operating, MustShutDown
<1> QED BY <1>1, StopSafe, PTL DEF SafetySpec, SafeStateReachesOperating
-----------------------------------------------------------------------------
(* What is proved of the feature manager holds under the safety service:   *)
(* its own steps are the manager's or shut features down.                  *)

\* The states in which a shutdown succeeds or changes nothing.
Shuttable == Operating \union {"safe_shutdown"}

\* A step of the service that is none of the manager's.
ServiceMove ==
  /\ UNCHANGED restOfManager
  /\ check' = NoCheck \/ (LoopFree /\ check' = check)
  /\ \A f \in Feature : state[f] \in Shuttable => state'[f] \in {state[f], "safe_shutdown"}

\* What entering the safe state and the emergency stop do to the states.
LEMMA EnterMoves ==
  ASSUME TypeOK, NEW held, EnterSafeState(state, held), NEW f \in Feature, state[f] \in Shuttable
  PROVE  state'[f] \in {state[f], "safe_shutdown"}
BY ShutdownAssigned DEF EnterSafeState, ShutdownFrom, Shuttable, Operating

LEMMA StopMoves ==
  ASSUME TypeOK, NEW held, EmergencyStop(held), NEW f \in Feature, state[f] \in Shuttable
  PROVE  state'[f] \in {state[f], "safe_shutdown"}
<1> DEFINE first == ShutdownFrom(state, {p \in PositionCritical : enabled[p]})
<1>1. state' \in {state, first, ShutdownFrom(first, MustShutDown)}
  BY DEF EmergencyStop, EnterSafeState
<1>2. first[f] \in {state[f], "safe_shutdown"}
  BY ShutdownAssigned DEF ShutdownFrom, Shuttable, Operating
<1> HIDE DEF first
<1> QED BY <1>1, <1>2, ShutdownAssigned DEF ShutdownFrom, Shuttable, Operating

\* A step of the composed system is one of the two kinds.
LEMMA ServiceStep ==
  ASSUME TypeOK, [SafetyNext]_vars
  PROVE  [Next]_managerVars \/ ServiceMove
<1>1. ASSUME NEW failed, FinishRound(failed)
      PROVE  /\ UNCHANGED restOfManager
             /\ \A f \in Feature : state[f] \in Shuttable => state'[f] \in {state[f], "safe_shutdown"}
  BY <1>1, StopMoves DEF FinishRound
<1>2. CASE (ManagerStep \/ OtherCheck \/ Exited) /\ UNCHANGED safetyVars
  BY <1>2 DEF Next, OtherCheck
<1>3. CASE ManualStop
  BY <1>3, StopMoves DEF ManualStop, Serving, ServiceMove
<1>4. CASE \/ ResetEmergencyStop \/ UpdateSystemState \/ CheckSafetyInterlocks \/ StartMonitoring
           \/ StopMonitoring \/ WatchdogStopped \/ KickMissed \/ UNCHANGED vars
           \/ \E i \in Interlock : AddInterlock(i)
  BY <1>4 DEF ResetEmergencyStop, UpdateSystemState, CheckSafetyInterlocks, AddInterlock, StartMonitoring,
              StopMonitoring, WatchdogStopped, KickMissed, vars
<1>5. CASE MonitorStopped
  BY <1>5 DEF MonitorStopped, ServiceMove
<1>6. CASE MonitorRound
  BY <1>1, <1>6 DEF MonitorRound, Next, ServiceMove
<1>7. CASE MonitorReport
  BY <1>1, <1>7 DEF MonitorReport, ServiceMove
<1>8. CASE MonitorRaises
  BY <1>8, EnterMoves DEF MonitorRaises, ServiceMove
<1>9. CASE WatchdogRound
  BY <1>9, EnterMoves DEF WatchdogRound, ServiceMove
<1> QED BY <1>2, <1>3, <1>4, <1>5, <1>6, <1>7, <1>8, <1>9 DEF SafetyNext, Monitoring

\* No position-critical feature in operation fails, whatever the service does.
THEOREM PositionSafeUnderService == SafetySpec => PositionNeverFails
<1>1. ASSUME TypeOK, [SafetyNext]_vars, NEW p \in PositionCritical, state[p] \in {"healthy", "degraded"}
      PROVE  state'[p] # "failed"
  <2>1. p \in Feature /\ CannotFail(p)
    BY <1>1, PositionCannotFail
  <2>2. CASE [Next]_managerVars
    BY <1>1, <2>1, <2>2, StepKeeps
  <2>3. CASE ServiceMove
    BY <1>1, <2>1, <2>3 DEF ServiceMove, Shuttable, Operating
  <2> QED BY <1>1, <2>2, <2>3, ServiceStep
<1>2. SafetyTypeOK /\ [SafetyNext]_vars =>
        [\A f \in PositionCritical :
           state[f] \in {"healthy", "degraded"} => state'[f] # "failed"]_managerVars
  BY <1>1 DEF SafetyTypeOK
<1> QED BY <1>2, SafetyTypeCorrect, PTL DEF SafetySpec, PositionNeverFails

\* The composed system with the history of FeatureHistory.
ServiceHistorySpec ==
  SafetyInit /\ late = [f \in Feature |-> {}] /\ [][SafetyNext /\ Record]_<<vars, late>>

\* No feature is disabled under an enabled safety-critical dependent, save one
\* enabled while the feature was stopping, with the monitor and the watchdog
\* shutting features down in between.
THEOREM DependentsAreKeptUnderService == ServiceHistorySpec => DisableKeepsDependents
<1>1. ASSUME SafetyTypeOK, StopInv, [SafetyNext /\ Record]_<<vars, late>>
      PROVE  /\ SafetyTypeOK' /\ StopInv'
             /\ [\A f \in Feature : phase = "running" /\ enabled[f] /\ ~enabled'[f] =>
                   \A g \in Dependents(f) : IsCritical(g) /\ enabled'[g] => g \in late[f]]_historyVars
  <2>1. TypeOK /\ [SafetyNext]_vars
    BY <1>1 DEF SafetyTypeOK
  <2>2. CASE Next /\ Record
    <3>1. [HistoryNext]_historyVars
      BY <2>2 DEF HistoryNext
    <3> QED BY <1>1, <2>1, <2>2, <3>1, SafetyTypeInductive, StopStep, DisableStep
  <2>3. CASE ServiceMove \/ UNCHANGED managerVars
    <3>1. call' = call /\ enabled' = enabled
      BY <2>3 DEF ServiceMove, restOfManager, managerVars
    <3>2. StopInv'
      <4>1. CASE Record
        BY <1>1, <2>1, <3>1, <4>1, HistoryKeeps DEF StopInv, Dependents, IsCritical
      <4>2. CASE late' = late
        BY <1>1, <3>1, <4>2 DEF StopInv
      <4> QED BY <1>1, <4>1, <4>2
    <3> QED BY <1>1, <2>1, <3>1, <3>2, SafetyTypeInductive
  <2>4. Record \/ UNCHANGED managerVars
    BY <1>1 DEF vars
  <2> QED BY <2>1, <2>2, <2>3, <2>4, ServiceStep
<1>2. SafetyInit => SafetyTypeOK /\ StopInv
  BY SafetyInitType, StopStart DEF SafetyInit
<1> QED BY <1>1, <1>2, PTL DEF ServiceHistorySpec, DisableKeepsDependents

\* No stop, no reset, no round of the monitor and no expiry of the watchdog
\* brings back a feature that was shut down: only a recovery under way does.
THEOREM ShutdownIsKeptUnderService == SafetySpec => ShutdownStands
<1>1. ASSUME TypeOK, [SafetyNext]_vars, NEW p \in Feature,
             phase # "starting", enabled[p], state[p] = "safe_shutdown", state'[p] \in InOperation
      PROVE  p \notin Integrated /\ Recovering(p)
  <2>1. ~ServiceMove
    BY <1>1 DEF ServiceMove, Shuttable, InOperation
  <2> QED BY <1>1, <2>1, ServiceStep, StandsStep
<1>2. SafetyTypeOK /\ [SafetyNext]_vars =>
        [\A f \in Feature :
           phase # "starting" /\ enabled[f] /\ state[f] = "safe_shutdown" /\ state'[f] \in InOperation
             => f \notin Integrated /\ Recovering(f)]_managerVars
  BY <1>1 DEF SafetyTypeOK
<1> QED BY <1>2, SafetyTypeCorrect, PTL DEF SafetySpec, ShutdownStands

\* Every toggle and recovery winds down under the service as without it.
THEOREM EveryCallEndsUnderService == SafetySpec => CallsWindDown /\ []CallsBounded
<1>1. ASSUME ServiceMove PROVE call' = call
  BY <1>1 DEF ServiceMove, restOfManager
<1>2. SafetyTypeOK /\ CallsBounded /\ [SafetyNext]_vars => CallsBounded'
  BY <1>1, ServiceStep, WindsStep DEF SafetyTypeOK, CallsBounded
<1>3. SafetyTypeOK /\ CallsBounded /\ [SafetyNext]_vars
        => [\A c \in Caller : call[c] # Idle /\ call'[c] # call[c] =>
              StepsLeft(call'[c]) < StepsLeft(call[c])]_managerVars
  BY <1>1, ServiceStep, WindsStep DEF SafetyTypeOK
<1>4. SafetyInit => CallsBounded
  BY ManagerAssumption DEF SafetyInit, Init, CallsBounded, StepsLeft
<1> QED BY <1>2, <1>3, <1>4, SafetyTypeCorrect, PTL DEF SafetySpec, CallsWindDown
-----------------------------------------------------------------------------
(* From a failure to the safe state, with features that do not probe.      *)

\* What a check has done so far stands: the service acts between checks only,
\* or ends the one it has read.
LEMMA ServiceScan ==
  ASSUME Monitored = {}, TypeOK, ScanInv, [SafetyNext]_vars
  PROVE  ScanInv'
<1>1. CASE [Next]_managerVars
  BY <1>1, ScanStep
<1>2. CASE ServiceMove
  <2>1. CASE check' = NoCheck
    BY <2>1, ScanBounds
  <2>2. CASE LoopFree /\ check' = check
    BY <2>2, IdleScan DEF LoopFree, ScanInv
  <2> QED BY <1>2, <2>1, <2>2 DEF ServiceMove
<1> QED BY <1>1, <1>2, ServiceStep

\* The monitor's report names every failure, and the manager's view is true,
\* with the service stopping and shutting down features between the checks.
THEOREM ReportsUnderService ==
  ASSUME Monitored = {}
  PROVE  SafetySpec => [](ReportComplete /\ TrackedAgrees)
<1>1. SafetyInit => ScanInv
  BY ScanInit DEF SafetyInit
<1>2. SafetyTypeOK /\ ScanInv /\ [SafetyNext]_vars => ScanInv'
  BY ServiceScan DEF SafetyTypeOK
<1>3. ScanInv => ReportComplete /\ TrackedAgrees
  BY ScanDone
<1> QED BY <1>1, <1>2, <1>3, SafetyTypeCorrect, PTL DEF SafetySpec

\* The monitor's first report after a safety-critical feature has FAILED stops
\* the system at once: the flags are set, every interlock engaged, and every
\* feature that must be is shut down.
FailureStopsAll ==
  [][MonitorReport /\ (\E f \in Feature : enabled[f] /\ IsCritical(f) /\ state[f] = "failed")
       => /\ inSafeState' /\ stopActive' /\ engaged' = installed
          /\ \A f \in MustShutDown : state[f] \in Operating => state'[f] = "safe_shutdown"]_vars

\* A report that finds a failure is acted upon in full.
LEMMA ReportStops ==
  ASSUME ScanInv, QuietInv, MonitorReport,
         NEW f \in Feature, enabled[f], IsCritical(f), state[f] = "failed"
  PROVE  ShutsDown /\ inSafeState' /\ stopActive' /\ engaged' = installed
<1>1. ~inSafeState /\ ~stopActive
  BY DEF QuietInv, MonitorReport, StopImpliesSafeState
<1>2. f \in FailedCritical
  BY ScanDone DEF MonitorReport, ReportComplete
<1>3. EmergencyStop(Violated)
  BY <1>2 DEF MonitorReport, FinishRound, Emergency
<1> QED BY <1>1, <1>3, StopShutsDown

\* From the health check through the report, the emergency conditions and the
\* emergency stop to the setter of every feature, a failure is never lost.
THEOREM FailureStops ==
  ASSUME Monitored = {}
  PROVE  SafetySpec => FailureStopsAll
<1>1. SafetyInit => ScanInv
  BY ScanInit DEF SafetyInit
<1>2. SafetyTypeOK /\ ScanInv /\ [SafetyNext]_vars => ScanInv'
  BY ServiceScan DEF SafetyTypeOK
<1>3. SafetyTypeOK /\ QuietInv /\ [SafetyNext]_vars => QuietInv'
  BY QuietStep
<1>4. ScanInv /\ QuietInv /\ [SafetyNext]_vars
        => [MonitorReport /\ (\E f \in Feature : enabled[f] /\ IsCritical(f) /\ state[f] = "failed")
              => /\ inSafeState' /\ stopActive' /\ engaged' = installed
                 /\ \A f \in MustShutDown : state[f] \in Operating => state'[f] = "safe_shutdown"]_vars
  BY ReportStops DEF ShutsDown
<1> QED BY <1>1, <1>2, <1>3, <1>4, QuietInit, SafetyTypeCorrect, PTL DEF SafetySpec, FailureStopsAll
=============================================================================
