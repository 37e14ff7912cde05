---------------------------- MODULE FeatureStates ----------------------------
(***************************************************************************)
(* The state machine every feature of the backend obeys: the transition    *)
(* table of SafetyValidator, its validation and fallback, and the `state`  *)
(* setter of Feature (services/feature_models.py, feature_base.py).        *)
(***************************************************************************)

SafetyClassification ==
  {"critical", "safety_related", "position_critical", "operational", "maintenance"}

SafetyCritical == {"critical", "safety_related", "position_critical"}

FeatureState ==
  {"stopped", "initializing", "healthy", "degraded", "failed", "safe_shutdown", "maintenance"}

ValidTransitions(s) ==
  CASE s = "stopped"       -> {"initializing", "maintenance"}
    [] s = "initializing"  -> {"healthy", "failed", "stopped"}
    [] s = "healthy"       -> {"degraded", "failed", "safe_shutdown", "maintenance"}
    [] s = "degraded"      -> {"healthy", "failed", "safe_shutdown", "maintenance"}
    [] s = "failed"        -> {"safe_shutdown", "maintenance", "stopped"}
    [] s = "safe_shutdown" -> {"stopped", "maintenance"}
    [] s = "maintenance"   -> {"stopped", "initializing", "healthy"}

(***************************************************************************)
(* next(iter(VALID_TRANSITIONS[s])) takes whichever member of a Python set *)
(* of strings comes first.  The order depends on the hash seed of the      *)
(* process: it is fixed during one execution and unknown before it.        *)
(***************************************************************************)
CONSTANT FirstListed

ASSUME FirstListedAssumption ==
  /\ FirstListed \in [FeatureState -> FeatureState]
  /\ \A s \in FeatureState : FirstListed[s] \in ValidTransitions(s)

\* Mutant: the table alone, without the rules of the classes.
TransitionAllowed_TableOnly(class, from, to) == from = to \/ to \in ValidTransitions(from)

\* SafetyValidator.validate_state_transition.
TransitionAllowed(class, from, to) ==
  \/ from = to
  \/ /\ to \in ValidTransitions(from)
     /\ ~(class = "critical" /\ from = "healthy" /\ to = "failed")
     /\ ~(class = "position_critical" /\ from \in {"healthy", "degraded"} /\ to = "failed")

\* SafetyValidator.get_safe_transition.
SafeTransition(class, from, to) ==
  CASE TransitionAllowed(class, from, to) -> to
    [] ~TransitionAllowed(class, from, to) /\ to = "failed" /\ "degraded" \in ValidTransitions(from)
         -> "degraded"
    [] OTHER -> IF class = "position_critical" /\ "safe_shutdown" \in ValidTransitions(from)
                THEN "safe_shutdown"
                ELSE FirstListed[from]

\* The value Feature.state has after `feature.state = to` (the property's setter).
Assigned(class, from, to) ==
  LET safe == SafeTransition(class, from, to)
  IN  IF TransitionAllowed(class, from, to) THEN to
      ELSE IF safe # to THEN safe ELSE from
=============================================================================
