--------------------------- MODULE MCSafetyService ---------------------------
(* The features of MCFeatureManager under the safety service, with the     *)
(* three interlocks _setup_default_interlocks creates.                     *)
EXTENDS SafetyService, TLC
CONSTANTS c1, can, slides, slide_room_safety, awning_safety, leveling_jack_safety

MCRegistered == <<can, slides>>
MCOneFeature == <<can>>
MCClass == [f \in Feature |-> IF f = can THEN "critical" ELSE "position_critical"]
MCDependsOn == [f \in Feature |-> IF f = slides THEN {can} ELSE {}]

MCRequires == [i \in Interlock |-> {"parking_brake_engaged"}]
MCSymmetry == Permutations({slide_room_safety, awning_safety, leveling_jack_safety})

\* One order of the transition sets among those a hash seed can give.
MCFirstListed == [s \in FeatureState |->
  CASE s = "stopped" -> "initializing"  [] s = "initializing" -> "healthy"
    [] s = "healthy" -> "degraded"      [] s = "degraded" -> "maintenance"
    [] s = "failed" -> "stopped"        [] s = "safe_shutdown" -> "maintenance"
    [] s = "maintenance" -> "healthy"]
=============================================================================
