-------------------------- MODULE MCFeatureManager --------------------------
(* A CAN interface, the slides that depend on it, and a dashboard.         *)
EXTENDS FeatureManager
CONSTANTS can, slides, dashboard

MCRegistered == <<can, slides, dashboard>>
MCPair == <<can, slides>>
MCClass == [f \in Feature |-> CASE f = can -> "critical"
                            [] f = slides -> "position_critical"
                            [] f = dashboard -> "operational"]
MCDependsOn == [f \in Feature |-> IF f = can THEN {} ELSE {can}]

\* One order of the transition sets among those a hash seed can give.
MCFirstListed == [s \in FeatureState |->
  CASE s = "stopped" -> "initializing"  [] s = "initializing" -> "healthy"
    [] s = "healthy" -> "degraded"      [] s = "degraded" -> "maintenance"
    [] s = "failed" -> "stopped"        [] s = "safe_shutdown" -> "maintenance"
    [] s = "maintenance" -> "healthy"]
=============================================================================
