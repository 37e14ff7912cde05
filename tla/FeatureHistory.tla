---------------------------- MODULE FeatureHistory ----------------------------
(***************************************************************************)
(* FeatureManager with a history variable: which dependents of a feature   *)
(* were enabled after its stop was validated and while its shutdown was    *)
(* awaited.  No step of the manager depends on it.                         *)
(***************************************************************************)
EXTENDS FeatureManager

VARIABLE late

historyVars == <<managerVars, late>>

\* A request to stop f awaits its shutdown().
StopAwaited(f) == \E c \in Caller : call[c] # Idle /\ call[c].pc = "stopping" /\ call[c].f = f

EnabledNow(f) == {g \in Dependents(f) : ~enabled[g] /\ enabled'[g]}

Record == late' = [f \in Feature |-> IF StopAwaited(f)' THEN late[f] \union EnabledNow(f) ELSE {}]

HistoryInit == Init /\ late = [f \in Feature |-> {}]
HistoryNext == Next /\ Record
HistorySpec == HistoryInit /\ [][HistoryNext]_historyVars

\* request_feature_toggle's dependency validation: while requests are served, a
\* feature that is disabled takes no safety-critical dependent's dependency away,
\* however requests interleave, save from one that was enabled between the
\* validation and the end of the shutdown it lets begin.
DisableKeepsDependents ==
  [][\A f \in Feature : phase = "running" /\ enabled[f] /\ ~enabled'[f] =>
       \A g \in Dependents(f) : IsCritical(g) /\ enabled'[g] => g \in late[f]]_historyVars
=============================================================================
