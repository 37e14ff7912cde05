-------------------------- MODULE MCFeatureHistory --------------------------
(* Two callers and the features of MCFeatureManager, with the history.     *)
EXTENDS MCFeatureManager, FeatureHistory, TLC
CONSTANTS c1, c2

MCCallers == Permutations({c1, c2})
=============================================================================
