------------------------------ MODULE MCFrontEnd ------------------------------
(* The notification front end; callers and keys are model values, and      *)
(* interchangeable.                                                        *)
EXTENDS NotificationFrontEnd, TLC

Symmetry == Permutations(Caller) \union Permutations(Key)
=============================================================================
