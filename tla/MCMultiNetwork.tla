--------------------------- MODULE MCMultiNetwork ---------------------------
(* The multi-network manager with three networks, two of them on one interface. *)
EXTENDS MultiNetwork

CONSTANTS house, chassis, spare, can0, can1

MCInterface == [n \in Network |-> IF n = house THEN can0 ELSE can1]
=============================================================================
