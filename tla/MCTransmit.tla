----------------------------- MODULE MCTransmit -----------------------------
(* CAN transmission; the interfaces are model values.                      *)
EXTENDS CANTransmit
=============================================================================
