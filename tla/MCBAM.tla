------------------------------- MODULE MCBAM -------------------------------
(* A tank sender with two PGNs, a lossy charger and a lossier inverter.    *)
EXTENDS BAMHandler
CONSTANTS tank, charger, inverter, id, status, short, long, other

MCPgnOf == [m \in Message |-> IF m = other THEN status ELSE id]
MCPackets == [m \in Message |-> IF m = long THEN 3 ELSE 2]
MCSends == [s \in Source |-> CASE s = tank -> {short, other}
                               [] s = charger -> {short, long}
                               [] s = inverter -> {short, long}]
MCLoses == [s \in Source |-> CASE s = tank -> {"announcement"}
                               [] s = charger -> {"packet"}
                               [] s = inverter -> {"announcement", "packet"}]
=============================================================================
