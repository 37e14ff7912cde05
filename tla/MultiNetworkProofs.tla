-------------------------- MODULE MultiNetworkProofs --------------------------
(***************************************************************************)
(* Theorems about MultiNetwork for every set of networks, whatever they    *)
(* share.                                                                  *)
(***************************************************************************)
EXTENDS MultiNetwork, FiniteSetTheorems, TLAPS

HealthStatus == {"none", "healthy", "degraded", "faulted", "isolated"}
-----------------------------------------------------------------------------
(* Networks that are operational                                           *)

\* The parts of TypeOK the properties rest on.
NodesOK ==
  /\ status \in [Network -> HealthStatus]
  /\ held \in [Network -> BOOLEAN]
  /\ recoveries \in [Network -> Nat]

\* A bus is held by registered networks only.
HeldRegistered == \A n \in Network : held[n] => status[n] # "none"

NodesInv == NodesOK /\ HeldRegistered /\ OperationalHasBus

LEMMA InitNodes == Init => NodesInv
BY DEF Init, NodesInv, NodesOK, HeldRegistered, OperationalHasBus, HealthStatus, Operational

\* _initialize_network_bus, whoever calls it and whatever happened while they
\* slept.
LEMMA InitializeNodes ==
  ASSUME NodesInv, NEW n \in Network, NEW ok \in BOOLEAN, Initialize(n, ok),
         recoveries' \in [Network -> Nat],
         \A m \in Network \ {n} : recoveries'[m] = recoveries[m],
         n \in Registered \/ status[n] = "none"
  PROVE  NodesInv'
<1>0. NodesOK /\ HeldRegistered /\ OperationalHasBus
  BY DEF NodesInv
<1>1. CASE n \notin Registered
  <2>1. UNCHANGED <<status, held>> /\ status[n] = "none"
    BY <1>1 DEF Initialize, Registered
  <2>2. OperationalHasBus'
    BY <1>0, <2>1 DEF OperationalHasBus, Operational
  <2> QED BY <1>0, <2>1, <2>2 DEF NodesInv, NodesOK, HeldRegistered
<1>2. CASE n \in Registered /\ ok
  <2>1. /\ status' = [status EXCEPT ![n] = "healthy"] /\ held' = [held EXCEPT ![n] = TRUE]
    BY <1>2 DEF Initialize
  <2>2. NodesOK'
    BY <1>0, <2>1 DEF NodesOK, HealthStatus
  <2>3. HeldRegistered' /\ OperationalHasBus'
    BY <1>0, <2>1 DEF NodesOK, HeldRegistered, OperationalHasBus, Operational
  <2> QED BY <2>2, <2>3 DEF NodesInv
<1>3. CASE n \in Registered /\ ~ok
  <2>1. /\ status' = [status EXCEPT ![n] = "faulted"] /\ UNCHANGED held
    BY <1>3 DEF Initialize
  <2>2. NodesOK'
    BY <1>0, <2>1 DEF NodesOK, HealthStatus
  <2>3. HeldRegistered' /\ OperationalHasBus'
    BY <1>0, <2>1 DEF NodesOK, HeldRegistered, OperationalHasBus, Operational
  <2> QED BY <2>2, <2>3 DEF NodesInv
<1> QED BY <1>1, <1>2, <1>3

\* The end of a shutdown leaves no network.
LEMMA UnregisterNodes ==
  ASSUME NodesInv, UnregisterAll, UNCHANGED recoveries
  PROVE  NodesInv'
<1>1. NodesOK'
  BY DEF NodesInv, NodesOK, UnregisterAll, HealthStatus
<1>2. HeldRegistered' /\ OperationalHasBus'
  BY DEF UnregisterAll, HeldRegistered, OperationalHasBus, Operational
<1> QED BY <1>1, <1>2 DEF NodesInv

LEMMA NextNodes ==
  ASSUME NodesInv, [Next]_vars
  PROVE  NodesInv'
<1>0. NodesOK /\ HeldRegistered /\ OperationalHasBus
  BY DEF NodesInv
<1> USE DEF HealthStatus, Operational
<1>1. CASE Startup
  <2>1. PICK up \in SUBSET Registrable :
          /\ status' = [n \in Network |-> IF n \in up THEN "healthy"
                                          ELSE IF n \in Registrable THEN "faulted" ELSE status[n]]
          /\ held' = [n \in Network |-> n \in up \/ held[n]]
    BY <1>1 DEF Startup
  <2>2. UNCHANGED recoveries
    BY <1>1 DEF Startup
  <2>3. NodesOK'
    BY <1>0, <2>1, <2>2 DEF NodesOK
  <2>4. \A n \in Registrable : status[n] = "none"
    BY NetworkAssumption DEF Registrable, Registered
  <2>5. HeldRegistered' /\ OperationalHasBus'
    BY <1>0, <2>1, <2>2, <2>4 DEF HeldRegistered, OperationalHasBus
  <2> QED BY <2>3, <2>5 DEF NodesInv
<1>2. CASE Shutdown
  BY <1>0, <1>2, UnregisterNodes
  DEF Shutdown, NodesInv, NodesOK, HeldRegistered, OperationalHasBus
<1>3. CASE ShutdownEnds
  BY <1>3, UnregisterNodes DEF ShutdownEnds
<1>4. CASE MonitorCancelled \/ PassEnds \/ PassBegins \/ UNCHANGED vars
  BY <1>0, <1>4
  DEF MonitorCancelled, PassEnds, PassBegins, vars, NodesInv, NodesOK, HeldRegistered, OperationalHasBus
<1>5. ASSUME NEW n \in Network, Register(n) PROVE NodesInv'
  <2>1. UNCHANGED recoveries
        /\ \/ status' = [status EXCEPT ![n] = "healthy"] /\ held' = [held EXCEPT ![n] = TRUE]
           \/ status' = [status EXCEPT ![n] = "faulted"] /\ UNCHANGED held
    BY <1>5 DEF Register
  <2>2. NodesOK'
    BY <1>0, <2>1 DEF NodesOK
  <2>3. HeldRegistered' /\ OperationalHasBus'
    BY <1>0, <2>1 DEF NodesOK, HeldRegistered, OperationalHasBus
  <2> QED BY <2>2, <2>3 DEF NodesInv
<1>6. ASSUME NEW n \in Network, Unregister(n) \/ Isolate(n) PROVE NodesInv'
  <2>1. /\ UNCHANGED recoveries
        /\ \/ status' = [status EXCEPT ![n] = "none"] /\ held' = [held EXCEPT ![n] = FALSE]
           \/ /\ status' = [status EXCEPT ![n] = "isolated"] /\ status[n] # "none"
              /\ \E shut \in BOOLEAN : held' = [held EXCEPT ![n] = @ /\ ~shut]
    BY <1>6 DEF Unregister, Isolate, Close, Registered
  <2>2. NodesOK'
    BY <1>0, <2>1 DEF NodesOK
  <2>3. HeldRegistered' /\ OperationalHasBus'
    BY <1>0, <2>1 DEF NodesOK, HeldRegistered, OperationalHasBus
  <2> QED BY <2>2, <2>3 DEF NodesInv
<1>7. ASSUME NEW n \in Network, Recover(n) PROVE NodesInv'
  <2>1. /\ recoveries' = [recoveries EXCEPT ![n] = @ + 1]
        /\ \E shut \in BOOLEAN : held' = [held EXCEPT ![n] = @ /\ ~shut]
        /\ UNCHANGED status
    BY <1>7 DEF Recover, Close
  <2>2. NodesOK'
    BY <1>0, <2>1 DEF NodesOK
  <2>3. HeldRegistered' /\ OperationalHasBus'
    BY <1>0, <2>1 DEF NodesOK, HeldRegistered, OperationalHasBus
  <2> QED BY <2>2, <2>3 DEF NodesInv
<1>8. ASSUME NEW n \in Network, Recovered(n) PROVE NodesInv'
  <2>1. PICK ok \in BOOLEAN : Initialize(n, ok)
    BY <1>8 DEF Recovered
  <2>2. recoveries' = [recoveries EXCEPT ![n] = @ - 1] /\ recoveries[n] > 0
    BY <1>8 DEF Recovered
  <2>3. recoveries' \in [Network -> Nat] /\ \A m \in Network \ {n} : recoveries'[m] = recoveries[m]
    BY <1>0, <2>2 DEF NodesOK
  <2> QED BY <2>1, <2>3, InitializeNodes DEF Registered
<1>9. ASSUME NEW n \in Network, MonitorRecovered(n) PROVE NodesInv'
  <2>1. PICK ok \in BOOLEAN : Initialize(n, ok)
    BY <1>9 DEF MonitorRecovered
  <2>2. UNCHANGED recoveries
    BY <1>9 DEF MonitorRecovered
  <2>3. recoveries' \in [Network -> Nat] /\ \A m \in Network \ {n} : recoveries'[m] = recoveries[m]
    BY <1>0, <2>2 DEF NodesOK
  <2> QED BY <2>1, <2>3, InitializeNodes DEF Registered
<1>10. ASSUME NEW n \in Network, Silence(n) PROVE NodesInv'
  BY <1>0, <1>10 DEF Silence, NodesInv, NodesOK, HeldRegistered, OperationalHasBus
<1>11. ASSUME NEW n \in Network, Check(n) PROVE NodesInv'
  <2>0. UNCHANGED <<held, recoveries>> /\ status[n] # "none"
    BY <1>11 DEF Check, Registered
  <2>1. \/ ~held[n] /\ status' = [status EXCEPT ![n] = "faulted"]
        \/ held[n] /\ status' = [status EXCEPT ![n] = "degraded"]
        \/ UNCHANGED status
    BY <1>11 DEF Check
  <2>2. NodesOK'
    BY <1>0, <2>0, <2>1 DEF NodesOK
  <2>3. HeldRegistered' /\ OperationalHasBus'
    BY <1>0, <2>0, <2>1 DEF NodesOK, HeldRegistered, OperationalHasBus
  <2> QED BY <2>2, <2>3 DEF NodesInv
<1> QED
  BY <1>1, <1>2, <1>3, <1>4, <1>5, <1>6, <1>7, <1>8, <1>9, <1>10, <1>11 DEF Next

\* A network reported operational has a bus or a recovery under way, in every
\* order of operators, recoveries, the monitor's passes and shutdowns.
THEOREM OperationalNetworksHaveBuses == Spec => []OperationalHasBus
<1>1. NodesInv /\ [Next]_vars => NodesInv'
  BY NextNodes
<1>2. NodesInv => OperationalHasBus
  BY DEF NodesInv
<1> QED BY <1>1, <1>2, InitNodes, PTL DEF Spec
-----------------------------------------------------------------------------
(* Buses that are open                                                     *)

Holders(c) == {n \in Network : held[n] /\ Interface[n] = c}

\* The bus a node holds is one of those open on its interface.
HeldIsOpen == \A c \in Channel : open[c] >= Cardinality(Holders(c))

BusesInv == open \in [Channel -> Nat] /\ HeldIsOpen

LEMMA InterfaceType == \A n \in Network : Interface[n] \in Channel
BY NetworkAssumption

LEMMA HoldersFinite ==
  \A c \in Channel : /\ IsFiniteSet(Holders(c)) /\ Cardinality(Holders(c)) \in Nat
                     /\ IsFiniteSet(Holders(c)')
<1> SUFFICES ASSUME NEW c \in Channel
             PROVE  /\ IsFiniteSet(Holders(c)) /\ Cardinality(Holders(c)) \in Nat
                    /\ IsFiniteSet(Holders(c)')
  OBVIOUS
<1>1. Holders(c) \in SUBSET Network /\ Holders(c)' \in SUBSET Network
  BY DEF Holders
<1>2. IsFiniteSet(Holders(c)) /\ IsFiniteSet(Holders(c)')
  BY <1>1, NetworkAssumption, FS_Subset
<1> QED BY <1>2, FS_CardinalityType

\* A bus is opened for a node, in place of the one it may have.
LEMMA OpenBus ==
  ASSUME NodesOK, BusesInv, NEW n \in Network, held' = [held EXCEPT ![n] = TRUE],
         open' = [open EXCEPT ![Interface[n]] = @ + 1]
  PROVE  BusesInv'
<1>1. open' \in [Channel -> Nat]
  BY InterfaceType DEF BusesInv
<1>2. ASSUME NEW c \in Channel PROVE open'[c] >= Cardinality(Holders(c)')
  <2>1. open[c] >= Cardinality(Holders(c)) /\ open[c] \in Nat /\ Cardinality(Holders(c)) \in Nat
    BY HoldersFinite DEF BusesInv, HeldIsOpen
  <2>2. CASE c = Interface[n]
    <3>1. Holders(c)' = Holders(c) \union {n}
      BY <2>2 DEF Holders, NodesOK
    <3>2. Cardinality(Holders(c)') <= Cardinality(Holders(c)) + 1
      <4>1. IsFiniteSet(Holders(c))
        BY HoldersFinite
      <4>2. Cardinality(Holders(c) \union {n})
              = IF n \in Holders(c) THEN Cardinality(Holders(c)) ELSE Cardinality(Holders(c)) + 1
        BY <4>1, FS_AddElement
      <4> QED BY <2>1, <3>1, <4>2
    <3>3. open'[c] = open[c] + 1
      BY <2>2, InterfaceType DEF BusesInv
    <3>4. Cardinality(Holders(c)') \in Nat
      BY HoldersFinite, FS_CardinalityType
    <3> QED BY <2>1, <3>2, <3>3, <3>4
  <2>3. CASE c # Interface[n]
    <3>1. Holders(c)' = Holders(c)
      BY <2>3 DEF Holders, NodesOK
    <3>2. open'[c] = open[c]
      BY <2>3, InterfaceType DEF BusesInv
    <3> QED BY <2>1, <3>1, <3>2
  <2> QED BY <2>2, <2>3
<1> QED BY <1>1, <1>2 DEF BusesInv, HeldIsOpen

\* shutdown_bus closes at most the bus of its own node.
LEMMA CloseBus ==
  ASSUME NodesOK, BusesInv, NEW n \in Network, NEW shut \in BOOLEAN, ShutDown(n, shut),
         \A m \in Network \ {n} : held'[m] = held[m],
         held'[n] => held[n] /\ ~shut
  PROVE  BusesInv'
<1>0. \A c \in Channel : Holders(c)' \subseteq Holders(c)
  BY DEF Holders
<1>1. CASE ~shut
  <2>1. open' = open
    BY <1>1 DEF ShutDown
  <2>2. ASSUME NEW c \in Channel PROVE open'[c] >= Cardinality(Holders(c)')
    <3>1. open[c] >= Cardinality(Holders(c)) /\ open[c] \in Nat /\ Cardinality(Holders(c)) \in Nat
      BY HoldersFinite DEF BusesInv, HeldIsOpen
    <3>2. Cardinality(Holders(c)') <= Cardinality(Holders(c)) /\ Cardinality(Holders(c)') \in Nat
      BY <1>0, HoldersFinite, FS_Subset, FS_CardinalityType
    <3> QED BY <2>1, <3>1, <3>2
  <2> QED BY <2>1, <2>2 DEF BusesInv, HeldIsOpen
<1>2. CASE shut
  <2>1. open' = [open EXCEPT ![Interface[n]] = @ - 1] /\ held[n] /\ ~held'[n]
    BY <1>2 DEF ShutDown
  <2>2. ASSUME NEW c \in Channel
        PROVE  open'[c] \in Nat /\ open'[c] >= Cardinality(Holders(c)')
    <3>1. open[c] >= Cardinality(Holders(c)) /\ open[c] \in Nat /\ Cardinality(Holders(c)) \in Nat
      BY HoldersFinite DEF BusesInv, HeldIsOpen
    <3>2. CASE c = Interface[n]
      <4>1. Holders(c)' = Holders(c) \ {n} /\ n \in Holders(c)
        BY <2>1, <3>2 DEF Holders
      <4>2. Cardinality(Holders(c)') = Cardinality(Holders(c)) - 1
        BY <4>1, HoldersFinite, FS_RemoveElement
      <4>3. Cardinality(Holders(c)') \in Nat
        BY HoldersFinite, FS_CardinalityType
      <4>4. open'[c] = open[c] - 1
        BY <2>1, <3>2, InterfaceType DEF BusesInv
      <4> QED BY <3>1, <4>2, <4>3, <4>4
    <3>3. CASE c # Interface[n]
      <4>1. Holders(c)' = Holders(c)
        BY <3>3 DEF Holders
      <4>2. open'[c] = open[c]
        BY <2>1, <3>3, InterfaceType DEF BusesInv
      <4> QED BY <3>1, <4>1, <4>2
    <3> QED BY <3>2, <3>3
  <2>3. open' \in [Channel -> Nat]
    BY <2>1, <2>2 DEF BusesInv
  <2> QED BY <2>2, <2>3 DEF BusesInv, HeldIsOpen
<1> QED BY <1>1, <1>2

LEMMA SameBuses ==
  ASSUME BusesInv, UNCHANGED <<held, open>>
  PROVE  BusesInv'
BY DEF BusesInv, HeldIsOpen, Holders

\* The end of a shutdown leaves no holder, and closes no more than were held.
LEMMA UnregisterBuses ==
  ASSUME BusesInv, UnregisterAll
  PROVE  BusesInv'
<1>0. PICK shut \in SUBSET {n \in Network : held[n]} :
        open' = [c \in Channel |-> open[c] - Cardinality({n \in shut : Interface[n] = c})]
  BY DEF UnregisterAll
<1>1. ASSUME NEW c \in Channel
      PROVE  open'[c] \in Nat /\ open'[c] >= Cardinality(Holders(c)')
  <2> DEFINE gone == {n \in shut : Interface[n] = c}
  <2>1. open[c] >= Cardinality(Holders(c)) /\ open[c] \in Nat /\ Cardinality(Holders(c)) \in Nat
    BY HoldersFinite DEF BusesInv, HeldIsOpen
  <2>2. Holders(c)' = {} /\ open'[c] = open[c] - Cardinality(gone)
    BY <1>0 DEF UnregisterAll, Holders
  <2>3. gone \subseteq Holders(c)
    BY DEF Holders
  <2>4. Cardinality(gone) <= Cardinality(Holders(c)) /\ Cardinality(gone) \in Nat
    BY <2>3, HoldersFinite, FS_Subset, FS_CardinalityType
  <2> HIDE DEF gone
  <2> QED BY <2>1, <2>2, <2>4, FS_EmptySet
<1>2. open' = [c \in Channel |-> open'[c]]
  BY <1>0
<1> QED BY <1>1, <1>2 DEF BusesInv, HeldIsOpen

\* startup opens buses for networks that had none.
LEMMA StartupBuses ==
  ASSUME NodesInv, BusesInv, Startup
  PROVE  BusesInv'
<1>1. PICK up \in SUBSET Registrable :
        /\ held' = [n \in Network |-> n \in up \/ held[n]]
        /\ open' = [c \in Channel |-> open[c] + Cardinality({n \in up : Interface[n] = c})]
  BY DEF Startup
<1>2. up \subseteq Network
  BY NetworkAssumption DEF Registrable
<1>3. ASSUME NEW c \in Channel
      PROVE  open'[c] \in Nat /\ open'[c] >= Cardinality(Holders(c)')
  <2> DEFINE new == {n \in up : Interface[n] = c}
  <2>1. open[c] >= Cardinality(Holders(c)) /\ open[c] \in Nat /\ Cardinality(Holders(c)) \in Nat
    BY HoldersFinite DEF BusesInv, HeldIsOpen
  <2>2. IsFiniteSet(new)
    BY <1>2, NetworkAssumption, FS_Subset
  <2>3. Cardinality(new) \in Nat
    BY <2>2, FS_CardinalityType
  <2>4. Holders(c)' = Holders(c) \union new
    BY <1>1, <1>2 DEF Holders
  <2>5. IsFiniteSet(Holders(c) \intersect new)
    BY <2>2, FS_Subset
  <2>6. Cardinality(Holders(c) \intersect new) \in Nat
    BY <2>5, FS_CardinalityType
  <2>7. Cardinality(Holders(c)')
          = Cardinality(Holders(c)) + Cardinality(new) - Cardinality(Holders(c) \intersect new)
    BY <2>2, <2>4, HoldersFinite, FS_Union
  <2>8. open'[c] = open[c] + Cardinality(new)
    BY <1>1
  <2> HIDE DEF new
  <2> QED BY <2>1, <2>3, <2>6, <2>7, <2>8
<1>4. open' = [c \in Channel |-> open'[c]]
  BY <1>1
<1> QED BY <1>3, <1>4 DEF BusesInv, HeldIsOpen

LEMMA InitBuses == Init => BusesInv
<1> SUFFICES ASSUME Init PROVE BusesInv
  OBVIOUS
<1>1. \A c \in Channel : Holders(c) = {} /\ open[c] = 0
  BY DEF Init, Holders
<1>2. open \in [Channel -> Nat]
  BY DEF Init
<1> QED BY <1>1, <1>2, FS_EmptySet DEF BusesInv, HeldIsOpen

\* _initialize_network_bus opens at most one bus, for a registered node.
LEMMA InitializeBus ==
  ASSUME NodesOK, BusesInv, NEW n \in Network, NEW ok \in BOOLEAN, Initialize(n, ok)
  PROVE  BusesInv'
<1>1. CASE n \in Registered /\ ok
  BY <1>1, OpenBus DEF Initialize
<1>2. CASE ~(n \in Registered /\ ok)
  BY <1>2, SameBuses DEF Initialize
<1> QED BY <1>1, <1>2

LEMMA NextBuses ==
  ASSUME NodesInv, BusesInv, [Next]_vars
  PROVE  BusesInv'
<1>0. NodesOK
  BY DEF NodesInv
<1>1. CASE Startup
  BY <1>1, StartupBuses
<1>2. CASE Shutdown \/ ShutdownEnds
  BY <1>2, UnregisterBuses, SameBuses DEF Shutdown, ShutdownEnds
<1>3. CASE MonitorCancelled \/ PassEnds \/ PassBegins \/ UNCHANGED vars
  BY <1>3, SameBuses DEF MonitorCancelled, PassEnds, PassBegins, vars
<1>4. ASSUME NEW n \in Network, Register(n) PROVE BusesInv'
  BY <1>0, <1>4, OpenBus, SameBuses DEF Register
<1>5. ASSUME NEW n \in Network, Unregister(n) \/ Isolate(n) \/ Recover(n) PROVE BusesInv'
  <2>1. PICK shut \in BOOLEAN :
          /\ ShutDown(n, shut)
          /\ \/ held' = [held EXCEPT ![n] = FALSE]
             \/ held' = [held EXCEPT ![n] = @ /\ ~shut]
    BY <1>5 DEF Unregister, Isolate, Recover, Close
  <2>2. (\A m \in Network \ {n} : held'[m] = held[m]) /\ (held'[n] => held[n] /\ ~shut)
    BY <1>0, <2>1 DEF NodesOK
  <2> QED BY <1>0, <2>1, <2>2, CloseBus
<1>6. ASSUME NEW n \in Network, Recovered(n) \/ MonitorRecovered(n) PROVE BusesInv'
  <2>1. PICK ok \in BOOLEAN : Initialize(n, ok)
    BY <1>6 DEF Recovered, MonitorRecovered
  <2> QED BY <1>0, <2>1, InitializeBus
<1>7. ASSUME NEW n \in Network, Silence(n) \/ Check(n) PROVE BusesInv'
  BY <1>7, SameBuses DEF Silence, Check
<1> QED BY <1>1, <1>2, <1>3, <1>4, <1>5, <1>6, <1>7 DEF Next

\* A recovery or a shutdown never closes the bus another network opened on the
\* interface they share: there are as many buses open on it as nodes hold one.
THEOREM HeldBusesAreOpen == Spec => []HeldIsOpen
<1>1. NodesInv /\ BusesInv /\ [Next]_vars => NodesInv' /\ BusesInv'
  BY NextNodes, NextBuses
<1>2. BusesInv => HeldIsOpen
  BY DEF BusesInv
<1> QED BY <1>1, <1>2, InitNodes, InitBuses, PTL DEF Spec
-----------------------------------------------------------------------------
(* Types                                                                   *)

\* The rest of TypeOK.
MonitorOK ==
  /\ started \in BOOLEAN /\ stopping \in BOOLEAN /\ silent \in [Network -> BOOLEAN]
  /\ monitor \in {"none", "checking", "recovering", "resting"}
  /\ enabled \in BOOLEAN /\ cancelled \in BOOLEAN
  /\ visited \subseteq Network /\ current \subseteq Network
  /\ size \in Nat /\ calls \in 0..MaxCalls

LEMMA RegisteredCount == Cardinality(Registered) \in Nat
<1>1. Registered \in SUBSET Network
  BY DEF Registered
<1> QED BY <1>1, NetworkAssumption, FS_Subset, FS_CardinalityType

LEMMA NextMonitor ==
  ASSUME MonitorOK, [Next]_vars
  PROVE  MonitorOK'
<1>0. /\ started \in BOOLEAN /\ stopping \in BOOLEAN /\ silent \in [Network -> BOOLEAN]
      /\ monitor \in {"none", "checking", "recovering", "resting"}
      /\ enabled \in BOOLEAN /\ cancelled \in BOOLEAN
      /\ visited \subseteq Network /\ current \subseteq Network
      /\ size \in Nat /\ calls \in 0..MaxCalls
  BY DEF MonitorOK
<1>c. calls < MaxCalls => calls + 1 \in 0..MaxCalls
  BY <1>0, NetworkAssumption
<1>i. ASSUME NEW n \in Network, NEW ok \in BOOLEAN, Initialize(n, ok)
      PROVE  silent' \in [Network -> BOOLEAN]
  BY <1>0, <1>i DEF Initialize
<1>u. ASSUME UnregisterAll
      PROVE  silent' \in [Network -> BOOLEAN] /\ started' = FALSE /\ stopping' = FALSE
  BY <1>u DEF UnregisterAll
<1>1. CASE Startup
  BY <1>0, <1>1 DEF Startup, MonitorOK
<1>2. CASE Shutdown \/ ShutdownEnds
  BY <1>0, <1>2, <1>u DEF Shutdown, ShutdownEnds, MonitorOK, monitorVars
<1>3. CASE MonitorCancelled
  BY <1>0, <1>3 DEF MonitorCancelled, MonitorOK
<1>e. CASE PassEnds
  BY <1>0, <1>e DEF PassEnds, MonitorOK
<1>v. CASE UNCHANGED vars
  BY <1>0, <1>v DEF vars, monitorVars, MonitorOK
<1>4. CASE PassBegins
  BY <1>0, <1>4, RegisteredCount DEF PassBegins, MonitorOK
<1>5. ASSUME NEW n \in Network, Register(n) \/ Unregister(n) PROVE MonitorOK'
  <2>1. silent' \in [Network -> BOOLEAN]
    BY <1>0, <1>5 DEF Register, Unregister
  <2>2. calls' \in 0..MaxCalls
    BY <1>c, <1>5 DEF Register, Unregister, Call
  <2> QED BY <1>0, <1>5, <2>1, <2>2 DEF Register, Unregister, monitorVars, MonitorOK
<1>6. ASSUME NEW n \in Network, Isolate(n) \/ Recover(n) PROVE MonitorOK'
  BY <1>0, <1>c, <1>6 DEF Isolate, Recover, Call, monitorVars, MonitorOK
<1>7. ASSUME NEW n \in Network, Recovered(n) \/ MonitorRecovered(n) PROVE MonitorOK'
  <2>1. silent' \in [Network -> BOOLEAN]
    <3>1. PICK ok \in BOOLEAN : Initialize(n, ok)
      BY <1>7 DEF Recovered, MonitorRecovered
    <3> QED BY <1>i, <3>1
  <2> QED BY <1>0, <1>7, <2>1 DEF Recovered, MonitorRecovered, monitorVars, MonitorOK
<1>8. ASSUME NEW n \in Network, Silence(n) PROVE MonitorOK'
  BY <1>0, <1>8 DEF Silence, monitorVars, MonitorOK
<1>9. ASSUME NEW n \in Network, Check(n) PROVE MonitorOK'
  BY <1>0, <1>9 DEF Check, MonitorOK
<1> QED BY <1>1, <1>2, <1>3, <1>e, <1>v, <1>4, <1>5, <1>6, <1>7, <1>8, <1>9 DEF Next

\* The counts of open buses and of recoveries asleep never go below zero.
THEOREM NetworkTypes == Spec => []TypeOK
<1>0. 0 \in 0..MaxCalls
  BY NetworkAssumption
<1>1. ASSUME Init PROVE MonitorOK
  <2>1. silent \in [Network -> BOOLEAN]
    BY <1>1 DEF Init
  <2>2. /\ started = FALSE /\ stopping = FALSE /\ monitor = "none" /\ enabled = FALSE
        /\ cancelled = FALSE /\ visited = {} /\ current = {} /\ size = 0 /\ calls = 0
    BY <1>1 DEF Init
  <2> QED BY <1>0, <2>1, <2>2 DEF MonitorOK
<1>2. NodesInv /\ BusesInv /\ MonitorOK /\ [Next]_vars => NodesInv' /\ BusesInv' /\ MonitorOK'
  BY NextNodes, NextBuses, NextMonitor
<1>3. NodesInv /\ BusesInv /\ MonitorOK => TypeOK
  BY DEF NodesInv, NodesOK, HealthStatus, BusesInv, MonitorOK, TypeOK
<1> QED BY <1>1, <1>2, <1>3, InitNodes, InitBuses, PTL DEF Spec
-----------------------------------------------------------------------------
(* Interfaces nobody is registered on                                      *)

\* No network is registered on an interface, before and after a step.
Unused(c) == \A n \in Network : Interface[n] = c => status[n] = "none" /\ status'[n] = "none"

LEMMA StepsOpenNone ==
  ASSUME NodesInv, BusesInv, [Next]_vars
  PROVE  [\A c \in Channel : Unused(c) => open'[c] = open[c]]_vars
<1> SUFFICES ASSUME NEW c \in Channel, Unused(c) PROVE open'[c] = open[c]
  OBVIOUS
<1>0. open \in [Channel -> Nat] /\ HeldRegistered /\ NodesOK
  BY DEF NodesInv, BusesInv
<1>1. \A n \in Network : Interface[n] = c => ~held[n] /\ status[n] = "none" /\ status'[n] = "none"
  BY <1>0 DEF HeldRegistered, Unused
<1>2. CASE Startup
  <2>1. PICK up \in SUBSET Registrable :
          /\ status' = [n \in Network |-> IF n \in up THEN "healthy"
                                          ELSE IF n \in Registrable THEN "faulted" ELSE status[n]]
          /\ open' = [x \in Channel |-> open[x] + Cardinality({n \in up : Interface[n] = x})]
    BY <1>2 DEF Startup
  <2>2. {n \in up : Interface[n] = c} = {}
    BY <1>1, <2>1, NetworkAssumption DEF Registrable
  <2> QED BY <1>0, <2>1, <2>2, FS_EmptySet
<1>3. CASE UnregisterAll
  <2>1. PICK shut \in SUBSET {n \in Network : held[n]} :
          open' = [x \in Channel |-> open[x] - Cardinality({n \in shut : Interface[n] = x})]
    BY <1>3 DEF UnregisterAll
  <2>2. {n \in shut : Interface[n] = c} = {}
    BY <1>1
  <2> QED BY <1>0, <2>1, <2>2, FS_EmptySet
<1>4. CASE Shutdown \/ ShutdownEnds
  BY <1>3, <1>4 DEF Shutdown, ShutdownEnds
<1>5. CASE MonitorCancelled \/ PassEnds \/ PassBegins \/ UNCHANGED vars
  BY <1>5 DEF MonitorCancelled, PassEnds, PassBegins, vars
<1>6. ASSUME NEW n \in Network, Register(n) PROVE open'[c] = open[c]
  <2>1. status'[n] # "none"
    BY <1>0, <1>6 DEF Register, NodesOK
  <2> QED BY <1>0, <1>1, <1>6, <2>1, InterfaceType DEF Register
<1>7. ASSUME NEW n \in Network, Unregister(n) \/ Isolate(n) \/ Recover(n) PROVE open'[c] = open[c]
  <2>1. status[n] # "none" /\ \E shut \in BOOLEAN : ShutDown(n, shut)
    BY <1>7 DEF Unregister, Isolate, Recover, Registered, Close
  <2> QED BY <1>0, <1>1, <2>1, InterfaceType DEF ShutDown
<1>8. ASSUME NEW n \in Network, Recovered(n) \/ MonitorRecovered(n) PROVE open'[c] = open[c]
  <2>1. PICK ok \in BOOLEAN : Initialize(n, ok)
    BY <1>8 DEF Recovered, MonitorRecovered
  <2>2. CASE n \in Registered
    <3>1. Interface[n] # c
      BY <1>1, <2>2 DEF Registered
    <3> QED BY <1>0, <2>1, <2>2, <3>1, InterfaceType DEF Initialize
  <2>3. CASE n \notin Registered
    BY <2>1, <2>3 DEF Initialize
  <2> QED BY <2>2, <2>3
<1>9. ASSUME NEW n \in Network, Silence(n) \/ Check(n) PROVE open'[c] = open[c]
  BY <1>9 DEF Silence, Check
<1> QED BY <1>2, <1>4, <1>5, <1>6, <1>7, <1>8, <1>9 DEF Next

\* No bus is opened on an interface without a registered network: a recovery
\* that wakes after its network was unregistered opens none.
THEOREM NothingOpensUnregistered == Spec => NoneOpenedUnregistered
<1>1. NodesInv /\ BusesInv /\ [Next]_vars => NodesInv' /\ BusesInv'
  BY NextNodes, NextBuses
<1>2. NodesInv /\ BusesInv /\ [Next]_vars
        => [\A c \in Channel : Unused(c) => open'[c] = open[c]]_vars
  BY StepsOpenNone
<1>3. [\A c \in Channel : Unused(c) => open'[c] = open[c]]_vars
        => [\A c \in Channel :
              (\A n \in Network : Interface[n] = c => status[n] = "none" /\ status'[n] = "none")
              => open'[c] = open[c]]_vars
  BY DEF Unused
<1> QED BY <1>1, <1>2, <1>3, InitNodes, InitBuses, PTL DEF Spec, NoneOpenedUnregistered
=============================================================================
