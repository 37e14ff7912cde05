---------------------------- MODULE MultiNetwork ----------------------------
(***************************************************************************)
(* backend/integrations/can/multi_network_manager.py behind                *)
(* multi_network_feature.py: a registry of networks, a bus for each, a     *)
(* health monitor that looks through the registry, and recoveries, which   *)
(* sleep between closing a bus and opening it again.  Everything runs on   *)
(* one event loop: others get a turn only while a task sleeps or waits.    *)
(***************************************************************************)
EXTENDS Integers, FiniteSets

CONSTANTS
  Network,         \* network ids
  Default,         \* those in settings.default_networks
  Channel,         \* interface names
  Interface,       \* the interface a network is registered with
  FaultIsolation,  \* settings.enable_fault_isolation
  MaxCalls,        \* bound: operator calls (register, unregister, isolate, recover)
  MaxOpen          \* bound: a bus fails to shut down while no more are open on its interface

ASSUME NetworkAssumption ==
  /\ Default \subseteq Network
  /\ Interface \in [Network -> Channel]
  /\ FaultIsolation \in BOOLEAN
  /\ MaxCalls \in Nat
  /\ MaxOpen \in Nat
  /\ IsFiniteSet(Network)

VARIABLES
  started,     \* _started of the feature
  stopping,    \* shutdown has cancelled the monitor and waits for it
  status,      \* health.status; "none" when the registry lacks the network
  held,        \* the node has a bus
  open,        \* buses opened on an interface and not shut down
  silent,      \* no message for 30 seconds since the bus was opened
  recoveries,  \* recoveries asleep that operators asked for
  monitor,     \* "none", "resting", "checking", "recovering"
  enabled,     \* _monitoring_enabled
  cancelled,   \* the monitor task was cancelled
  visited,     \* networks this pass has looked at
  current,     \* the network the monitor is recovering, as a set
  size,        \* of the registry when the pass began
  calls

monitorVars == <<monitor, enabled, cancelled, visited, current, size>>
vars == <<started, stopping, status, held, open, silent, recoveries, monitorVars, calls>>

Operational == {"healthy", "degraded"}
Registered == {n \in Network : status[n] # "none"}

Init ==
  /\ started = FALSE /\ stopping = FALSE
  /\ status = [n \in Network |-> "none"]
  /\ held = [n \in Network |-> FALSE]
  /\ open = [c \in Channel |-> 0]
  /\ silent = [n \in Network |-> FALSE]
  /\ recoveries = [n \in Network |-> 0]
  /\ monitor = "none" /\ enabled = FALSE /\ cancelled = FALSE
  /\ visited = {} /\ current = {} /\ size = 0 /\ calls = 0

\* No task is between two awaits: the monitor is the only one with an inner loop.
Yielded == monitor # "checking"

Call == calls < MaxCalls /\ calls' = calls + 1 /\ Yielded
-----------------------------------------------------------------------------
(* Buses                                                                   *)

\* Each of a bus's methods to shut it down may be missing or raise.
MayStayOpen(n) == open[Interface[n]] <= MaxOpen

ShutDown(n, shut) ==
  /\ IF held[n] THEN shut \/ MayStayOpen(n) ELSE ~shut
  /\ open' = IF shut THEN [open EXCEPT ![Interface[n]] = @ - 1] ELSE open

\* shutdown_bus: a bus that is not shut down stays with the node.
Close(n) ==
  \E shut \in BOOLEAN :
    ShutDown(n, shut) /\ held' = [held EXCEPT ![n] = @ /\ ~shut]

\* Mutant: a bus that cannot be opened leaves the status alone.
Initialize_StatusKept(n, ok) ==
  IF ok /\ n \in Registered
  THEN /\ held' = [held EXCEPT ![n] = TRUE]
       /\ open' = [open EXCEPT ![Interface[n]] = @ + 1]
       /\ silent' = [silent EXCEPT ![n] = FALSE]
       /\ status' = [status EXCEPT ![n] = "healthy"]
  ELSE UNCHANGED <<held, open, silent, status>>

\* Mutant: the node is the one the caller had before it slept.
Initialize_CapturedNode(n, ok) ==
  IF ok
  THEN /\ held' = [held EXCEPT ![n] = n \in Registered]
       /\ open' = [open EXCEPT ![Interface[n]] = @ + 1]
       /\ silent' = [silent EXCEPT ![n] = FALSE]
       /\ status' = [status EXCEPT ![n] = IF n \in Registered THEN "healthy" ELSE @]
  ELSE /\ UNCHANGED <<held, open, silent>>
       /\ status' = [status EXCEPT ![n] = IF n \in Registered THEN "faulted" ELSE @]

\* _initialize_network_bus: the registry is read again; the bus of a node that
\* has one is replaced, and stays open.
Initialize(n, ok) ==
  IF n \notin Registered
  THEN UNCHANGED <<held, open, silent, status>>
  ELSE IF ok
  THEN /\ held' = [held EXCEPT ![n] = TRUE]
       /\ open' = [open EXCEPT ![Interface[n]] = @ + 1]
       /\ silent' = [silent EXCEPT ![n] = FALSE]
       /\ status' = [status EXCEPT ![n] = "healthy"]
  ELSE /\ status' = [status EXCEPT ![n] = "faulted"]
       /\ UNCHANGED <<held, open, silent>>
-----------------------------------------------------------------------------
(* The feature                                                             *)

\* Default networks that get registered: an interface in use earns a warning only.
Registrable == Default \ Registered

\* startup: a default network that cannot be registered is skipped, and so is
\* its bus.  A monitor is only started when none ever was.
Startup ==
  /\ Yielded
  /\ \E up \in SUBSET Registrable :
       /\ status' = [n \in Network |-> IF n \in up THEN "healthy"
                                       ELSE IF n \in Registrable THEN "faulted" ELSE status[n]]
       /\ held' = [n \in Network |-> n \in up \/ held[n]]
       /\ open' = [c \in Channel |->
                     open[c] + Cardinality({n \in up : Interface[n] = c})]
  /\ visited' = visited \ Registrable
  /\ started' = TRUE /\ enabled' = TRUE
  /\ monitor' = IF enabled THEN monitor ELSE "resting"
  /\ UNCHANGED <<stopping, silent, recoveries, cancelled, current, size, calls>>

\* The rest of shutdown: every network is unregistered, its bus shut down or not.
UnregisterAll ==
  /\ \E shut \in SUBSET {n \in Network : held[n]} :
       /\ \A n \in Network : held[n] => n \in shut \/ MayStayOpen(n)
       /\ open' = [c \in Channel |->
                     open[c] - Cardinality({n \in shut : Interface[n] = c})]
  /\ status' = [n \in Network |-> "none"]
  /\ held' = [n \in Network |-> FALSE]
  /\ silent' = [n \in Network |-> FALSE]
  /\ started' = FALSE /\ stopping' = FALSE

\* shutdown, up to its wait for the monitor.
Shutdown ==
  /\ started /\ ~stopping /\ Yielded
  /\ IF monitor = "none"
     THEN UnregisterAll
     ELSE stopping' = TRUE /\ UNCHANGED <<started, status, held, silent, open>>
  /\ UNCHANGED <<recoveries, monitorVars, calls>>

\* The cancellation reaches the monitor where it sleeps.
MonitorCancelled ==
  /\ stopping /\ monitor # "none"
  /\ monitor' = "none" /\ cancelled' = TRUE /\ current' = {} /\ visited' = {} /\ size' = 0
  /\ UNCHANGED <<started, stopping, status, held, open, silent, recoveries, enabled, calls>>

ShutdownEnds ==
  /\ stopping /\ monitor = "none"
  /\ UnregisterAll
  /\ UNCHANGED <<recoveries, monitorVars, calls>>
-----------------------------------------------------------------------------
(* Operators                                                               *)

\* register_network: only a network id that is known raises.
Register(n) ==
  /\ Call
  /\ n \notin Registered
  /\ \/ /\ status' = [status EXCEPT ![n] = "healthy"]
        /\ held' = [held EXCEPT ![n] = TRUE]
        /\ open' = [open EXCEPT ![Interface[n]] = @ + 1]
     \/ /\ status' = [status EXCEPT ![n] = "faulted"]
        /\ UNCHANGED <<held, open>>
  /\ silent' = [silent EXCEPT ![n] = FALSE]
  /\ visited' = visited \ {n}
  /\ UNCHANGED <<started, stopping, recoveries, monitor, enabled, cancelled, current, size>>

\* unregister_network: the node goes with the bus it could not shut down.
Unregister(n) ==
  /\ Call
  /\ n \in Registered
  /\ \E shut \in BOOLEAN : ShutDown(n, shut)
  /\ held' = [held EXCEPT ![n] = FALSE]
  /\ status' = [status EXCEPT ![n] = "none"]
  /\ silent' = [silent EXCEPT ![n] = FALSE]
  /\ UNCHANGED <<started, stopping, recoveries, monitorVars>>

\* isolate_network.
Isolate(n) ==
  /\ Call
  /\ n \in Registered
  /\ status' = [status EXCEPT ![n] = "isolated"]
  /\ Close(n)
  /\ UNCHANGED <<started, stopping, silent, recoveries, monitorVars>>

\* recover_network, up to the sleep of _attempt_network_recovery.
Recover(n) ==
  /\ Call
  /\ n \in Registered
  /\ Close(n)
  /\ recoveries' = [recoveries EXCEPT ![n] = @ + 1]
  /\ UNCHANGED <<started, stopping, status, silent, monitorVars>>

\* _attempt_network_recovery after its sleep.
Recovered(n) ==
  /\ Yielded
  /\ recoveries[n] > 0
  /\ \E ok \in BOOLEAN : Initialize(n, ok)
  /\ recoveries' = [recoveries EXCEPT ![n] = @ - 1]
  /\ UNCHANGED <<started, stopping, monitorVars, calls>>

\* Thirty seconds pass without a message.
Silence(n) ==
  /\ Yielded
  /\ held[n] /\ ~silent[n]
  /\ silent' = [silent EXCEPT ![n] = TRUE]
  /\ UNCHANGED <<started, stopping, status, held, open, recoveries, monitorVars, calls>>
-----------------------------------------------------------------------------
(* The health monitor                                                      *)

\* _check_network_health: a network without a bus is marked and recovered, a
\* silent one is degraded.
Check(n) ==
  /\ monitor = "checking" /\ Cardinality(Registered) = size
  /\ n \in Registered \ visited
  /\ visited' = visited \union {n}
  /\ IF ~held[n]
     THEN /\ status' = [status EXCEPT ![n] = "faulted"]
          /\ IF FaultIsolation /\ status[n] # "faulted"
             THEN monitor' = "recovering" /\ current' = {n}
             ELSE UNCHANGED <<monitor, current>>
     ELSE /\ status' = IF silent[n] /\ status[n] = "healthy"
                       THEN [status EXCEPT ![n] = "degraded"] ELSE status
          /\ UNCHANGED <<monitor, current>>
  /\ UNCHANGED <<started, stopping, held, open, silent, recoveries, enabled, cancelled, size, calls>>

\* The recovery the monitor waits for ends, and it goes on with its pass.
MonitorRecovered(n) ==
  /\ monitor = "recovering" /\ n \in current /\ ~stopping
  /\ \E ok \in BOOLEAN : Initialize(n, ok)
  /\ monitor' = "checking" /\ current' = {}
  /\ UNCHANGED <<started, stopping, recoveries, enabled, cancelled, visited, size, calls>>

\* Mutant: a registry that changed during the pass ends the loop.
PassEnds_LoopEnds ==
  /\ monitor = "checking"
  /\ \/ /\ Cardinality(Registered) # size /\ monitor' = "none"
     \/ /\ Cardinality(Registered) = size /\ Registered \subseteq visited
        /\ monitor' = "resting"
  /\ UNCHANGED <<started, stopping, status, held, open, silent, recoveries>>
  /\ UNCHANGED <<enabled, cancelled, visited, current, size, calls>>

\* The pass is over, or its iterator raises since the registry has changed its
\* size: the loop sleeps in both cases.
PassEnds ==
  /\ monitor = "checking"
  /\ Cardinality(Registered) # size \/ Registered \subseteq visited
  /\ monitor' = "resting"
  /\ UNCHANGED <<started, stopping, status, held, open, silent, recoveries>>
  /\ UNCHANGED <<enabled, cancelled, visited, current, size, calls>>

PassBegins ==
  /\ monitor = "resting" /\ ~stopping
  /\ monitor' = "checking" /\ visited' = {} /\ size' = Cardinality(Registered)
  /\ UNCHANGED <<started, stopping, status, held, open, silent, recoveries>>
  /\ UNCHANGED <<enabled, cancelled, current, calls>>
-----------------------------------------------------------------------------
MonitorStep ==
  \/ MonitorCancelled \/ PassEnds \/ PassBegins
  \/ \E n \in Network : Check(n) \/ MonitorRecovered(n)

Next ==
  \/ Startup \/ Shutdown \/ ShutdownEnds
  \/ MonitorCancelled \/ PassEnds \/ PassBegins
  \/ \E n \in Network :
       \/ Register(n) \/ Unregister(n) \/ Isolate(n) \/ Recover(n) \/ Recovered(n)
       \/ Silence(n) \/ Check(n) \/ MonitorRecovered(n)

Spec == Init /\ [][Next]_vars

\* Sleeps end.  Nobody need start, stop or call anything.
FairSpec ==
  /\ Spec /\ WF_vars(MonitorStep) /\ WF_vars(ShutdownEnds)
  /\ \A n \in Network : WF_vars(Recovered(n))
-----------------------------------------------------------------------------
(* Properties                                                              *)

\* The variables hold the values the code gives them.
TypeOK ==
  /\ started \in BOOLEAN /\ stopping \in BOOLEAN
  /\ status \in [Network -> {"none", "healthy", "degraded", "faulted", "isolated"}]
  /\ held \in [Network -> BOOLEAN]
  /\ open \in [Channel -> Nat]
  /\ silent \in [Network -> BOOLEAN]
  /\ recoveries \in [Network -> Nat]
  /\ monitor \in {"none", "checking", "recovering", "resting"}
  /\ enabled \in BOOLEAN /\ cancelled \in BOOLEAN
  /\ visited \subseteq Network /\ current \subseteq Network
  /\ size \in Nat /\ calls \in 0..MaxCalls

\* A network that is reported operational has a bus, or a recovery of it is
\* under way, whatever order operators, the monitor and a shutdown come in.
OperationalHasBus ==
  \A n \in Network : status[n] \in Operational => held[n] \/ recoveries[n] > 0

\* No bus is opened for a network that is not registered: a recovery asleep when
\* its network was unregistered, or when the manager was shut down, opens none.
NoneOpenedUnregistered ==
  [][\A c \in Channel :
       (\A n \in Network : Interface[n] = c => status[n] = "none" /\ status'[n] = "none")
       => open'[c] = open[c]]_vars

\* A network that falls silent is reported so, is closed, or gets a new bus, as
\* long as no shutdown has ended the monitor: passes cut short by a change of
\* the registry do not keep the monitor from it.
SilenceNoticed ==
  \A n \in Network :
    enabled /\ status[n] = "healthy" /\ held[n] /\ silent[n]
      ~> status[n] # "healthy" \/ ~held[n] \/ ~silent[n] \/ cancelled
=============================================================================
