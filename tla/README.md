# Verification of the RV-C coach backend

TLA+ models of the parts of `src/backend` whose correctness depends on the
order of events, the TLC runs that check them, and TLAPS proofs about them.

## 1. The system

`backend/main.py` is a FastAPI application on one asyncio event loop. Its
lifespan starts a set of *features* (CAN interface, RV-C, Firefly, Spartan K2,
persistence, notifications, ...) in dependency order through the
`FeatureManager`, serves requests, and shuts them down in reverse order.

| part | state it keeps | operations | who calls it |
|---|---|---|---|
| Feature states (`feature_models.py`, `feature_base.py`) | `_state` of a feature | the validating setter `Feature.state`, `validate_state_transition`, `get_safe_transition` | everything that changes a feature |
| Feature manager (`feature_manager.py`) | features, `_feature_states`, `_health_check_running`, each feature's `enabled` and `_failed_dependencies` | `startup`, `shutdown`, `request_feature_toggle`, `attempt_feature_recovery`, `check_system_health` | lifespan, requests, safety service |
| Safety service (`safety_service.py`) | safe-state and emergency-stop flags, interlocks, monitor and watchdog tasks, time of the last kick | `emergency_stop`, `reset_emergency_stop`, `add_interlock`, `update_system_state`, `check_safety_interlocks`, `start_monitoring`, `stop_monitoring`, monitoring and watchdog loops | callers, its own tasks |
| Safety state engine, brake monitor | a state and its time; pending operations | events, deadlines | vehicle data |
| BAM handler (`bam_handler.py`) | sessions of multi-packet messages | control and data frames, clean-up | the CAN receive path |
| Notification front end (`safe_notification_manager.py`, `notification_rate_limiting.py`) | token buckets, suppression times, whether it is initialized | `notify`, `initialize`, clean-up | every component that notifies |
| Notification queue and dispatcher | SQLite tables, write batch; worker tasks | enqueue, dequeue, complete, fail, dead letters | the front end |
| Entity manager, persistence | entities with their history; dirty queue, batch in hand | update, debounce, retry, flush, load | the CAN receive path, requests |
| CAN transmission (`integrations/can/manager.py`, `can_service.py`) | `can_tx_queue`, `buses`, writer tasks | queue a message, send it twice | requests, device discovery |
| Multi-network manager | registry, a bus per network, monitor task | register, unregister, isolate, recover, health check | its feature, operators |
| Authentication | sessions, refresh tokens, lock-outs | login, refresh, revoke | requests |
| Decoders, validators, protocol router, WebSockets, analytics, API, frontend | see `PROJECT.json` | | |

Coroutines interleave only at an `await` that suspends. The hard behaviours
are therefore: state read before such an await and used after it (toggles,
recovery, the monitoring round); two tasks that watch each other (monitor and
watchdog); a feature whose code raises, hangs or answers late; a state machine
whose setter silently substitutes another state for a forbidden one, by hash
order in the last resort; crashes and failures between two database statements;
and packets of consecutive transfers on a bus that loses frames. `PROJECT.json` lists each of
them under "hazards" at its line with the properties that cover it.

What makes each part correct:

* feature states: no assignment leaves the transition table; a position-critical
  feature never goes from operation to FAILED; a critical one passes DEGRADED;
* feature manager: no safety-critical feature loses its dependency by a
  disable; the manager's view agrees with the features; failures are reported
  and reach the dependents; every call and every check ends;
* safety service: an emergency stop implies the safe state; in the safe state
  interlocks hold until a check finds their conditions met, and critical features
  are shut down; a failure leads there; a hanging monitor is noticed;
* notification queue: nothing accepted is lost, what one has taken up nobody else
  does, what is sent stays sent; a row nobody can read keeps nothing else waiting;
* BAM handler: a returned message holds the packets of one transfer, in order;
  a transfer that arrives is returned; sessions are bounded;
* entity persistence: an update it was told of is stored or on its way, no row
  goes back to an older state, and the newest state arrives;
* notification front end: of equal messages one in a window is queued, and no more
  pass than the rate allows;
* CAN transmission: messages go out in the order they were queued, twice each, and
  the newest command has the last word;
* multi-network manager: an operational network has a bus, a network that is gone
  gets none, a silent one is noticed.

## 2. Modules

```
FeatureStates ── FeatureManager ─────────── SafetyService        Delivery
                  │     │                     │    │                │ (refined by)
   MCFeatureManager   FeatureHistory  MCSafetyService │  NotificationQueue ── NotificationDispatcher
                  │     │       │                  │                         │            │
          MCFeatureHistory   FeatureManagerProofs ── SafetyServiceProofs  MCNotifications  NotificationProofs
BAMHandler ── MCBAM, BAMProofs              EntityPersistence ── MCPersistence, EntityPersistenceProofs
CANTransmit ── MCTransmit, CANTransmitProofs       MultiNetwork ── MCMultiNetwork, MultiNetworkProofs
NotificationFrontEnd ── MCFrontEnd, NotificationFrontEndProofs
```

### Features and safety

**FeatureStates** has the states, the table `ValidTransitions`, the rules of
the safety classes and `Assigned(class, from, to)`, the state a feature is in
after `feature.state = to`. The constant `FirstListed` is the member that
`next(iter(set))` yields for each transition set; Python fixes it per process by
the hash seed, so it is a constant about which only membership is assumed.

**FeatureManager** models one action per stretch of a coroutine between two
awaits that can suspend.

| variable | code |
|---|---|
| `phase`, `visited` | the lifespan in `main.py`, the loop index of `startup`/`shutdown` |
| `enabled`, `state`, `failedDeps` | `Feature.enabled`, `._state`, `._failed_dependencies` |
| `tracked` | `FeatureManager._feature_states` |
| `call` | for each caller the coroutine it is suspended in: in a feature's `startup` ("starting", "restarting") or `shutdown` ("stopping"), in the pause before a verification ("verifying", "settling"), or in the back-off of a recovery |
| `check` | the running `check_system_health`: where its loop is, the states it has seen, the list of changes and the stack of `_propagate_health_changes` |

Features in `Integrated` have a `startup` and `shutdown` of their own, which
suspend and may raise; the others are `GenericFeature`s, whose `startup`
writes HEALTHY and `shutdown` STOPPED without suspending. Features in
`Monitored` override `check_health` with a probe that suspends and answers
a state of `Answers` or raises. `check_health` may return any `FeatureState`: the
theorems hold for every `Answers`, a run bounds it. No feature of the backend does so today: those of
`src/tests` do, and the hook is public. `lifecycle` has `Monitored = {}`: it is about the backend as it is.
`LoopFree` says that no coroutine is between two awaits; only the health check
is split finer than the awaits, to keep its steps readable.

**FeatureHistory** adds the history variable `late`: per feature, the dependents that were
enabled since its stop was validated and while its shutdown is awaited. The manager's
steps do not depend on it; `DisableKeepsDependents` is stated with it.

**SafetyService** extends the manager with the service's flags, interlocks and
two tasks. `stop_monitoring` is three steps, for it suspends twice: `StopMonitoring` cancels the
monitor, `MonitorStopped` drops it and cancels the watchdog, `WatchdogStopped` drops that; a task that had
finished is not waited for. `stopping` says which one is awaited, and the history variable
`overtaken` that the monitor was started while it was the watchdog. One call of `stop_monitoring` at a time is modelled.
`CheckSafetyInterlocks` is anybody's call of `check_safety_interlocks`, which may end early at a
condition that cannot be evaluated; the monitor's own is part of `FinishRound`.
`MonitorRound` is the part of a round before `check_system_health`,
`MonitorReport` the part after it up to the sleep, `MonitorRaises` the
exception path, `WatchdogRound` a round that finds the kick too old or the
safe state. Time appears as `overdue`: more than `watchdog_timeout` since the kick.

### Notifications

**NotificationQueue** has one step per committed SQL statement; a write of the
batch holds `_batch_lock` across its awaits and is two steps, the commit
(`FlushCommits`) and the clearing of the batch (`FlushEnds`).

| variable | code |
|---|---|
| `status`, `retries`, `due` | the columns `status` and `retry_count` of a notification's row, and whether `scheduled_for` has passed |
| `writeBatch`, `lock`, `committed` | `_write_batch`, the holder of `_batch_lock`, how far the holder's write is |
| `timer` | a `_batch_timer` task runs |

**NotificationDispatcher** extends it with the callers of `dequeue_batch` (the
worker loop and, in `Forcer`, calls of `force_queue_processing`) and the
handlers that work on a batch (the tasks in `_active_batches` and the forcers).
A dequeue is two steps, `Select` and the UPDATE in `HandOver`; a
notification in hand goes through sending, the answer, and its recording, where
`mark_failed` reads the row (`ReadRetries`) before it writes it
(`RecordFailed`). `pc`, `picked`, `work`, `active`, `forced` hold where each of
them is. `life` is the notification feature's: `Start`, `StopCalled`, `StopWaits`
or `StopTimesOut`, `CloseQueue`, `Closed`, and `Crash` at any moment. `tries`
counts deliveries and is read by properties only, as is `raced`, the notifications that two
dequeuers have selected before either marked them. Rows of `Unreadable` are in the file from the start and do not
parse: a dequeue selects them, and neither marks them nor hands them over (`Parsed`). A value of
`Notification` may stand for several notifications in turn, so runs are not limited in length.
`Faults` says what may fail: a statement ("disk"), the process ("crash"), the
wait of `stop` ("timeout").

**NotificationFrontEnd** is what a call of `notify` goes through before the
queue. `Admit` is the stretch with the two checks, which share no await that
suspends; `Route` follows a read of the queue's depth, `Enqueue` a write of the
queue. `pc` and `job` hold where each caller is; time is in ticks, and only whole
tokens are added, as by the `int()` in `_refill_tokens`. An initialization makes
limiter and debouncer anew (`MakeLimits`), also when another has just done so, and also when
the templates or the router then raise (`RoutesFail`): `era` counts how often. Routing may choose any set of channels.

| variable | code |
|---|---|
| `ready`, `era` | `_initialized`, and which `rate_limiter` and `debouncer` these are |
| `bucket`, `channels` | `current_tokens` and `last_refill` of `rate_limiter` and of the limiters in `channel_limiters` |
| `seen` | `suppressed_notifications` |
| `taken`, `born`, `admitted` | read by properties only |

**Delivery** is the abstract specification: the fate of each notification,
absent, accepted, stored, sent, or doubled. What is accepted is stored together or not at
all, a stored one is never lost, a sent one is never sent again; of one that two have taken at once
(doubled) nothing more is promised. What was stored before is stored at the start. `DeliveryKept` in the
dispatcher is the refinement, with `FateOf` as its mapping.

### BAM

**BAMHandler** models `process_frame` whole: the clean-up that may come
first, then an announcement with the eviction it may cause, or a packet, which
may complete its session. `sessions` is the dictionary of the code: its keys
are the live (source, PGN) pairs; each entry has `total` and `got`
(`total_packets`, `received_packets`), and instead of a timestamp and a place
in a list the sets `elders` (live sessions with an earlier timestamp) and
`ahead` (those listed before it in `source_to_sessions`). Replacing a session
renews the first and keeps the second, as in the code. A payload is the message
it is cut from. `result` is what `process_frame` returned. The senders and the
bus are external: `Announce`, `SendPacket`, `Repeat`, with `Loses[s]` the
kinds of frame of source `s` that may be lost. The handler comes up at any moment.

### Entity persistence

**EntityPersistence** has the listener, the worker and the service's life.
A state is the number of the update it came from.

| variable | code |
|---|---|
| `life` | the process, `start`, and `_is_stopping` |
| `memory`, `rows` | `current_state` of the entities, the table `entity_states` |
| `queue` | `_dirty_entity_ids` with the sentinel of `stop` |
| `pc`, `batch`, `snap`, `attempt`, `last` | the worker: where it waits, `batch`, `states_to_persist`, the attempt, the final flush |
| `latest`, `heard` | updates so far, and the newest the listener was told of; `heard` is for properties |

`Persist` takes the states before the first await, as the code does, and `WriteOk`
and `WriteFails` end an attempt. `GiveUp` puts the ids back in any order, since
the code iterates over a list made of a set. `StopTimesOut` cancels a write that the
database may still carry out. `Loaded` leaves `memory` alone: a row's dump
becomes a field `state` of the entity, while value and raw data keep what they were.

### CAN networks and transmission

**CANTransmit** has one writer per start of the feature, for nothing ends one
(`CANService.shutdown` has no caller). `Take` sends with no await after the get;
`Repeat` follows the sleep of 50 ms. All sleeps have the same length, so writers
wake in the order in which they fell asleep (`sleepers`, `Wakes`).
`SendRawMessage` queues a message and its interface, `SendPGNRequest` of the device
discovery a bare message, which ends the writer that takes it (`TakeMalformed`).
`wire` is what `bus.send` accepted; either send may raise.

**MultiNetwork** runs on one event loop: while the monitor is "checking" nothing
else moves (`Yielded`), and a recovery, of the monitor or of an operator, is two steps
around its sleep. `Initialize` looks the network up again, as the code does.
`PassEnds` covers the iterator over `networks.values()` that raises once the
size of the registry differs from `size`. An interface in use earns a registration a warning
only, so networks may share one. `Close` is `shutdown_bus`: a bus of which every method to shut it down raises or is
missing stays open, and with its node if that is kept.

| variable | code |
|---|---|
| `status`, `held` | `health.status` of a registered network, whether its node has a `bus` |
| `open` | buses open on an interface, held or not |
| `silent` | `last_message_time` lies more than 30 s back |
| `recoveries`, `current` | calls of `_attempt_network_recovery` asleep, of operators and of the monitor |
| `monitor`, `visited`, `size`, `enabled`, `cancelled` | the monitor task, its place in the registry, `_monitoring_enabled` |

## 3. Runs

| run | what it shows | instance |
|---|---|---|
| `lifecycle` | with the backend's own features and two callers, a disable strands no dependent but one enabled while the shutdown is awaited, `tracked` agrees with `state` after every check, and the report lists every failed critical feature | 2 features: a critical one and a position-critical one on top of it, both with a startup and shutdown that suspend and may raise; 2 callers, 2 attempts |
| `probes` | with probes that suspend, answer and raise: no position-critical feature fails from operation, features hear of their own dependencies only, calls return, checks end | the same 2 features, 1 caller, 2 attempts, 4 answers |
| `safety` | stops by hand and by the monitor, resets, start and stop of the monitor, interlock checks and additions, probes that answer late, in any order: a stop implies the safe state, which releases an interlock only to a check that finds its conditions met, and reaches every operating critical feature | 2 features, 3 interlocks over 1 condition (3 violations are an emergency), 3 answers, no caller |
| `safety_probes` | a probe that may hang, with toggles and recoveries: monitor and watchdog guard each other unless `stop_monitoring` was overtaken, and a lasting failure leads to the safe state | 1 feature, 1 caller, 1 attempt, 4 answers, no interlock |
| `delivery` | a worker and `force_queue_processing`, failing statements, crashes and stops that time out: nothing accepted is lost while the feature is up, nothing is in two batches, tried too often or sent again unless two had selected it at once, and the whole implements `Delivery` | 2 notifications, 1 batch of 2 and 1 forcer with a batch, 2 tries, a write batch of 2 |
| `delivery_live` | nothing fails, `force_queue_processing` runs beside the worker and a row cannot be read: what is enqueued is written, what is due is taken up unless all batches were in flight at once, a forced run returns, no row is left 'processing' early | 1 notification (renewed for ever) and 1 unreadable row, 2 batches of 2, 1 forcer |
| `bam` | lost and repeated frames, eviction, clean-up: the limit holds, what is returned is one whole message, what arrives in full leaves no session | 3 sources (two PGNs and lost announcements; one PGN and lost packets; both lost), messages of 2 and 3 packets, 2 sessions |
| `persistence` | updates at any moment, failing writes, put-backs, stops that time out, crashes: nothing the service was told of drops out on its way, no row goes back, the newest state arrives | 3 entities of 2 updates, batches of 2, 2 attempts |
| `networks` | operators, monitor, sleeping recoveries and shutdowns in any order, buses that do not shut down: operational networks have a bus, a recovery opens none for a network that is gone, silence is noticed | 3 networks, two of them on one interface and both of these registered by default, 3 calls |
| `transmit` | several writers on one queue: first sends in order, the newest has the last word, each message is sent twice or fails | 2 interfaces, 4 messages, 3 starts |
| `front_end` | overlapping callers, initializations that succeed or fail, clean-ups and time: one notification of a kind in a window, and no more than the rate allows | 2 callers, 2 keys, 1 channel, bucket of 2, a window of 2 of 4 ticks |
| `writer_lives` | *violation*: a request of the device discovery ends the writer, and the feature runs on without one | 2 starts |

The violation is described under "findings" in `PROJECT.json` with the text
of the repository it contradicts.

**Further deviations** met while modelling. The behaviour is in the models, but
for the last two, and no run is spent on it; where a property and constants are named, a
cfg with them shows it. Features and safety:

* `request_feature_toggle` checks the dependents before `await feature.shutdown()`
  and does not look again (`feature_manager.py:847`, `:916-921`): a critical
  dependent enabled meanwhile loses its dependency: the exception (`late`) in `DisableKeepsDependents`;
* SAFE_SHUTDOWN is no legal successor of STOPPED, INITIALIZING or MAINTENANCE, so
  an emergency stop can leave a position-critical feature that its startup left STOPPED
  (`FireflyFeature`, `SpartanK2Feature`) HEALTHY (`safety_service.py:319`, against
  the comment in `:314`); `SafeStateReachesOperating` is about operating ones;
* a recovery clears the failed dependencies that are HEALTHY at the time; those that
  recover later stay listed (`feature_manager.py:1036`);
* with a probe that reports a critical feature FAILED, the setter makes the
  feature something else while `_feature_states` keeps FAILED
  (`feature_manager.py:339-342`): `TrackedAgrees` with `Monitored # {}`;
* the new states are stored before they are compared with the old ones
  (`feature_manager.py:339`, `:476`), so an enabled feature's own failure never
  reaches its dependents;
* `startup` disables a mandatory feature whose startup raises, and an
  authorized toggle disables it too, against `feature_models.py:142`;
* under a hash seed that lists FAILED first, a critical HEALTHY feature asked to
  stop becomes FAILED (`feature_models.py:499`): a `FirstListed` with
  `"failed"` at `"healthy"`;
* in the safe state, and after a reset, `check_safety_interlocks` disengages an interlock whose conditions are
  met, called by anybody (`safety_service.py:273-274`) or in a monitoring round that an emergency stop interrupted
  at its await (`:416`), against "individual features and interlocks must be manually re-enabled" (`:366`);
  a new interlock replaces an engaged one of its name and is not engaged (`:236`).
  `InterlocksHold` allows both and nothing else;
* `start_monitoring` while `stop_monitoring` awaits the watchdog (`safety_service.py:398`) makes a new monitor and
  keeps the watchdog that is then dropped: the monitor runs unwatched, and a probe that hangs is noticed by
  nobody. The exception (`overtaken`) in `WatchdogGuards`, `WatchdogTrips` and `CriticalFailureStops`;
* a feature whose startup raised is FAILED, but the monitor goes by what `check_health` answers (`feature_manager.py:330`, `:501`):
  with a probe that answers HEALTHY nobody acts on it. `CriticalFailureStops` is about what is found FAILED;
* a recovery of a generic feature that waits when an emergency stop comes finds the
  feature in SAFE_SHUTDOWN, not HEALTHY, and starts it again in the safe state
  (`feature_manager.py:1162-1180`): the exception in `ShutdownStands`;

Notifications and BAM:

* finished batches leave `_active_batches` only after another was added, and none is
  once it is full (`async_notification_dispatcher.py:211`, `:228`): if as many batches as
  may run are in flight together, nothing is dequeued again: the exception (`Stalled`) in `TakenUp`,
  which the run reaches;
* rows that do not parse stay 'pending' and use up the room of a dequeue (`notification_queue.py:161-170`): as many as
  a batch holds, in front, and nothing is taken up. The exception (`Cardinality(Ready) > BatchSize`) in `TakenUp`;
* `mark_failed` counts the first try among the retries (`notification_queue.py:247-251`): with `max_retries=1`
  nothing is retried, against `tests/services/test_notification_queue.py:358-359` ("Fail once (should retry)") and
  "Maximum retry attempts" (`models/notification.py:306`). `TriesBounded` states what the code does;
* the move to the dead letters is never committed (`notification_queue.py:734`): a
  notification whose tries are used up stays in the queue as 'processing', and the
  dead letter table stays empty. `HandledOrSpent` exempts it for that reason;
* a packet goes to the first incomplete session of its source (`bam_handler.py:163`): after a
  lost packet a source with two PGNs has its next message returned under the earlier
  PGN with bytes of both. `WholeMessages` for a source that is not trusted;
* a notification refused by a channel's limiter, by routing or by the queue was marked as
  sent all the same, and its repetitions are suppressed for the window
  (`notification_rate_limiting.py:237`); a suppressed one costs a token
  (`safe_notification_manager.py:204`); `max_tracked_items` bounds nothing when all
  entries are recent; the argument `channels` of `notify` is ignored;
* callers that overlap in the first initialization replace each other's queue and debouncer, and a
  duplicate passes: `OncePerWindow` without its condition on `era`. So it is after an initialization that failed at
  the templates or the router (`safe_notification_manager.py:126-155`): limiter and debouncer are new, and the next call makes them anew again;
* `force_queue_processing` and the worker may select the same row before either
  marks it (`notification_queue.py:174`, against "Mark as processing to prevent duplicate processing", `:172`): it is
  delivered by both. The exception (`raced`) in `Exclusive`, `SentOnce`, `TriesBounded` and `Delivery`;
* after a failed write by the timer no timer runs, so the batch waits for the next
  enqueue (`notification_queue.py:661`): `Stored` with "disk" in `Faults`;
* rows that a crash or a timed-out stop left 'processing' are never selected
  again (`notification_queue.py:145`): `HandledOrSpent` with "crash";

Entities and CAN:

* updates while the rows are loaded, or after `stop` removed the listener, are not stored;
  a restored row lands in a field of its own and nests one level deeper at each
  restart (`entity_persistence_service.py:151-157`, `entity_model.py:128`);
* an interface may be registered for two networks, which is only logged (`multi_network_manager.py:162-168`): each
  opens a bus of its own on it, and `interface_mapping` keeps the later one;
* `shutdown_bus` gives up when every method raises or is missing (`multi_network_manager.py:121-136`): an isolated network
  keeps its bus, and is not recovered by the monitor; the next recovery opens a second bus over it, and
  `unregister_network` drops the node with a bus still open;
* the monitor undoes an isolation made by hand (`multi_network_manager.py:424-431`, against "Manually
  isolate a network.", `:592`); a FAULTED network is never tried again;
  two recoveries of one network at once leave a bus open that no node holds; `last_message_time`
  is set when a bus is opened only (`:368`), so every network is DEGRADED after 30 s for good;
  a manager that is started again has no monitor (`:387`);
* feature shutdown ends no writer and closes no bus (`can/feature.py:417`), so a restart
  leaves two writers, and an older message may be repeated after a newer one was sent;
* not in a model: where the writer opens a bus itself and fails, it calls `task_done`
  twice (`integrations/can/manager.py:63`, `:126`), which raises and ends it; no present caller gets there;
* not in a model: `can/feature.py:685` compares the PGN with 0xEC00 and 0xEB00,
  while a broadcast frame's PGN, taken as it is there, carries the destination
  0xFF (0xECFF, 0xEBFF), so the handler is not reached by broadcasts.

**Bounds.** Two features are the least with a dependency between two critical
ones. Two attempts are the least with a back-off and a last attempt. One caller interleaves with the
lifespan, the check, the monitor and the watchdog; `lifecycle` has the two that a validated
stop and an enable take. With a caller as well, `safety` is too large to be exhausted; `safety_probes` has one, and the
theorems hold for any number. Four answers of a probe are those that leave a feature as it is, fail it, and
take the setter through its table and through its fallback. Two notifications fill a write batch, a batch
of the worker and one of the forcer, so each may have what the other has selected; two tries have a retry and
a last one. `delivery_live` has two batches and two rows, so all may be in flight at once (`Stalled`), and an unreadable row
that is selected with every other. In `bam` two sessions for three
sources make eviction an everyday event, and messages of different length
make a packet number that one session takes and another refuses. In `persistence`
three entities fill a batch of two and leave one queued, and two updates of an entity are the least
with an older and a newer state. In `transmit` three writers and four messages put
two repeats of older messages around a newer one. In `networks` two networks
share an interface from the start, so a bus can be closed by the wrong owner or be left open beside the other's, and three calls are
an isolation, a recovery and a removal, or a removal and a registration around a recovery; a bus
fails to shut down while no more than `MaxOpen` are open on its interface, which bounds those left open. In `front_end` a bucket of two
tokens, two tokens in three ticks and a window of two ticks make refills round and
windows end within the four ticks; `MaxTracked = 1` makes a clean-up inside `allow` an everyday
event; `MaxEra` bounds the initializations that fail after making the limits: none may once they have been made so often. `MaxUpdates`,
`MaxMessages`, `MaxStarts`, `MaxCalls` and `MaxTime` stop their counters in the guards. The counter
`tries` stops at `MaxRetries + 1`, one beyond what `TriesBounded` allows; no other
counter is cut off, and the state spaces are complete for these constants.

**Symmetry** is used in `lifecycle`, `safety`, `delivery` and `front_end`, whose callers,
interlocks, notifications, or callers and keys, are interchangeable and which check no liveness. The features have different
classes and roles, the sources of `bam` different losses.

**Fairness.** asyncio runs ready callbacks first in, first out. Weak fairness
of a check's steps and strong fairness of a resumed caller (whose resumption is
disabled while a check holds the loop) express that. The manager's liveness also
assumes that a feature's startup, shutdown and probe return or raise:
`CallsReturn` and `CheckEnds` could not hold otherwise. The service's liveness
does not: `WatchdogTrips` is about probes that never answer. It assumes strong
fairness of the monitor's and the watchdog's timers and of a cancelled task's end (all wait for a loop that checks
hold), that checks of other callers end, and that the monitor does not meet another caller's check at
every one of its rounds. Nobody need start or stop the monitor.
The dispatcher's assumes that its tasks go on, that a commit is not refused
for ever, that a retry falls due, and that the recipient's side answers; the lock of a
batch write and a dequeue that is emptied by others are why three of its conditions
are strong. Nobody need enqueue, stop, start, force or clean up.
The worker of the persistence goes on, a stop that waits for it returns, and the disk
does not fail for ever (strong, since retries and put-backs come between). Sleeps of
recoveries, of the monitor and of writers end. The weak fairness of `Take` and
`TakeMalformed` is joint for all writers: which of them gets an item is left open.

**Deadlock** is checked in every run but `transmit` and `writer_lives`, where all messages
may be sent and no start be left; a backend that has shut down for good
stays so by the step `Exited`.

## 4. Proofs

For all constants that satisfy `ManagerAssumption`, `FirstListedAssumption`,
`SafetyAssumption`, `QueueAssumption`, `DispatcherAssumption`,
`BAMAssumption`, `PersistenceAssumption`, `NetworkAssumption`, `TransmitAssumption` and
`FrontEndAssumption`. TLC evaluates these on every run that has them.

* `SetterObeysTable`: the setter moves along the table or not at all.
* `TypeCorrect` (`Spec => []TypeOK`): inductive as stated. It needs that a call
  in back-off has an attempt left and that the stack of the propagation holds
  frames; `BeginAttempt` and `Notify` are the steps with work in them.
* `StateMoves` describes what one step can do to the state of one feature, whoever takes it:
  the setter's choice, HEALTHY to DEGRADED when a dependency failed, or, for a generic feature, STOPPED
  and HEALTHY, the latter only where somebody starts it. One lemma per group of
  actions proves it, and four theorems follow from it in a few lines each:
  `PositionSafe` (`PositionNeverFails`); `CriticalNeverFailsAtOnce`, the same for
  HEALTHY critical features, if the hash seed does not list FAILED first
  (otherwise it is false, see the deviations); `TableIsFollowed`: integrated features keep to
  VALID_TRANSITIONS; `ShutdownIsKept`: only a recovery between two attempts, of a generic
  feature, takes an enabled feature out of SAFE_SHUTDOWN into operation.
* `OwnFailuresOnly` (`Spec => []OwnDependencies`): not inductive alone;
  `PropagationInv` adds that every frame of the stack has only dependents of the
  changed feature left to visit.
* `ReportsEveryFailure` (`[]ReportComplete`) and `ViewIsTrue` (`[]TrackedAgrees`) when
  `Monitored = {}`, for any number of callers. `ScanInv`: a check never suspends, so what it has
  seen of the features it is done with is still their state and their tracked state; the changes it
  lists are none, or of a disabled feature that it has as STOPPED, and the frames of its
  propagation are of such changes only. Hence also
  `NothingIsPropagated`: a check changes no state and no failed dependency. With probes all three are false.
* `DependentsAreKept` (`HistorySpec => DisableKeepsDependents`), for any callers and graph. `StopInv`: what the
  validation found holds until the shutdown returns, but for the dependents in `late`; that these are the only
  exception is what two callers, or a recovery that ends meanwhile, could break.
* `EveryCallEnds`: `StepsLeft`, a natural number of at most `3 * MaxAttempts`, falls with every
  resumption of a call. So no toggle or recovery goes on for ever; that each resumption comes
  is fairness, and `CallsReturn` stays with TLC.
* `StopSafe` (`[]StopImpliesSafeState`), inductive as stated.
* `MonitorGuarded` (`[]WatchdogGuards`): `WatchdogInv` adds that a monitor without a watchdog task, or with one that is
  being stopped, was started during that stop, and that a finished watchdog means the safe state.
* `SafetyTypeCorrect`, on top of `TypeInductive` for the manager's part.
* `InterlocksHeld` (`InterlocksHold`), from `SafetyTypeOK`: what a check leaves engaged
  (`CheckedReleases`, `ViolatedReleases`) and what a second stop does to it (`StopHolds`, `RoundHolds`).
* `SafeStateIsReached` (`SafeStateReachesOperating`), without assumptions: from
  `StopImpliesSafeState`, since every way into the safe state runs `_enter_safe_state`, and from
  `ShutdownAssigned`, since `emergency_stop` assigns twice to the position-critical features.
* `ServiceStep`: a step of the composed system is the manager's, or a `ServiceMove`, which
  shuts features down, ends a check or does nothing to them. By it the manager's theorems hold under
  the service: `PositionSafeUnderService`, `DependentsAreKeptUnderService`, `ShutdownIsKeptUnderService`,
  `EveryCallEndsUnderService`, and `ReportsUnderService` when `Monitored = {}`.
* `FailureStops` (`FailureStopsAll`) when `Monitored = {}`, from `ScanInv` and `QuietInv` together, which says
  that the monitor's test of the safe state is still true when its report arrives: the
  first report after a safety-critical feature has FAILED sets both flags, engages
  every interlock and shuts down what must be. It is the step on which `CriticalFailureStops` rests; that
  the report comes is fairness.
* `NotificationTypes` (`[]TypeOK`): `TypeInv` adds that a forced run under way has
  batches left.
* `NothingLost` (`NothingVanishes`): `BatchInv` adds that the batch's rows exist
  exactly when its write is committed, so clearing the batch drops nothing.
* `NeverTwice` (`[]Exclusive`), for any forcers: `HandInv` ties what is in a batch to the
  status 'processing' and what is selected to 'pending', each for one handler or dequeuer only, of every notification not in
  `raced`. The UPDATE of a dequeuer (`HandOverHeld`) is the step with work in it: what it marks nobody else has.
* `SentStays` (`SentOnce`), from `HandInv`.
* `TriesKeepLimit` (`[]TriesBounded`): `TriesInv` relates the number of
  tries to `retry_count` at every stage of a notification not in `raced`.
* `NoneLeftBehind` (`[]HandledOrSpent`) when `Faults = {}`, for any finite set of forcers. With one,
  two batches may hold the same row and read and write its `retry_count` in any order, so
  `CountInv` does not count exactly: `retry_count`, or what is about to be written to it, plus
  the refusals not yet counted never exceed the tries made. The deliveries refused are
  a finite set, and a last refusal that leaves the row 'processing' has used up its tries. `SlotInv`
  says which batches can still have work.
* `ImplementsDelivery` (`DeliveryKept`), for any forcers: `FateOf` maps the initial
  state to Delivery's, and by `RefinementStep` every step to one of Delivery's or a stutter. `RacedInv` adds that a
  notification in the batch is raced only once its row is there.
* `BAMTypes`, `Limited` (`[]SessionBound`), `MessagesWhole` (`[]WholeMessages`) and
  `LeavesNothing` (`[]NoLeftover`) rest on one invariant, `BAMInv`: for a
  trusted source every session is for the message the source is sending and holds packets
  of that message only, all sent so far if none can be lost. Lemmas
  say what an announcement (`ControlCreates`) and a packet (`DataStores`) do to
  the table, and `AllNumbers` that as many packets as announced are all of them.
* `PersistenceTypes`, `UpdatesOnTheirWay` (`[]OnItsWay`) and `RowsNeverGoBack` (`NeverBack`):
  `PersistenceInv` adds that memory is never behind what was heard, and that the row of an entity that
  waits to be written is not newer than memory, nor than the state in the write under way. It
  may be newer otherwise: after a restart. The put-back at the
  end of the retries and the last flush are the steps with work in them.
* `OperationalNetworksHaveBuses` (`[]OperationalHasBus`), inductive once only registered
  networks hold a bus; `NothingOpensUnregistered` (`NoneOpenedUnregistered`), from the lookup
  in `Initialize`; `HeldBusesAreOpen`: at least as many buses are open on an interface as nodes hold there, by
  counting the holders, which may share it by registration; `NetworkTypes` rests on it, for it keeps the counts from going below zero.
* `TransmitTypes`, `FirstSendsInOrder` (`[]FirstInOrder`) and `NewestHasLastWord` (`[]NewestLast`):
  `OrderInv` says that the queue is in order and newer than all that was sent, that the
  sleepers are the writers with a repeat to come, the oldest message first, and that
  whatever is newer than a message to be repeated will be repeated too or has failed.
* `FrontEndTypes`, `RateIsBounded` (`[]RateBounded`): tokens left and taken together never
  exceed the initial ones and those due up to the last refill, where rounding down per refill
  stays below rounding once. `OneInAWindow` (`[]OncePerWindow`): the debouncer keeps the
  time of every notification admitted within the window, through both kinds of clean-up.

Two assumptions say which system a theorem is about. No feature in the repository has a
probe that suspends (`Monitored = {}`, as in `lifecycle`); `Faults = {}` is a
database that answers (`delivery_live`). What `late`, `overtaken` and `raced` except is
no assumption on the system: the models have those steps, and the properties say of everything else that they
do no more harm. The deviations describe each.

Only model-checked: the liveness properties (`CallsReturn`, `CheckEnds`, `CriticalFailureStops`,
`WatchdogTrips`, `Stored`, `TakenUp`, `ForceReturns`, `EventuallyStored`, `SilenceNoticed`,
`SentTwice`), which need fairness and ENABLED and are out of the prover's reach. All other
properties of the passing runs are stated by a theorem, some under the assumptions above.

## 5. Not modelled

Of the modelled components: logging, audit records, the wording of answers, the
authorization code itself (a Boolean input), the merge of configuration sources
(its result is any set that keeps mandatory and safety-critical defaults on), `update_feature_state`
(never called) and the read-only reports. `shutdown` of the lifespan is assumed
to begin when no request is in flight, as the server drains them. Of the queue:
priorities (which pending rows come first is left open), the statistics and
`retry_from_dlq` (the dead letter table is always empty). Of the dispatcher: the
channels behind a delivery, its metrics and the delays. Of BAM: the bytes of a
payload, and announcements that lie about the size. Of the front end: templates and their
sandbox, the rules of the router, the adaptive limiter and the batcher (no code uses
them). Of CAN: the listeners, the simulation, the sniffer log, the deduplicator,
the message router (a placeholder that counts). Of entities: the content of a state, and light
control, which changes the state and sends no message (`_execute_light_command` has no caller).

Most of the backend's lines are in parts whose correctness is not a matter of the order of
events: request parsing and delegation (`api`), decoding of bit fields by a data file
(`integrations/rvc`, `j1939`), settings (`core/config.py`), e-mail templates,
statistics, trends and scores (analytics, diagnostics, reporting), and rows changed by one
statement per request (authentication, repositories). They keep no protocol state between
requests, and a model of them would restate them. The brake monitor and the safety
state engine have state, but no code gives them events; device discovery's answers
never match its polls, because it cuts PGNs to 16 bits. Reasons for every other
component are in `PROJECT.json`.

## 6. Plan

1. **Feature core** (done): `FeatureStates`, `FeatureManager`, `SafetyService`, their proofs.
2. **Notification delivery** (done): `NotificationQueue`, `NotificationDispatcher`, `Delivery`,
   the refinement and its proof; **NotificationFrontEnd** with proofs (done).
3. **BAMHandler** (done), with proofs of all its invariants.
4. **EntityPersistence**, **MultiNetwork**, **CANTransmit** (done), with proofs of all their invariants.
5. Proofs of all safety and action properties of the runs (done). Next: ranking arguments as in `EveryCallEnds`
   for the other liveness properties, a health check and the retries of the persistence first.
6. **DependencyOrder**: the topological sort of `feature_manager.py` as a pure
   algorithm against its definition, over all graphs of four features. The receive
   path of `can/feature.py` with the deduplicator, Firefly's multiplexed messages.
