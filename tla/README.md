# Verification of the oneM2M-DDS IPE

The IPE (interworking proxy entity) connects a oneM2M CSE with ROS 2 robots.
Observed topics become content instances (CINs) in the CSE; content instances
that clients create in input containers become topic commands, service calls
and action goals on the robot. This directory holds TLA+ models of the parts
of `src/src/ipe` whose correctness depends on interleavings, failures and
restarts, their TLC configurations and TLAPS proofs.

Paths below are relative to `src/src/ipe`.

## The system

### Threads

| thread | runs | code |
|---|---|---|
| executor | ROS callbacks, timers, `drain()`; one callback at a time | `runtime/app.py` |
| listener | HTTP handler threads or the paho thread, `on_notify` | `onem2m/notification_server.py`, `onem2m/mqtt_listener.py` |
| provisioning worker | jobs: sweep, reconcile, discovery, cleanup | `runtime/bindings.py` `_prov_worker` |
| outbound workers | deliver operations to the CSE, replay the spool | `runtime/outbound.py` |
| approval popup | asks the operator | `runtime/approval.py` |
| main | boot, spin loop, shutdown | `runtime/app.py` |

### Components

| component | state | operations | depends on |
|---|---|---|---|
| Admission (`runtime/inbound.py`, `onem2m/catchup.py`, `runtime/queues.py`) | table `processed`, cursors `last_cin_ct`, markers `catchup_cin_ct`, two lanes, admission lock | NOTIFY, sweep, `drain`, boot sweep, shutdown, cleanup | listener, CSE, state |
| Transactions (`runtime/inbound.py`, `core/transaction.py`, `adapter/ros2.py`) | table `transactions`, `_inflight`, `handles`, `sent`, `pending_cancel` | dispatch, answers, cancel, timeout sweep, termination, orphaning at boot | admission, discovery, outbound |
| Outbound (`runtime/outbound.py`, `runtime/queues.py`) | three class queues, active keys, table `spool`, CSE-down flag | `put`, `claim`, `deliver`, spool and replay, flush | CSE client, bindings (recovery) |
| Bindings (`runtime/bindings.py`, `runtime/provisioning.py`, `runtime/discovery.py`) | specs, routes, plan generations, availability, pending removals | reconcile, discovery, staged activation, removal | CSE, admission, status |
| Status (`runtime/status.py`) | cache, revisions, pending set, republish flag | tick, publish | outbound, adapter |
| Approval (`runtime/approval.py`, `runtime/inbound.py`) | pending approvals, saved decisions | ask, decide, apply | admission |
| QoS (`qos/`) | none; policy decisions and their codec | reconcile, guard, demote | adapter, status |
| MQTT client (`onem2m/mqtt_client.py`) | waiters, subscriptions | request, answer, disconnect | broker |
| Pipeline (`core/pipeline.py`, `core/filter.py`, `core/anomaly.py`, `core/command.py`) | token buckets, windows | filter, sample, gate | clock |
| State (`runtime/state.py`) | the database | one transaction for each method | |
| Configuration (`runtime/settings.py`, `planning.py`, `naming.py`, `cli.py`) | none | load, validate, resolve | |

### What is hard, and what makes each part correct

- **Admission.** A NOTIFY is sent once and may be lost, late, doubled or out
  of order; `ct` counts seconds; lanes are bounded; a crash loses them; old
  rows are cleaned up. Correct: a request has at most one effect; nothing
  admitted is left with nobody carrying it; the marker passes nothing that was
  not admitted; every request is served in the end, also after an overflow.
- **Transactions.** Two threads end the same transactions; answers race
  timeouts, terminations and restarts; a cancel may precede the goal's handle.
  Correct: an answer is published exactly if it ended its transaction; a
  transaction ends once; a dispatched row is never forgotten; everything ends.
- **Outbound.** Several workers retry, spool and replay while producers go on.
  Correct: one worker at a time delivers for an interface; nothing older
  overwrites something newer; a row in the spool always has somebody who will
  look at it; a TERMINAL operation is settled or kept, lost only in a crash or
  when the spool is full.
- **Bindings.** A plan is prepared on one thread and activated on another, and
  either half can fail. Correct: endpoints, routes and configuration are of
  one generation (which the code keeps in part, see the divergences); staging
  always ends; a flicker of the graph unbinds nothing; the bindings end up as
  the graph is.
- **Planning.** Rules, captures, owners and paths combine. Correct: what a rule
  says is overruled by a rule that stands above it and by no other; a narrower
  pattern is not ranked below a wider one; no two interfaces share a resource.
- **QoS and status.** Publishers come and go while clients change what is
  configured and the publication is held back. Correct: the request in force
  fits the publishers; a refused request leaves no trace; no change is
  overwritten unseen; the CSE ends up showing what is in force.
- **Commands and approval.** Approvals arrive late, topics vanish and return,
  the watchdog races the next command. Correct: only approved topics publish;
  a stop follows a command, once; the stops of a shutdown end what was queued
  before them.
- **MQTT client.** An answer must reach the request it belongs to. Not modelled.
- **Pipeline.** Sequential filters in front of the outbound queue. Not modelled.

`PROJECT.json` lists the hazards one by one, at their lines.

## Modules

| module | models |
|---|---|
| `RequestLedger` | abstract: what the IPE promises about a request |
| `Admission` | from the CIN to the executor and back to a closed row |
| `Transactions` | from a dispatched row to the end of the call or goal |
| `Delivery` | abstract: what becomes of a TERMINAL operation |
| `Outbound` | from the producer through queue, workers and spool to the CSE |
| `Planning` | from rules and graph to specs, and from specs to resources |
| `Bindings` | snapshots, jobs, plans and generations, across the two threads |
| `QosPolicies` | the decisions of `qos/`, and what DDS matches |
| `QosControl` | the observe QoS of a topic: adapter, status, client changes |
| `Commands` | the command path of a topic: gates, approval, watchdog |
| `MC...` | their instances for TLC |
| `AdmissionProofs` | theorems of `Admission` |
| `TransactionsProofs` | theorems of `Transactions` |
| `OutboundProofs` | theorems of `Outbound` about workers, lanes and wake-ups |
| `OutboundDeliveryProofs` | `Outbound` implements `Delivery` |
| `BindingsProofs` | theorems of `Bindings` |
| `QosProofs` | theorems of `QosPolicies` and `QosControl` |
| `CommandsProofs` | theorems of `Commands` |
| `PlanningProofs` | theorems about the operators and runs of `Planning` |

`Admission` and `Transactions` both implement `RequestLedger`, the one up to
the effect of a request, the other from its dispatch to its end, and `Outbound`
implements `Delivery`, each by a refinement mapping; `QosControl` extends `QosPolicies`. The other
modules meet at interfaces that each of them states as a promise: `Outbound`
keeps the order of one interface, which `QosControl` takes for granted;
`Planning` decides which interfaces there are, which `Bindings` takes as the
snapshot itself; `Transactions` starts where `Admission` executes a request.

Operators whose comment starts with `Mutant:` are wrong on purpose: they are
faulty variants of the definition that follows them and are used by no
specification. `PROJECT.json` ("mutants") says which property rejects each.

### Admission

State of the code and of the model: `row` is `processed.state` (the terminal
words are reduced to `finished`, `unknown` and `shuttingDown`), `lastCt` and
`marker` are the two keys of the kv table, `control` and `normal` the lanes,
`woken` the guard condition, `holder` the admission lock, `batch` and
`executing` the local variables of `drain`, `toSweep`, `sweeping`, `left` and
`completed` those of the sweep. `runs` and `earlier` are history variables
that count the effects of a request.

Actions follow the threads. Listener: `ReceiveNotify`, `RefuseNotify`; the
second half of `_admit`, under the lock, is `Enqueue` or `Overflow`, so that a
crash may fall between the row and the lane. Worker: `StartSweep`, `ListPath`,
`SweepAdmit`, `SweepRaises`, `FinishPath`, `ListFails`, `Cleanup`. Executor:
`Drain`, `Dispatch` (the compare-and-set), `Execute` (the effect), `Callback`
(an answer that closes a row later), `EndDrain`. Main: `Boot`,
`ActivateRoutes`, `InitMarkers`, `BootSweep`, `Stop`, `JoinWorker`,
`ShutdownItem`, `ShutdownSpin`, `Exit`, `Crash`. `Create` and `Tick` are the
CSE's.

Abstracted: the content of a request is its key, a CIN is well-formed or not,
a route exists for every container once the routes are active. Left out: the
IPE's own notifications, exceptions of the database, internal events in the
control lane.

### Transactions

`tx` is `transactions.state`, `owner` remembers which request inserted the row
(the table has only the correlation id), `inflight` is `_inflight`, `sent`,
`handles` and `pendingCancel` are those of the adapter; a service call waits
in `sent` as well. `at`, `job` and `verdict` say where the executor is inside
a callback, `termAt`, `todo` and `target` where the worker is inside
`terminate_inflight`: the worker's steps fall between the database statements
of a callback. `up` is what `server_available` sees, `seen` the newest graph
snapshot. `told`, `answered`, `asked`, `cancelSent`, `calls` and `stranded` are
history variables; `calls` counts how often a request was sent to its server.

The ledger's word on a request is its row, with one exception that TLC found
(`TransactionsRaces.cfg`): a server goes down, the snapshot shows it, it is up
again, and a request is dispatched; the worker, terminating with the old
snapshot, closes the row between `_inflight` and the call, and the executor
sends the request all the same. Its row says failed before it has run, so
`BeforeCall` counts it as started until the executor is done with the call.

Abstracted: a request counts as succeeded or failed, time is a choice (a
bounded request may time out whenever the timer runs), the grace polls are the
moment at which `Vanish` is taken, a set of requests of one kind times out in
one step. Left out: feedback, the cleanup of transactions, the unbinding of a
vanished endpoint.

### Delivery and Outbound

`terminal`, `latest`, `bulk` are the lanes of `OutboundQueue`, `active` its
`_active_keys`; `spool` is the table, `pending` is `_spool_pending`; `pc`,
`held`, `fromSpool` and `tries` are where each worker is in its loop;
`transportDown` is `_cse_transport_down`. `settled`, `lost` and `direct` are
history.

`Produce`/`MarkSpooled` are `put` and the spooling of what finds no room.
A worker goes through `Loop`, `Claim`, `Send`, `Answer` (the four kinds of
answers of the CSE), `Report`/`Reported` (a refusal becomes an event),
`SpoolHeld`/`WakeDrainer`; the drainer also through `List`, `Replay`, `Delete`
and `EndReplay`, the `finally` clause. `Stop`, `RequestStop`, `Join`,
`Persist`, `Crash` and `Boot` are the process, `GoDown`, `ComeBack`,
`LoseResources`, `Provision` and `Expire` the environment.

Abstracted: an operation is a number in the order of production; the byte
limit of the spool is one with its row limit; the rate limits decide before
`put`; the producers of different threads are one, whose second step may be
delayed; a request takes effect when it is answered or never; a rejection is
reported once, not again after a crash. Left out: exceptions of the database.

### Planning

`rules` and `style` are the configuration, `graph` what ROS shows, `plan` the
active specs by key, `misses` is `_plan_misses`, `tree` the resources. The
operators follow `resolve`: `Matches` and `Specificity` (`naming.py`),
`MergeRules` by precedence, a recursive function over `DeepMerge`, candidates,
robots, paths and `Apart`, the check of collisions (`planning.py`), `Owned`
and `Roots`, what is created and deleted (`provisioning.py`). `Appear`,
`Vanish` and a refresh, which fails as a whole (`RefreshFails`) or succeeds,
are the actions.

Abstracted: a segment is one character that sanitization leaves alone, or a
wildcard, and a pattern has one `**` at most (`Segments` and `MaxPattern` bound
the patterns of an instance); a field is a block or a plain value; a refresh is one step (`Bindings` has the steps);
the builtin deny list is that of hidden names. Left out: path captures and
templates, an AE for each robot, flexContainers, saved approvals and
overrides, types that cannot be loaded, the other errors of `resolve`.

### Bindings

`jobs` with `snapshot` and `unwanted` is `ProvisioningQueue`; `at`, `job`,
`seen`, `todo`, `plan`, `previous` are the local variables of the worker;
`misses` and `retry` are `_plan_misses` and `_resource_removal_pending`;
`lane` holds the plans in the control lane; `rc`, `provRc`, `bound`, `routes`,
`generation`, `staging` are the fields of the same meaning.

Executor: `Poll`, and for the plan at the head of the lane `Superseded`,
`Rollback` (an addition cannot be bound) or `Activate`. Worker: `StartJob`,
`Remove`, `EndRemoving`, `Resolve`, `Provision`, `EnqueuePlan`, `LaneFull`,
`AbsorbRecovered`. `prompt` is chosen at the start: whether a plan is always
activated before the worker takes up its next job. `base` is the generation
that a plan names as the one it changes, `basis` the one with which its
snapshot was compared; the code has the first only. `absent` counts the
snapshots in a row that missed an interface, `removed` and `left` are the
interfaces that a plan has removed and that have left the active configuration;
these, with `basis`, are history.

Abstracted: a resolution is the snapshot; reconcile is a recover job, catch-up
and cleanup jobs change nothing here; `Resolve` reads the active and the
provisioner's configuration in one step. Left out: deferred types and
exceptions of `resolve` (they are in `Planning`).

### QosPolicies and QosControl

A kind is its strength in its policy's table, a duration has the two sentinels
and the millisecond grid of `qos/_shared.py`. `ReconcileObserve`,
`ReconcileCommand`, `StrictAxes` and `Demote` are `qos/engine.py`;
`Compatible` is what rclpy answers.

`adapter` is the `_ObserveState` and the spec, `pub` the fields of
`StatusPublisher` for the topic, `out` what is on its way to the CSE, `cse`
the flexContainer, `inbox` the control lane, `saved` the override in the
database. Handlers of the executor are `Poll`, `Tick`, `Dispatch` (a
flexContainer update or a policy command) and `Elapse`; `Deliver`,
`ClientUpdates`, `ClientPolicy`, `GraphChanges`, `CseRecovered` and `Restart`
are around it.

Abstracted: the labels operation and what provisioning has stored of the
topic. Left out: the node and endpoint records, which are written at every
change and never read; the command direction, which shares `QosPolicies` but
has no loop through the CSE.

### Commands

`spec`, `plan`, `publisher` are the topic's entry in `specs_by_key`, a
prepared plan for it and its `_CommandState`; `control` is the control lane,
`normal` and `decided` are the commands and the decisions from the CSE in the
normal lane (in which order the two follow each other there is left open),
`pending` is `_confirm_pending`, `prompts` the popup, `saved` the
approvals in the database, `robot` what the last messages made of the robot.
`lost` and `approvals` are history. Plans: `Prepare`, `Activate`, `Vanish`,
`RebindQos`. Commands: `Arrive`, `GrowOld`, `Refill`, `DispatchCommand` (the
gates in their order). Approval: `DecideAtCse`, `AnswerPrompt`, `Decide` (with
`Apply`). Adapter and process: `Overdue`, `Watchdog`, `TakeOver`,
`SafetyStops`, `RejectQueued`, `CloseEndpoints`, `Restart`.

A shutdown has three phases. After `SafetyStops` (`stopping`) the executor does
not run, but handlers that the listener has started still admit. `RejectQueued`
empties the lanes. From then on (`spinning`) the executor runs again, as long
as a service or an action is in flight, with all its callbacks: the timer, the
QoS refresh, and `drain`, which dispatches what has come in since
(`inbound.py:132-138`); `ExecutorSpins` is the guard of these actions. With
`CloseEndpoints` the process is `down`. Each command remembers the phase in
which it was `queued`.

Abstracted: the echo suppression by hash, clamping and the validation of
payloads, which change nothing of this state.

## Runs

| run | expects | shows |
|---|---|---|
| `admission_crash` | pass | `QueuedHasCarrier`, `WaitingWakes`, `MarkerCoversAdmitted` with two CINs (one a cancel), NOTIFYs lost, late or doubled, lanes of one, a crash, a shutdown |
| `admission_retention` | pass | `AtMostOnce`, `ReplaysAfterRetention`, the refinement `LedgerSpec`, with a request, its retry and a malformed CIN, cleanup and a crash |
| `admission_live` | pass | `EveryRequestServed` with two requests, lost NOTIFYs, failing listings and a lane of one that overflows |
| `transactions_races` | pass | `SuccessMeansAnswer`, `DispatchedOwned`, `CancelNotLost`, the refinement `LedgerSpec`, with three requests, two of them with one correlation id, and a server that comes back |
| `transactions_live` | pass | `AnswerMatchesTx`, `OneOutcome`, `TerminalIsFinal`, `EveryRequestEnds` with a crash, a shutdown and a server that goes down |
| `outbound_races` | pass | `InterfaceSerialized`, `DirectInOrder` with two workers, two interfaces, all three classes, a refusal with its report, an outage and an unreadable row |
| `outbound_live` | pass | `SpoolWakes`, `ReplayFromHead`, the refinement `DeliverySpec`, `EverythingSettles` with a crash, a shutdown, an outage, lost resources and a spool of two rows |
| `bindings` | pass | `EndpointsFollow`, `StagingFollowsPlans`, `FirstKeepsResources`, `GraceRespected`, `Converges` with two interfaces that flap, a failure at every step that can fail, a recovery, plans that are activated at once or late |
| `planning` | pass | `LeavesByPrecedence`, `NarrowerIsNotLower`, `ResourcesApart` for ten rule sets, both path styles and every order in which four interfaces appear |
| `qos` | pass | `RequestsMatch`, `OffersSatisfy`, `AppliedFollowsPeers`, `SavedIsConfigured`, `NoLostUpdate`, `PublicationSettles` with two publishers, updates, policy commands, failures, a restart |
| `commands` | pass | `PublishesOnlyApproved`, `StopsOnce`, `WatchdogStops`, `StopsEndQueue` in three setups, with a topic of two types that vanishes and rejoins, and a shutdown that spins the executor |
| `planning_removal` | violation | `ActiveKeepsResources`: an interface that appears during another's grace, at or below its path, loses its resources when the grace ends |

Bounds, and why they suffice. Admission's hazards need two requests (one
passes the other), one of them a cancel, retried or malformed, a lane that holds one of the two
and a batch that leaves one behind; ticks of `ct` up to `MaxClock` = 2 or 3
give equal and different seconds; one crash reaches every recovery step, from
any point. Transactions' hazards are between one request and two threads, or
between two requests with one correlation id; one crash, one stop and one
reappearance of a server lead into every branch. Outbound's are between two
workers about one interface, and between the drainer and a producer; lanes of
one and a spool of one or two rows make every limit bind, and five operations
give each class an older and a newer one or a neighbour. Bindings needs two
interfaces (one that is added while the other goes), a grace of two and a
lane of two, so that a plan can be superseded by the next. Planning needs a
pair of interfaces for each way to collide (equal names of two kinds, a path
below another, an alias, two owners). QosControl and Commands are about one
topic each and bound the events of their environments by kind (`Limits`) and
altogether (`MaxEvents`): two QoS changes against each other, and a command
with up to five disturbances. Revisions from `RevMax` on are one value.

`RequestsMatch` and `OffersSatisfy` hold in every state for its publishers and
configuration and, beyond it, for every pair of sampled peers under every
sampled configuration; the samples have both sentinels, a duration on each side of
the configured one, one of 0 ms, and unknown kinds. A configured 0 ms is the
middleware's default (`IsDefault`), which the two statements about the strict
guard and about a satisfied offer except.

Deadlock is checked everywhere but in `commands`, where the process may be
down with no restart left.

Fairness. `Admission!Fairness` assumes that each thread of the process goes on,
and strong fairness of a listing, which may fail (`ListFails`) again and again
but not for ever; a NOTIFY may be lost, so nothing is assumed of the listener.
`Transactions!Fairness` assumes that the executor, the worker, their timers
and the boot go on; nothing of the robot, which may never answer, of the
servers, or of the requesters. `Outbound!Fairness` assumes that producers,
workers and jobs go on, that the CSE comes back and the service is started
again, and that the drainer, which passes the head of its loop again and
again, does not overlook a set `pending` for ever (its condition variable
wakes it). `Bindings`, `QosControl` and `Commands` assume that the timers of
the executor recur and their worker goes on; in the latter two only the
successful variant of a handler is fair, the failing ones are bounded. Every thread's loop catches the
exceptions of its body (`app.py:263`, `bindings.py:512`, `outbound.py:307`),
which is what justifies it.

## Known divergences

One disagreement between code and documentation is a run: `planning_removal`.
The others below are properties that the code does not keep; each names the
module and constants with which TLC shows it, where it is modelled.

- A request that waits in a lane is lost by a crash when the marker has passed
  it, although `state.py:343` says that a sweep can accept it again:
  `OverflowRecoverable` with the constants of `AdmissionCrash.cfg`. No run
  checks it: without a crash it says little more than `EveryRequestServed`.
- A request whose row was cleaned up runs again when the sweep lists it:
  `NeverReplayed`, `AdmissionRetention.cfg`. What the code keeps is the time
  between the two (`ReplaysAfterRetention`).
- A NOTIFY before the first marker is written makes that marker skip older
  requests. `MarkerCoversAdmitted` leaves out a path's first marker
  (`marker # Missing`); without that condition it is violated in
  `AdmissionCrash.cfg` with `KnownPaths = FALSE`.
- A malformed CIN blocks every later sweep of its container
  (`runtime/dispatcher.py:133`): `EveryRequestServed`, `AdmissionLive.cfg` with
  `Malformed = {c1}`.
- A goal outside `goal_fields` leaves an open transaction for ever
  (`inbound.py:616`), and a server that restarts between two polls takes an
  unbounded goal with it: `EveryRequestEnds`, `TransactionsLive.cfg` with
  `Unfit = {g}` or `MaxFlaps = 1`. An answered request may be recorded as
  failed by a vanished interface: `AnsweredNotFailed`, `TransactionsLive.cfg`.
- A plan that is activated while the worker provisions leaves routes of the
  older configuration behind (`bindings.py:517`): only discovery plans carry a
  generation, and it is read when the plan is complete (`bindings.py:632`),
  not when its snapshot is compared: `OneGeneration`, `Promptness = {FALSE}`.
  What holds at any pace is `EndpointsFollow`: endpoints and configuration,
  once equal, are taken apart by no step but the activation of a plan that a
  newer one overtook between its snapshot and the reading of its generation.
- The resources of an interface that rejoined are removed by the job, or by the
  retry of a job, that was meant for its former life: the job is put behind
  whatever waits (`bindings.py:445`), and a discovery job before it may bring
  the interface back; `_remove_interfaces` (`bindings.py:558-570`) does not look
  at what is active. `ActiveHasResources`, `Bindings.cfg`, also without any
  failure (`MaxFailures = 0`). `FirstKeepsResources` is what remains: an
  interface that no plan has removed before keeps its resources.
- `_plan_misses` of an interface that is removed is not reset
  (`bindings.py:592-600`), so that after it has rejoined one missing snapshot
  is enough, if none has seen it bound in between: `GraceEveryTime`,
  `Promptness = {TRUE}`, `MaxFlaps = 3`. `GraceRespected` is about an interface
  that has not left before, at any pace of the plans.
- An approval applies to whatever type the topic has when it arrives, although
  `approval.py:34` says that a type change invalidates it (`inbound.py:436`,
  `_confirm_pending` keeps the old proposal): `ApprovedForType`, `Commands.cfg`.
- The stops of a shutdown are not the last word: a command that a late handler
  admits after the queue was rejected is published while the shutdown spins the
  executor (`inbound.py:132-138`), and nothing stops the robot after it:
  `StopsAreLast`, `Commands.cfg`. `StopsEndQueue` is what remains.
- Of two rules of one rank the earlier entry wins, although the warning of
  `_merge_rules` says "list order decides (later entry wins)"
  (`planning.py:169-171`; the sort key is rank, then minus the position, and
  the last of the sorted rules prevails): `LaterOfEqualsWins`, `Planning.cfg`.
- Leaves of the defaults come back over a rule: the rules are merged with one
  another first, and where a block follows a plain value, the plain value no
  longer hides the defaults, against the precedence of `planning.py:4-6`:
  `DefaultsStayHidden`, `Planning.cfg`. `LeavesByPrecedence` leaves both
  questions open, so that it says nothing for or against either.
- With `allow_update`, the notifications of the IPE's own publications are
  taken for requests (`inbound.py:857`); two of them in flight can undo each
  other without end. `PublicationSettles` therefore excepts behaviours in
  which a client changes the record.
- A duration below a millisecond is cut to 0, which asks for nothing, or to
  less than what is offered, against `engine.py:24`; `RequestMatchesWhole` is
  about whole milliseconds. A configured duration of 0 ms is the middleware's
  default but counts as strict for the guard; `GuardIsExact` and
  `OfferSatisfies` except it.

Seen while translating, not stated as a property:

- `/{robot}/**` and `/*/**` rank with `/**`, and `/**/**` below it, so
  `NarrowerIsNotLower` is about patterns with one `**` at most.
  `_check_collisions` does not claim the channels below an interface. The
  robots found depend on the order of the graph.
- A failure of `resolve` stops the grace counting and every other change until
  the configuration is repaired (`bindings.py:577-581`).
- An observe subscription is lost for good when its rebind fails in reject
  mode. The revision starts at 0 after a restart, so an old `baseRevision` may
  fit again. A client's update that equals the configuration replaces the
  record in the CSE and is not followed by a publication.
- A revocation while the topic is absent is acknowledged and not applied; a
  rebind, an unbind or a revocation takes the watchdog with the publisher; a
  stop that failed is not tried again.
- A row of the spool that a policy of the CSE refuses for ever (403) blocks
  the rows behind it, and newer operations may overtake the replay.
- `anomaly.py:131` reuses `vec` in its loop, and `persist_pending` overwrites
  restored buffers that were not used yet.

## Proofs

TLAPS proves the theorems below for every value of the constants that
satisfies the assumptions of the modules. They say:

- `RuleTypes` and `SegmentTypes` of `Planning`: a rule has a name or a pattern
  and not both, patterns have one `**` at most and are made of `Segments` and
  wildcards, the defaults leave the direction of a topic open; there are two
  segments or more. What rules, blocks, leaves and values there are is left open.
- `ConstantTypes` of `Admission`, `Outbound`, `Bindings` and `Planning`,
  `RequestTypes` of `Transactions`, `SetupTypes` of `Commands`: the constants
  have their types, limits that the code uses as sizes are positive, names of
  nothing are not names of something. `Outbound` adds that reports of refused
  operations are new TERMINAL operations, as is what the spool holds at first.
- `DurationAssumption` and `SettingTypes` of the two QoS modules: the unit and
  the infinite duration are positive; the peers that ROS can show are finitely
  many, and all their durations, like the configured ones, fit below the
  infinite one. Which peers and which configurations is left open.

Nothing is assumed about how many requests, interfaces, workers, operations,
restarts or failures there are. Bounds such as `MaxCrashes` are constants, so
a theorem holds for each value of them.

### Admission

- `AdmissionTypes`: `TypeOK`.
- `AdmissionOwnership`, `AdmissionAtMostOnce`: `AtMostOnce` is not inductive,
  because nothing in it stops a second execution of a row that ran. The
  inductive invariant adds `ExecutorOwnsRow`: the executor's event has its row
  `dispatched` and not yet run, rows that are open but not dispatched have
  not run, and no execution outlives its process. The compare-and-set of
  `cas_dispatch` is then the only way into `executing`, and `BootSweep`,
  `admit` and `cleanup` cannot reopen what ran.
- `AdmissionImplementsLedger`: with `row` mapped by `LedgerState`, every step
  is a step of `RequestLedger` or a stutter.
- `AdmissionWakes`: `WaitingWakes` speaks of a running process only. `WakeInv`
  says the same of every phase: what is put into a lane while the process
  boots has to have woken the executor before it spins.
- `AdmissionCarries`: `QueuedHasCarrier`, from `CarrierInv`, which names all
  the places of an event (the lock's holder, both lanes, the batch) and says
  that the batch is empty unless `drain` or the shutdown works on it.
- `AdmissionMarker`: `MarkerCoversAdmitted`. `MarkerInv` says what a sweep
  knows in its middle: nothing has happened after now (`PastInv`), what is
  left to admit is of the container and not older than what is done
  (`ListInv`), and every CIN between the marker and now is still to come, or
  needs nothing more and is in nobody's hands, or is too new for the sweep to
  count (`SweepInv`). Without the last part, a CIN created during the listing
  could be passed.
- `AdmissionReplays`: `ReplaysAfterRetention`. `ReplayInv` follows the row of a
  request that took effect and was forgotten: as long as it is open and has not
  run again, its last closing lies a retention back, since only `cleanup`
  reopens what was closed; the effect itself is that of the one dispatched row
  (`EffectOfOwner`).

### Transactions

- `TransactionTypes`: `TypeOK`.
- `TransactionsFinal`: `TerminalIsFinal`. Every write of `tx` goes
  through the condition of `update_transaction` (`SetState`), fills an absent
  row (`Begin`), or picks open transactions itself (`TimeOut`, `Exit`).
- `TransactionsCancels`, `TransactionsAnswers`, `TransactionsSuccess`,
  `TransactionsDispatched`, `TransactionsOneOutcome`: the safety invariants of
  `Transactions`, each from an inductive invariant of its own (`Cancels`,
  `Answers`, `Rows`, `Outcomes`) on top of a shared one, `Ownership`: whoever
  waits for an answer, is in flight, is being terminated or was reported about
  owns an existing transaction, and a correlation id never changes its owner.
  Ownership is what lets two requests share a correlation id without one being
  answered for the other. `Rows` is stronger than `DispatchedOwned` because a
  callback between `Begin` and `Record` leaves its row to somebody else: it
  must already be in flight with an open transaction, or be the worker's
  target. `Outcomes` adds that what was reported about is over, so that every
  later answer, timeout or boot finds nothing to end.
- `TransactionsImplementsLedger`: with the mapping above, every step of either
  thread is a step of `RequestLedger` or a stutter. `Calls`, the invariant it
  needs, says that a request that was sent owns a transaction, so that it is
  never begun again, and that the one about to be sent has not been sent. The
  executor's return from a callback and the worker's end of a row close the
  request in the ledger (`FinishCloses`), a boot closes many at once.

### Outbound

- `OutboundTypes`: queues, spool and workers keep their types.
- `OutboundSerialized`: `InterfaceSerialized`. `SerialInv` makes the active
  keys exactly the interfaces of what workers hold; a claim skips active keys,
  and every way to let go of an operation releases its key.
- `OutboundWakes`: `SpoolWakes` is inductive by itself, given the types: what
  ends a replay passes through the wake-up, and who stores a row is between
  the store and the wake-up until the drainer is told.
- `OutboundInOrder`: `DirectInOrder`. `OrderInv` orders the operations of one
  interface and class along their way: delivered (`ProducedInv`), in a
  worker's hands (`MoverInv`), in a lane (`LaneInv`). Serialization is needed
  for the second: with two workers for an interface there is no order.
- `OutboundReplays`, `OutboundImplementsDelivery`: `ReplayFromHead`, and the
  refinement of `Delivery`. `HomeInv` says where a TERMINAL operation can be:
  in the queue, with one worker, in the spool, or accounted for, and in one of
  these only; that a settled row of the spool is its head; and that the rows
  of a replay come in the order of the spool (`Aligned`), although producers
  and other workers add and trim rows meanwhile. Each step of `Outbound` is
  then a step of `Delivery` or leaves the mapped variables unchanged.

### Bindings

- `BindingTypes`: jobs, plans and generations keep their types.
- `BindingStaging`: `StagingFollowsPlans`. `StagingInv` adds that with prompt
  activation there is one plan at a time, in the worker or in the lane.
- `BindingEndpoints`: `EndpointsFollow`, at any pace. `GenerationInv`: the number
  of a generation stands for one configuration, so that a plan whose `basis` is
  the active generation lists exactly how it differs from the active
  configuration (`Based`), however long it has been on its way and whatever
  recoveries and removals ran meanwhile. A plan that is bound, or rolled back,
  is of the active generation by the check of `Superseded`, unless it was
  overtaken before that generation was read.
- `BindingGrace`: `GraceRespected`, at any pace. `CountsRight` says that for an
  interface active without a break the counter of misses never exceeds the
  snapshots that missed it, and is 0 for one that was never active.
- `BindingResources`: `FirstKeepsResources`, at any pace. `ResourcesInv` says
  that all the worker has to remove, at once, later or again, is of interfaces
  that some plan has removed, and that the configuration of every plan in the
  lane has been provisioned, of which nothing else can take resources away.

Half of the theorem on staging, that the flag stays set until the plan has had
its turn, is about prompt activation; without it a later job clears the flag.

### QoS

- `QosRequestFits`, `QosOfferSatisfies`: about the operators alone, for every
  finite set of peers: what `reconcile` returns matches them all, the guard
  names exactly the axes that would keep one from matching, and a demoted
  request matches and is not demoted again. A fold over the peers is reduced
  to the weakest kind and the longest or shortest duration among them.
- `QosRequests`, `QosOffers`: `RequestsMatch` and `OffersSatisfy`, by these.
- `QosApplied`, `QosSaved`, `QosNoLostUpdate`: `LoopInv` joins three facts of
  which none is inductive alone: the subscription follows its publishers, the
  store holds what runs, and every revision below `RevMax` on its way to or at
  the CSE stands for one configuration, the newest for the one in force.

### Commands

- `CommandsTypes`: specs, plans, publishers and lanes keep their types.
- `CommandsApproved`: `PublishesOnlyApproved`. `ApprovalInv`: a topic that is
  open although it asks for confirmation was approved, not only in the
  registry but in a prepared plan and in the store, from which it returns.
- `CommandsStopOnce`: `StopsOnce`. `StopInv`: no watchdog is running for a
  robot that does not move.
- `CommandsStopsEndQueue`: `StopsEndQueue`. `QueueInv`: once the executor spins
  again, every command in the lane was queued after the stops, through late
  arrivals, ageing and dispatches.

### Planning

- `PlanningApart`: `ResourcesApart`. What provisioning creates for an
  interface lies within what `_check_collisions` claims for it, but for the
  channels of services and actions (lemma `Claimed`); so two interfaces of a
  resolution without collisions share nothing but such channels.
- `PlanningPrecedence`: `LeavesByPrecedence`. `Ordered` lists the selecting
  rules once each, by precedence (`OrderedRules`). What a merge of the first n
  sources has in a field is described without the merge (`Kept`): the leaves
  that some source gives and no later one gives or replaces, or a plain value
  after which no source has the field. That it describes every n is an
  induction on n, done here without the induction theorem: if it failed for
  some n, it would fail for a least one (`Least`), and one `DeepMerge` leads
  to it from its predecessor (`KeptByMerge`, `KeptByMerges`). The defaults depend on the
  direction, which no default gives (`NoDefaultDirection`), and come below.
  This is stronger than the property: it says which source the code takes for
  every leaf (`Decides`), ties and returning defaults included. `LastWordDecides`
  leads from there to the property, which takes no side on these.
- `PlanningNarrower`: `NarrowerIsNotLower`, from a lemma about names of any
  length: if every name that one pattern selects is selected by another, the
  first is not ranked lower. The argument builds a name that the narrower
  pattern selects, from two letters, and lets the wider pattern's literals find
  their positions in it, each of which must be a literal of the narrower one.
  It is false for patterns with several `**` (`/**/**`).

### Only model-checked

- Liveness, and everything under fairness, for which the prover has no rule
  that applies here: `EveryRequestServed`, `EveryRequestEnds`,
  `EverythingSettles`, `Converges`, `PublicationSettles`, `WatchdogStops`.
- `ActiveKeepsResources`, which the code violates: TLC's counterexample shows
  it.

No module has a RECURSIVE operator. The type invariants (`TypeOK` of
five modules) are proved and in no run.

## Not modelled

- The MQTT client (`onem2m/mqtt_client.py`): correlation by request id over a
  broker, which `Outbound` sees as an answer that may be lost. The HTTP client
  has no state of its own.
- The observation pipeline (`core/pipeline.py`, `filter.py`, `anomaly.py`):
  sequential numeric filters of one thread, in front of `Produce`.
- Parsing, validation and formatting (`settings.py`, `cli.py`, `codec.py`,
  `registry.py`, `messages.py`, naming beyond patterns) and the calls of
  rclpy themselves: no state and no concurrency of their own.
- Exceptions of the database and its two back ends: every method is one
  atomic transaction.
- The removal of old transactions, feedback of goals, status of nodes.

## Plan

1. Composition of `Admission` and `Transactions` over the shared row, to say
   what becomes of a cancel that the control lane lets overtake its goal
   (`queues.py:92`).
2. `OverflowRecoverable` across restarts and cleanup, should the marker become
   the minimum of what is swept and what the lanes still hold.
3. `OneGeneration` and `GraceEveryTime`, should every plan carry the generation
   of its snapshot and a removal reset the misses.
4. A sweep that one malformed content instance does not stop
   (`dispatcher.py:133`), and a strict projection that closes its transaction
   (`inbound.py:616`): both need their liveness runs only.
5. The MQTT connection, to say what a request does that takes effect twice or
   after its waiter has given up (`onem2m/mqtt_client.py:252`).
