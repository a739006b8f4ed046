# A verification project for IncidentBench

IncidentBench is a benchmark harness that runs on Kubernetes. An operator
takes an `IncidentBenchRun` resource through a linear lifecycle, a phase
controller drives ingest and query workers through the phases of a scenario,
and a metrics aggregator adds up what the workers report every second. This
directory holds TLA+ models of the parts of that system whose correctness
depends on order (interleavings of tasks, messages that overtake each other,
crashes between two writes, runs that share a target) and of the arithmetic that
the load and the results of a run rest on. TLC checks the models on small
instances; TLAPS proves theorems about the phase barrier, the operator, the aggregator,
the workers' accounts and pace, the shared target, the SQL lanes and the results for
every instance.

All paths below are relative to `src/`; `controller.rs` and `resources.rs` are
in `crates/incidentbench-operator/src/`; `scenario.rs`, `metrics.rs`, `ratelimit.rs`,
`crd.rs` and `mach5.rs` (under `adapters/`) in `crates/incidentbench-common/src/`;
`json_report.rs` in `crates/incidentbench-reporter/src/`; the other `.rs` files
named without a directory in `crates/incidentbench-worker/src/`.

## 1. Inventory of the system

| Component | State | Operations | Talks to |
|---|---|---|---|
| Operator (`controller.rs`, `resources.rs`, `crd.rs`) | none of its own: the resource's `status`, an annotation and the finalizer on the API server, read through the local store of kube-runtime; outside: Kafka topics, the target's namespace, indexes, warehouses | one handler per phase, cleanup, retries every 5 s or 30 s | API server, Kafka, adapter, PhaseController and Aggregator (gRPC polls) |
| PhaseController (`phase_controller.rs`) | phase index, completion, registry of senders, two READY counters, acks, a checkpoint file | one inbound task per worker stream; the timeline loop; status query | workers (bidirectional stream), operator |
| BarrierClient (`barrier.rs`) | inbound task and event channel per process | connect and send READY, acknowledge PREPARE, wait for an event, send DONE | PhaseController |
| Worker loops (`ingest.rs`, `query.rs`) | counters of the open second, a bounded channel of snapshots | operate at the phase's rate, roll the second, flush at the end; a streaming task with retries | BarrierClient, Kafka or the target, Aggregator |
| MetricsAggregator (`aggregator.rs`) | per-second buckets, timeline of points, connection counter, Collecting/Complete, live broadcast channel, result files | receive snapshots, complete, live subscription with history, results | workers, CLI subscribers, operator, Kafka (lag) |
| RateLimiter (`ratelimit.rs`) | tokens, rate, last refill | acquire, set_rate | worker loops |
| Scenario, metrics (`scenario.rs`, `metrics.rs`) | none: pure functions | validation, scaling, rate tables; merging of distributions, derived metrics | operator, workers, aggregator, reporter |
| Mach5 adapter (`mach5.rs`) | one SQL connection per lane, behind a mutex | prepare and cleanup (operator); execute a query (query workers) | target over HTTP and pgwire |
| Reporter (`json_report.rs`) | none: reads the aggregator's files | derived metrics, validity, formatting | files |
| Data generator, CLI, health, /proc metrics | streams of random events; none | generate, print | API server |

How they interact: the operator creates the Deployments of the other three
services and from then on only polls them; the controller learns that workers
exist by their READY, and they learn phases by its messages; the aggregator
learns that a run has begun and ended only by streams that open and close. No
component has a durable log. The only state that survives a crash is the
resource itself, the controller's checkpoint file and the result files.

Behaviours that are hard to get right here, and what correctness means:

* **Operator.** Every handler is a sequence of calls any of which may fail, and
  the process may die between two of them; it reads from a store that trails
  its own writes. Infrastructure must not be orphaned, no wait may be
  unbounded, and the lifecycle must not run backwards.
* **Barrier.** A worker's new stream may arrive before the end of its old one
  is noticed; the registry is keyed by worker id and the counters are not. The
  barrier must not stay shut when everybody is there, nobody may skip or
  anticipate a phase, and every worker must be let go.
* **Aggregator.** Snapshots of one second come in any order from several
  streams; subscribers read history and live points at once and under the
  mutex. Points must add up, the connection count must be exact, and a
  completion must not be missed or come early.
* **Worker metrics.** Counters are read and reset while a bounded channel may
  be full and the stream may be broken and reopened. Nothing may be counted
  twice or get lost without a trace.
* **Load.** The authored rates pass through scaling, two roundings, a division
  over workers, a table or a message per phase, and a token bucket that keeps its
  tokens when the rate changes. What the workers execute together must be what the
  author asked for, and a worker may not run ahead of it.
* **Results.** Latencies are compressed, merged, aggregated by second and then
  summarised twice, from a list in order of arrival and from a sorted file.
  Percentiles must have their rank and both summaries must agree.
* **Target.** Requests are sent in parallel, dropped with the first error, and
  names are shared by runs. A prepared run must have what it needs, nothing may be left
  behind unexplained, and waiting must end.
* **SQL lanes.** Queries share connections by category; timeouts send cancels that
  name a connection, not a statement. Lanes must not mix and given-up statements
  must not pile up.

`PROJECT.json` lists the hazards line by line.

## 2. Modules

| Module | Models | Main idea |
|---|---|---|
| `PhaseGate` | PhaseController, BarrierClient | two sides of one stream per worker process; streams are numbered by process |
| `PhaseGateProofs` | – | theorems about `PhaseGate`: types, counters, registry, nobody ahead, order of the phases, completion |
| `RunLifecycle` | what the operator promises from outside | abstract specification with three variables |
| `RunOperator` | operator and the benchmark as it sees it | one step per call; implements `RunLifecycle` |
| `RunOperatorProofs` | – | theorems about `RunOperator`: for any set of operators; then, for one operator, no orphaned infrastructure, what it leaves behind, and that it implements `RunLifecycle` |
| `MetricsAggregator` | aggregator, streams and subscribers as it sees them | one step per mutex section |
| `MetricsAggregatorProofs` | – | theorems about `MetricsAggregator` |
| `WorkerMetrics` | accounts of one worker, channel and streaming task | conservation of what was executed |
| `WorkerMetricsProofs` | – | theorems about `WorkerMetrics` |
| `LoadPlan` | validation, scaling, rate tables, worker configuration | pure operators, no variables |
| `PacedWorker` | operator's use of `LoadPlan`, timeline, one worker's loop and token bucket | integer tokens, a history of the surplus |
| `PacedWorkerProofs` | – | theorems about `PacedWorker`, and the lemmas about `LoadPlan` they need |
| `LatencyDigest` | compression, merging and percentiles of latencies | pure operators |
| `RunSummary` | derived metrics in the aggregator and the reporter, both kinds of validity | one run observed by two that compute |
| `RunSummaryProofs` | – | theorems about `RunSummary`, and the lemmas about `LatencyDigest` they need |
| `SharedTarget` | topics, and prepare and cleanup of the Mach5 adapter, for several runs | one step per request; requests nobody waits for |
| `SharedTargetProofs` | – | theorems about `SharedTarget` |
| `SqlLanes` | execution of SQL, the loops that call it, the gateway as it shows | one step per await |
| `SqlLanesProofs` | – | theorems about `SqlLanes` |
| `MC*` | – | instances for TLC |

`PacedWorker` extends `LoadPlan` and `RunSummary` extends `LatencyDigest`; otherwise the
modules share no variables. What one component sees of another is an
environment action in its module (`TimelineEnds` and `AggregationCompletes` in
`RunOperator`, `OpenStream` and `EndStream` in `MetricsAggregator`, `Deliver`
in `WorkerMetrics`, `Announce` in `PacedWorker`, `CancelArrives` in `SqlLanes`); a
composition is part of the plan.

### PhaseGate

The main task is a program counter over the timeline loop of `run`
(`phase_controller.rs:247-446`): wait for the barrier, skip to the checkpoint,
write the checkpoint, mark the phase, send PREPARE, pause, send TRANSITION, hold
the phase; then finish, remove the checkpoint, linger, exit. `ReceiveReady`,
`ReceiveAck`, `ReceiveDone` and `Disconnect` are the sections of the inbound
task of a stream (`:140-196`); each holds the mutex, so each is one step. A
worker is a connection attempt, an inbound task that moves messages to a channel,
and a loop that takes them. `srvOpen` and `linkUp` are two ends of one stream:
the server notices the end of a stream later than it happens, and a worker
may have reconnected in between. Failures: either process dies, a connection
breaks, the barrier wait times out, the checkpoint cannot be written.

Left out: the contents of phases (rates, duration), get_status (it only
reads), the retry delays of the client.

`wphase` is the phase a worker loop runs, `held` and `seen` are history
variables of what was held to its end and who has ever been READY in this
process.

### RunLifecycle and RunOperator

`RunLifecycle` is the promise: phases advance along the state machine of
`specifications/IncidentBench.md` section 2.4, a failure may end the run from
anywhere, infrastructure appears only in Preparing, goes only after the run has
ended, and is gone before the object is.

`RunOperator` has one action per call of a handler, with its failure, in the
order of the code; `pc` says which call is next and `view` which copy of the
resource the handler works from. A patch of the resource becomes a version in
`watch`, which `WatchDelivers` hands to the local store `cache`, at most
`MaxLag` versions late. `Failures` names the kinds of failure a run of TLC
admits, `MaxFaults` how many. Results of preparation are reduced to the
existence of the ConfigMap, `children` to whether a Deployment is there and
scaled, the Job to its state. All ingest Deployments stand and fall together,
as do the query ones.

`valid` stands for both checks of `handle_pending`: the scenario is inline
(`resolve_scenario` refuses a reference, `controller.rs:1213-1222`) and
`validate` finds no error. The spec of a resource is taken as fixed here, so a run that
passed them still has its inline scenario in cleanup, which the adapter and topic
deletions there depend on (`:1140`, `:1163`). `PacedWorker` has the edit of a scenario.

### MetricsAggregator

Snapshots are reduced to a second and a mode: every sum over them behaves as a
count. `CountWorker`, `ReceiveSnapshot`, `UncountWorker` are the three mutex
sections of `report_metrics`; `complete_aggregation` is part of the second
last, as in the code; the files are written by a task of their own from the
copy made there. A subscriber holds the mutex while it sends its history
(`lock`). The live channel drops its oldest point for a receiver that lags.
A stream can end, be dropped with its connection (then nobody uncounts it), or go
stale. Percentiles are in `LatencyDigest`; Kafka lag polling is not modelled.

### WorkerMetrics

One worker in one of three modes. A second's account is the number of
operations and errors, and per kind of query the number of latencies, errors
and timeouts. The account moves from the loop (`open`) through the channel
(`queue`) and the connection (`wire`) to the aggregator (`received`), and is
compared with the history of what was executed. The loop differs between modes
exactly as the code does: only a session flushes its open second and only it
reports timeouts; `ingest` has no breakdown by kind.

### LoadPlan and PacedWorker

`LoadPlan` translates `validate`, `with_scaling`, both rate tables and
`resolve_group_query_mix` of `scenario.rs`, and what `build_worker_configmaps` and
`derive_query_session` (`resources.rs`) give to the pods. Rates of queries are in
thousandths (`MilliPerOp`), scales are quotients, `f64::round` and the truncation of
`as u64` are spelled out (`Rounded`, `Truncated`). A scenario is reduced to what
validation and load depend on.

`PacedWorker` takes one resource from Pending to Running (`Validate`, `Deploy`; the
resource may be edited in between), announces its phases as `PhaseGate`'s
controller does when everybody is ready, and follows one pod of any Deployment. The
token bucket is that of `ratelimit.rs`, an action for every await of `acquire`: a full bucket, the
wait for a token, the wait of a second when the rate is zero. Time is counted in `Ticks` of a
second and may pass between any two steps, so every lateness of polls, timers and
operations is covered. `surplus` is history: how far the executed operations are ahead
of what the rates allow.

### LatencyDigest and RunSummary

`LatencyDigest` has the two ways from latencies to percentiles: chunks, merged
centroids and truncated ranks for each second (`metrics.rs:319-398`), and expanded centroids with
rounded ranks for each query (`aggregator.rs:742-769`). `RunSummary` takes one run out
of a list of possible ones, a sequence of snapshots for each worker, and lets the snapshots of
different workers arrive in any interleaving. `ReceiveSnapshot` puts one into the bucket of its
second and makes the point of that second again, which replaces the one in the timeline
where it stands (`aggregator.rs:297-305`), before or after the file is written. The aggregation
completes early, at the end or by GetResults, and the derived metrics are computed
twice: by `GetResults` from the timeline, by `Report` from the file. `written` and `scored` are
history: the timeline when the file was written and when the results were computed.
Means and ratios are pairs, so that nothing is rounded that the code does not round. The two sets
of rules of validity (`aggregator.rs:424-445`, `json_report.rs:384-557`) are translated too, with
every metric that a rule may name.

### SharedTarget

One step per request and answer. A step of `prepare` is a set of requests sent together
(`try_join_all`): the first error drops the others, which move to `late` and may
still take effect, or never. Cleanup uses `join_all` and goes on after errors. `taken` and
`blamed` are history: what a run was told it has and another run deleted, and what
a failed deletion or a late creation explains. The reconciler's crashes are in
`RunOperator`; here a run is driven to its end. Deleting a namespace is
taken to delete nothing else, which is the harder case for leftovers.

### SqlLanes

A call of `execute_sql_query` waits for the mutex of the map of clients (held while a
connection is made), sends, waits for the answer or the timeout, and sends a
cancel. Loops are workloads: a session fires a batch of every category and waits for all of
them, the rate-controlled loop fires one query and drops the call at its own timeout. A call
is known by its category and its place in the category's batch. The gateway
executes the statements of a connection in order; a cancel ends the statement
that runs when it arrives. Time is abstracted: a timeout may come at any moment.

A lane (`Lane`) is what the comment on `pg_clients` promises a connection to: a session category, or a
query name outside session mode (`mach5.rs:56-57`). The code's key is another: the field
`category` of a query, or its name (`KeyOf`). `LanesAreKeys` says when the two agree, as they do
for every session that is made from the categories of a mix; `LaneIsOneConnection`
is about workloads where they do, and section 5 about the others.

## 3. Runs

All runs have symmetry off; the sets are so small that it would not pay.

| Run | Checks | Bounds, and why they are enough |
|---|---|---|
| `phase_gate_safety` | type, the barrier's counters and registry, phase order, completion | One worker of each mode: the properties relate a worker to the controller, and two modes make two counters. Three phases, so that one can be skipped. Two processes per worker and per controller with one failure give every overlap of an old stream with a new one, and a resume from a checkpoint. |
| `phase_gate_liveness` | the timeline completes, workers are let go | The same with two phases. |
| `operator` | orphans, bounded waits, results, "left alone means gone"; every run ends, a deleted run vanishes, unless it strands in one of three ways | Two streams make the loops over topics partial; a lag of two versions lets a reconciliation start from before the previous phase; any two failures of any kind but a reporter that always fails. |
| `operator_refines` | `RunOperator` implements `RunLifecycle` | Same with all failures, and with a store that is current: with a lag the lifecycle does run backwards (section 5). |
| `aggregator_safety` | points add up, connection count, completion, subscriber's view | Two workers with two streams each, two seconds and three snapshots (so a second is revisited after a later one), a live channel of two places and an outbound one of one (so both fill), one failure. |
| `aggregator_liveness` | a stream that ended is uncounted | One stream each, channels of one place, and two seconds: a history of two points fills the outbound channel, so that its sending waits for the client with the mutex held while a stream has ended. |
| `worker_metrics` | conservation of the accounts | Three operations of two kinds with all outcomes, a channel of one place, one retry; each mode. |
| `load` | the deployed rates are the authored ones, the baseline can be reached, controller and Deployments agree, the pace is kept | Four valid scenarios (one and two streams, query-only with groups, no queries), twelve that one rule of `validate` refuses, two edits; four resources (ungrouped, scaled up and down, grouped with a group the scenario does not know, a dry run). Totals are not multiples of the replicas. Two ticks per second and eight ticks cover two changes of rate and a quiet second. |
| `run_summary` | the report is that of its file, both scorecards agree, percentiles have their rank | Four runs of two workers that send four or five snapshots each, over six seconds of all phases but the surge: three with two query workers, one with an ingest worker. Workers skip seconds, so that some points are made once and some are made again, and seconds may appear in nearly any order. Five courses of latencies (at once, slow, never back, hardly any queries, jumping) and four of the lag (drains, two peaks, grows, none); two centroids, so that four latencies are compressed. Every interleaving, with the file and the results at any moment. |
| `target` | prepared is complete, leftovers have a cause, polling ends | Two runs with everything, an index or a namespace in common, one without streams, one in `default`; two indexes and two warehouses where a step has to have several requests; one failure. |
| `sql_lanes` | one connection per lane, given-up statements are cancelled, ticks end | Four workloads of two or three ticks: two sessions whose categories are those of their queries, one with two queries of a category at a time; one authored with categories that mix fields, whose keys are not its lanes; the loop at a rate, with a query without category. One fault. |
| `run_summary_wraps` | "Aggregated timeline (ordered)" | The instance of `run_summary`: see section 5. |

`CHECK_DEADLOCK FALSE` is set everywhere because each of these systems may really
stop: bounded numbers of processes, failures and operations are used up, a
cleaned run is left alone, a worker exits.

Names of bounds: `MaxLives`, `MaxBoots`, `MaxFaults`, `MaxLag`, `MaxSecond`,
`MaxSnapshots`, `MaxStreams`, `MaxOps`, `MaxTime`, `MaxFailures`, and `ticks` of a
workload. `MaxRetries`, `MaxErrorRecords`,
`LiveCapacity`, `OutCapacity`, `ChannelCapacity`, `MinDuration`, `MilliPerOp`, `Buckets`,
`MinPoints`, `LagFloor` and `Modulus` are constants of the code made small.

### Fairness

* `PhaseGate`: weak fairness of the main task, of each inbound task and of each
  worker's tasks (tokio polls every task that is ready), of `Boot` and `Connect`
  (Deployments restart containers and the client retries). Failures are never
  fair.
* `RunOperator`: weak fairness of the reconciliation (the controller
  requeues every 5 s, 30 s after an error), of the watch, of the timeline (shown to
  complete in `phase_gate_liveness`), of garbage collection, of the Job and its expiry, of
  the passing of 120 s. Not of `AggregationCompletes`: a stream may stay open for ever,
  which is what the grace period is for.
* `MetricsAggregator`: strong fairness of the sections that take the mutex,
  because tokio's mutex is first come, first served; weak fairness elsewhere.
  Only clients that read are assumed; a client that neither reads nor leaves does
  block the aggregator, since the history is sent under the mutex.
* `SharedTarget`: weak fairness of the polls only. They recur every 5 s, and the target is
  assumed to answer for a warehouse that it has. The client is built without a
  timeout (`mach5.rs:125-127`), so the requests of prepare and cleanup may stay unanswered.
* `SqlLanes`: the mutex is handed on, timers expire (the adapter's and, at a rate, the one
  around the call), and a cancel is written without waiting for an answer. The gateway owes
  nothing: no statement need ever end, and no connection be accepted, since
  `tokio_postgres::connect` waits for the answer of the gateway without a timeout
  (`mach5.rs:205`). `TickEnds` has the session that waits for it (`StuckConnecting`) as its one
  exception.

## 4. Proofs

`PhaseGateProofs` proves six theorems for every finite set of workers, number
of phases, expected counts and bounds, from the assumptions in `PhaseGate`
(worker sets finite and disjoint, the rest natural numbers).

* `TypeCorrect` (`TypeOK`). `TypeOK` is not inductive: the index of the loop
  could leave its range. `TypeInv` adds `LoopBound`: inside an iteration the
  index is that of a phase.
* `ReadyNeverUndercounts` (`ReadyCoversStreams`) and `RegistryHoldsLiveStreams`
  (`RegistryIsLive`). The inductive invariant `GateInv` adds that a
  named stream is open. The argument is about cardinalities: a READY adds one
  stream to the named ones of its mode and one to the counter, a disconnection
  takes one from both, and the saturating subtraction never meets a zero because
  the stream it is for is still counted. A second READY on a named stream raises
  the counter alone, so the relation is an inequality.
* `WorkersNeverAhead` (`NoWorkerAhead`). `PhaseInv` says that the current
  phase is at most the loop's index, equal to it from MARK on, and that no
  transition on its way to a connected worker is beyond it (`WorkerWithin`).
  Disconnected workers may hold anything; a worker that connects starts empty.
* `TimelineFullyHeld` (`CompleteCoversTimeline`). `CoverInv`: everything below the
  checkpoint, below the phase a process resumes from and below the loop's index has been held.
* `NoPhaseSkipped` (`NoSkippedPhase`, an action property). `OrderInv` speaks of the messages on
  the way to a worker (`Sent`: its event channel behind its stream): the phases announced there
  rise by one from the one it runs, and for a worker that the next announcement reaches they end
  just before it (`EndsAt`). A worker that has lost its registration gets no further
  ones, and cannot get it back in that life because READY is sent once, first in its stream.

`RunOperatorProofs` proves seven theorems, three of them for any set of operators, sequence of
streams, lag and number of failures of every kind, from the assumptions in
`RunOperator`.

* `TypeCorrect` (`TypeOK`), inductive as it stands.
* `AggregatingAlwaysBounded` (`AggregatingIsBounded`) and `CompletedRunHasResults`
  (`CompletedHasResults`). Reconciliations act on old copies, so the inductive
  invariant `RunInv` speaks of every version of the resource there is
  (`VersionsIn`: on the server, in a store, under way to one) and of the handlers
  that have acted on one: a handler about to write Aggregating has
  written the annotation, a copy in Reporting exists only when the server's version
  has results, and no write takes either back (`Writable`).

The fourth is `InfraNeverOrphaned` (`InfraProtected`) for a single
operator (`SingleOperator`), with a store of any age. Phases do run backwards
then, but not behind Preparing: `Rank` orders the versions as Pending, Preparing,
later, and `OrphanInv` says that store, watch and server are in that order, that a
copy in Preparing has the finalizer, that a store not past Preparing has seen
no finalizer that the server no longer has, and what each handler knows at each
call. Cleanup runs only from a copy past Preparing, and after that nothing is
provisioned again. `NamesAssumption` keeps the entries of `leaks` apart. The hypothesis is
needed: with two operators TLC finds a preparation that stalls before one topic and creates it
after the other operator has finished the run and cleaned up.

The other three, in the second part of the module, are about a single operator too.

* `LeftAloneIsGone` (`LeftAloneMeansGone`), for a store at most two versions behind.
  `CleanupInv` follows the handlers (`StepOfView`: the step is that of the phase of the
  copy; `CleanupDone`: what the cleanup has dealt with so far) and the versions (`CopyInv`):
  no Initializing version comes after one that the deployment has led to, and when the
  finalizer goes, at most one Initializing version is left, in the store, which the next write
  drives out. The bound is needed: at `MaxLag = 3` TLC finds a run that fails
  while its Initializing version is still in the store, is cleaned, and is deployed again
  from that version.
* `FollowsLifecycle` (`LifecycleSpec`), for a store that is current (`MaxLag = 0`):
  the initial states map to initial ones and every action is an action of `RunLifecycle` or a
  stutter. `EndIsFinal` (`TerminalIsFinal`) follows; section 5 has what a lag does to it.

`MetricsAggregatorProofs` proves five theorems for any number of workers, streams,
subscribers and snapshots and any capacities. The sets of workers are finite and
disjoint, and no subscriber is called "free", which is how the mutex is unlocked.

* `TypeCorrect` (`TypeOK`), `ConnectedAlwaysExact` (`ConnectedIsExact`) and
  `DrainedAlwaysComplete` (`DrainedIsComplete`), by `GateInv`: a stream that its worker has
  not opened has no handler, so every count and uncount changes the set by one.
* `TimelineAlwaysMatches` (`TimelineMatches`), by `TimelineInv`: the points are those of
  their buckets, one for each second with data, none twice.
* `ViewAlwaysCurrent` (`ViewIsCurrent`), by `ViewInv`: of the points queued for a subscriber the
  last of each second is current, so one that has not lagged misses nothing; while the history is
  sent the mutex is held, so points that were sent cannot change behind it.

`WorkerMetricsProofs` proves four theorems for any kinds, channel, retries and number of operations:
`TypeCorrect` (`TypeOK`), `NeverReportedTwice` (`NeverCountedTwice`),
`LossIsNeverSilent` (`NothingLostSilently`) and `SessionAlwaysFlushed` (`SessionFlushed`).
`LossInv` compares what was executed with the sum of what is open and what was handed over, and
says that the open second is empty once the loop has ended. The sum over
the channel and the wire is a recursive function. `LeastNumber` and `Induction` state
induction for a set of numbers instead of a predicate, which the provers can instantiate, and
`PartialSums` and the lemmas after it show how the sum changes with the sequence.

`SharedTargetProofs` proves `PreparedAlwaysComplete` (`PreparedIsComplete`) and
`LeftoversAlwaysBlamed` (`LeftoversBlamed`) for any number of runs and failures and any
configurations (`ConfigsAssumption`). Both rest on `Remaining`, what a run has still to
request in the course it is in. `HoldsInv`: what a run needs it holds or still requests,
and what it holds is there or was taken from it. `OwnedInv`: whatever exists may stay, is needed by
a run whose cleanup has not begun, or remains in a cleanup.

`SqlLanesProofs` proves two theorems for any workloads of categories with at least one query,
any number of ticks and any faults.

* `LaneKeepsConnection` (`LaneIsOneConnection`). `LockInv` and `ClientsInv`: whoever connects
  holds the lock since it found no connection for its key, so no other call can add one, and
  the new connection is nobody else's. Every query that was sent went out on the connection of
  its key; that `LanesAreKeys` is part of the property (section 5).
* `StraysAlwaysCancelled` (`StraysAreCancelled`). `StatementsInv` ties each statement of this
  tick to the call that sent it. For a lane that fires one query at a time, `LastInv` says that
  the statement of this tick is the last of its connection, and `PaidInv` that all statements but
  that of a call still running or about to cancel are paid for, by a cancel
  under way or a recorded loss. A cancel that ends another statement than
  the one it was sent for does not disturb this: it still takes one statement away.

`PacedWorkerProofs` proves five theorems for any scenarios, resources and edits
(`IsScenario`, `Resource`: what the types of `scenario.rs` and `crd.rs` allow, validated or not), any
resolution of the clock and any length of the run.

* `TypeCorrect` (`TypeOK`). `TypeInv` adds what `acquire` relies on when it subtracts
  without a check (`ratelimit.rs:85`): the rounded-up wait is long enough, so who
  sleeps for a token has earned it when it wakes (`WaitInv`), since no event is taken between.
* `PaceAlwaysBounded` (`PaceBounded`). `PaceInv` is an account: the surplus, what the bucket would
  hold if it were refilled now, and the operation that is paid for but not executed yet
  are together at most one burst for each phase taken and one operation. A tick
  takes from the surplus at least what it adds to the bucket. A quiet second has no tokens
  to pay with; its own time pays, so the bound is reached only at its end.
* `RateAlwaysFollows` (`RateFollowsPhase`). `PlannedInv`: what is deployed is the plan of the
  scenario, which is valid unless it was edited. Validation then gives a stream an entry for
  each phase and a name of its own, so a worker finds its own stream's target in the row of
  its phase; the rest is division (`RoundedFleet`, `TruncatedFleet`).
* `BaselineAlwaysReachable` (`BaselineReachable`), from the same invariant, `"baseline"` being one of the
  six phases of a valid scenario with ingest.
* `PlanAlwaysConsistent` (`PlanIsConsistent`), from the same invariant again. An override leaves a
  group some query because weights of none do not sum to the whole (`NoWeights`). `Holds` is
  the invariant of the loop that builds a session: no category twice, each query so far in
  the one of its name.

`RunSummaryProofs` proves four theorems for any runs, workers, snapshots, number of buckets and
interleaving, from `RunSummaryAssumption` (snapshots have their types, and their seconds fit
a u64) and `LatencyDigestAssumption` (one bucket at least).

* `RunIsRecorded`, the inductive invariant `IInv`. `Collected`: the timeline has one point for each
  second with a bucket, made of all that has arrived of it. `Filed`: the file is the sorted form of the
  timeline when it was written, whose points are made of a part of what has arrived by now
  (`Recorded`), because later snapshots only add to a bucket while they replace the point.
  `Scored`: the status is computed from the timeline when GetResults came, the report
  from the file.
* `ReportAlwaysMatches` (`ReportMatchesReference`). A file is in the order of its seconds, so the
  first index that passes a filter is the least second that does, and no difference of two
  seconds wraps around.
* `ScorecardsAlwaysAgree` (`ScorecardsAgree`). The file is a rearrangement of the timeline of its
  moment, which by hypothesis (`written = scored`) is the one the results are computed from; whether
  later snapshots change or add points does not matter. What is compared are sums, counts and
  maxima over sets of points (`MeanOf`, `PeakBacklog`), which a rearrangement does not change; a
  timeline that is in order is its own sorted form.
* `PercentilesAlwaysBracketed` (`PercentilesBracketed`). Compression replaces the values of a
  chunk by their mean, so the number of values up to a threshold moves by less than a
  chunk (`CompressionShifts`); over all workers by less than their chunks together
  (`MergingShifts`), which is `Slack`. In the merged centroids, truncated rank and count meet at
  the percentile (`ReachedRank`), and the rounded rank of n - 1 that the per-query summary takes
  is never a lower one (`QueryIsNotLess`). Latencies are naturals and the mean of a chunk is cut to
  a whole one; the code computes in f64, where it may be off by a rounding.

All of it is about sorts and sums of any length. The induction theorems of the library take an
operator, which none of the provers can instantiate; `NumbersFrom` and `SubsetsFrom` state
induction for a set of numbers and for a set of subsets of a finite set instead. For the same
reason `LatencyDigest` defines a stable sort by where each element goes (`Place`): `SortSeq` has
no definition that the provers could use. `SelectSeq` has none either and is left in
`BaselineUnstable` only, which no theorem is about.

Every inductive invariant was checked by TLC on the instance of the component's run
before it was proved.

Only model-checked: liveness under fairness, which is outside what TLAPS proves, as is
everything that `ENABLED` is about; and the two rules of validity of `RunSummary`
(`StatusValid`, `ReportValid`), which have no property: they are different rules, and the
two answers may differ (section 5).

## 5. Where code and documents disagree

One has a run of its own, `run_summary_wraps`: "Aggregated timeline (ordered)"
(`aggregator.rs:71`) is in order of arrival, and `get_results` (`:413-417`) computes
from it. When a second of the recovery arrives before an earlier one,
`recovery_end - recovery_start` (`metrics.rs:284`, both u64) wraps around in a release build and the
status shows an enormous recovery time. The reporter is not affected: the file is
sorted.

Six more are stated as properties that TLC refutes on a small instance; they stay in their
modules without a run:

* `StartsWithAllWorkers`: "Wait for all workers to be ready" (`phase_controller.rs:289`).
  The barrier counts READY messages, and a restarted worker counts twice
  until its old stream is noticed to have ended.
* `TerminalIsFinal`: no arrow leaves Completed or Failed
  (`specifications/IncidentBench.md:301-303`), but phases are written
  unconditionally from a copy that may be old.
* `ReporterFailureCompletes`: "Reporter job failed, transitioning to Completed anyway"
  (`controller.rs:1029`) needs `status.failed >= 3`, which the Job built in
  `resources.rs:1021-1026` cannot reach.
* `FilesHoldTimeline`: the files are "the same data" as the live stream
  (`specifications/IncidentBench.md:458`), but are copied when the number of open
  streams first falls to zero.
* `LaneIsAlwaysOneConnection`: "One connection per session category (or per query name outside
  session mode)" (`mach5.rs:56-57`, `:184-188`). The key is the field `category` of the query, or else its
  name, in either mode. In an authored session a category whose queries differ in that field has
  several connections, and two categories whose queries share it have one; at a
  rate, queries of different names with one category share theirs, so that a cancel may end another query.
* `DeadlineKept`: "Per-query deadline in milliseconds" (`README.md:380`). It covers the statement,
  not the connection made before it (`mach5.rs:205`, no timeout, with the mutex held): in session
  mode a gateway that accepts nothing stops the first query of a lane, every other one behind the
  mutex, and with them the tick and the worker. At a rate the timeout around the call ends it.

Others were met while modelling; the models contain the behaviour but no property is
spent on it.

Operator, barrier and metrics:

* "Wait for acks (with 2s timeout)" (`phase_controller.rs:375`) is a pause of
  100 ms; `prepare_acks` is counted and never read.
* The end of an old stream removes the sender of the new one, because removal is
  by worker id (`phase_controller.rs:62`, `:187`): that worker gets no further
  transition and runs its phase to the end (`WorkersReleased` shows that it is
  let go all the same).
* "if the phase controller has been unreachable for too long, fail the run"
  (`controller.rs:793-794`) is only logged, and the operator itself scales the
  controller to zero before it writes that it did: when that write fails the run
  stays Running (the second case of `Stranded` in `RunOperator`).
* The bound on waiting for the aggregation ("cannot hang indefinitely",
  `controller.rs:863-864`) holds only for an aggregator that answers.
* A deletion of the resource takes effect only after the run has ended
  (`README.md:223`): no handler looks at the deletion timestamp.
* A failed run's pods are deleted ("Worker pods are NOT torn down",
  `specifications/IncidentBench.md:320`) and its reason is overwritten by the
  condition Cleaned, because a merge patch replaces the list.
* A deletion that fails in cleanup is not tried again ("always torn down",
  `specifications/IncidentBench.md:324`): the invariants carry the
  history variable `leaks` for it.
* Running is entered after the Deployments were applied, with errors dropped,
  not when workers are ready (`specifications/IncidentBench.md:310`).
* The operator's Deployment has one replica, a rolling update and no leader
  election: two may overlap. `Operators` is a set for that reason; the runs have one.
* There is no watermark (`specifications/IncidentBench.md:450`): a late snapshot
  changes a point that was already sent, and the last point of the timeline need not
  be the latest second (`aggregator.proto:33`).
* Errors of a kind that had no latency in a second are missing from the
  breakdown, which `worker.proto:51-52` does not say.
* Only sessions flush their last partial second (`query.rs:510-511`), and the
  process's exit may drop what is still in the channel.

Load (`LoadPlan`, `PacedWorker`):

* "Give remainder to last worker" (`scenario.rs:635`): every pod has worker_index 0
  (`resources.rs:309`), so the remainder is executed by nobody when there are two or more. With
  more workers than operations per second every one has rate 0.
* With rate 0 a worker executes one operation per second (`ratelimit.rs:72-80`), in spite
  of "phase with no activity"; at a very low rate it sleeps through whole phases.
* The weights of `mix_override` and of groups are checked by `validate` and used by nothing:
  queries are selected uniformly (`query.rs:106-108`, `:263` says "weighted mix"), and a session built
  from the categories holds the whole mix whatever the group overrides.
* `validate` accepts a scenario without queries, whose query workers end with "Empty query mix"
  before they report READY; the barrier then waits until it times out.
* A scenario edited after Pending is deployed without being validated again.

Results (`LatencyDigest`, `RunSummary`):

* A run that never recovers, and a backlog that is never drained, are reported as 0 s
  (`metrics.rs:268`, `:283`), which reads as at once (`README.md:536`, `:567`).
* The status calls a run valid when it has ten points and both phases; the reporter has
  other rules, so the two may contradict each other.
* A snapshot that arrives after the file was written changes points that the file already holds
  (`aggregator.rs:297-302`). When that is before GetResults, the status may differ from the report
  in every metric and not only in the two times.
* The throughput ratios divide by the target of the first overlap point alone
  (`metrics.rs:202-205`, `:234-237`), in the order of the list: in order of arrival for the status.
* Of fewer than 100 latencies the p99 is never the largest, because ranks are truncated; the
  summary by query rounds them.

Target (`SharedTarget`):

* In the namespace `default` cleanup deletes neither the warehouses nor the namespace that
  `prepare` has created ("warehouse is pre-existing", `mach5.rs:949`).
* A run without streams creates no connection and deletes that of its namespace.
* Topics are named by index alone: runs with one index share them, and the cleanup of
  one deletes them.
* Whatever `try_join_all` drops may be created after the cleanup has passed it.

SQL lanes (`SqlLanes`):

* "cancels only that statement" (`mach5.rs:255-256`): a cancel that arrives late ends the
  next statement of the lane.
* "Session mode fires one query per category per tick" (`mach5.rs:184`) holds only
  for parallelism 1. With more, the statements of a lane queue on one PID, their timeouts run
  while they wait, and the cancel of one ends another.
* In rate mode the outer timeout is `max(timeout_ms, 5000)` (`query.rs:272`) and the adapter's
  is `timeout_ms`, or 10 s when that is 0: at 0, and from 5 s on, the call is dropped before
  its cancel is sent.
* "fall back to query name to avoid collapsing unrelated queries onto the same PID"
  (`mach5.rs:187-188`): names of queries and of categories are keys of one map (`:189`), so
  a query without category that is named like a category shares its connection.
* A category of an authored session that has no queries passes validation; its worker panics at
  the first tick (`query.rs:371`, `:375`).
* A client whose connection broke is never replaced: every later query of its lane fails.

## 6. Not modelled

The contents of manifests beyond the load, log texts and status messages; Kafka's
and the target's behaviour beyond success or failure of a call; search requests of queries that are
not SQL (one HTTP call without state); the generation of events and the choice among queries
(seeded random choices without shared state); Kafka lag polling; layout of the JSON and HTML reports and of
the CLI's output; health and /proc readings; `try_acquire_batch` and `take_missed_ops` of the rate limiter,
which nothing calls.

## 7. Plan

1. Done: `PhaseGate` and `RunOperator` with proofs; `RunLifecycle`;
   `MetricsAggregator`; `WorkerMetrics`; `LoadPlan` and `PacedWorker`; `LatencyDigest` and
   `RunSummary`; `SharedTarget`; `SqlLanes`.
2. `BenchRun`: operator, controller, aggregator and workers together; a window of
   10 s in which an unpolled controller exits and replays the timeline; two
   operators.
3. Proofs: every invariant that a passing run checks, `NoSkippedPhase`, and the refinement of
   `RunLifecycle` are proved.
