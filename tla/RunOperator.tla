----------------------------- MODULE RunOperator -----------------------------
(***************************************************************************)
(* The operator's reconciler for one IncidentBenchRun                      *)
(* (incidentbench-operator/src/controller.rs).  A reconciliation reads the *)
(* run from the controller's local store, which trails the API server, and *)
(* then calls the API server, Kafka, the target and the benchmark's own    *)
(* services one after the other.  Each such call is a step here, so that   *)
(* crashes, failed calls, the user and the running benchmark fall between  *)
(* them.                                                                   *)
(***************************************************************************)
EXTENDS Naturals, Sequences, FiniteSets

CONSTANTS
    Operators,   \* operator processes (two while a rollout overlaps them)
    StreamSeq,   \* the scenario's data streams, in order
    MaxLag,      \* bound: versions by which a local store trails the server
    Failures,    \* which kinds of failure may happen
    MaxFaults    \* bound: how many failures happen

StreamSet == {StreamSeq[j] : j \in 1..Len(StreamSeq)}

FailureKinds ==
    {"api",        \* a call whose error ends the reconciliation (`?`)
     "swallowed",  \* a call whose error is dropped or only logged
     "prepare",    \* Kafka or the target refuses to create something
     "delete",     \* a deletion fails during cleanup
     "poll",       \* the controller or the aggregator cannot be reached
     "health",     \* a Deployment has stalled
     "crash",      \* the operator process dies
     "restart",    \* the controller or the aggregator pod is replaced
     "absence",    \* no reconciliation for as long as a finished Job is kept
     "job"}        \* the reporter fails, as often as it likes

ASSUME FailuresAssumption == Failures \subseteq FailureKinds /\ MaxFaults \in Nat

ASSUME StreamsAssumption ==
    /\ StreamSeq \in Seq(StreamSet)
    /\ \A j, l \in 1..Len(StreamSeq) : StreamSeq[j] = StreamSeq[l] => j = l

ASSUME LagAssumption == MaxLag \in Nat

Children == {"aggregator", "controller", "ingest", "query"}

\* Everything a run may leave behind has a name of its own.
ASSUME NamesAssumption ==
    StreamSet \cap (Children \cup {"platform", "prepareCM"}) = {}

DeployOrder == <<"aggregator", "controller", "ingest", "query">>
ScaleOrder  == <<"query", "controller", "ingest">>
DeleteOrder == <<"aggregator", "controller", "query", "ingest">>

Terminal == {"Completed", "Failed"}

Phases == {"Pending", "Preparing", "Initializing", "Running", "Aggregating",
           "Reporting"} \cup Terminal

\* The parts of the custom resource that the reconciler reads or writes; cond is
\* the one condition in status.conditions (every patch replaces the array).
Resource ==
    [exists : BOOLEAN, deleting : BOOLEAN, finalizer : BOOLEAN,
     valid : BOOLEAN, dryRun : BOOLEAN,
     phase : Phases,
     cond : {"none", "progress", "complete", "failed", "cleaned"},
     since : BOOLEAN,
     results : {"none", "empty", "metrics"}]

VARIABLES
    cr,      \* the resource on the API server
    cache,   \* operator -> its local store's copy
    watch,   \* operator -> versions its watch has not delivered yet
    view,    \* operator -> the copy the current reconciliation works from
    pc,      \* operator -> the call it makes next; "idle" between runs
    n        \* operator -> index of a loop over streams or Deployments

VARIABLES
    topics,     \* Kafka topics of the streams
    platform,   \* the target's indexes, pipelines and warehouses exist
    prepareCM,  \* the ConfigMap <run>-prepare exists
    children,   \* Deployment -> "absent", "up" or "zero" (scaled down)
    job         \* reporter Job: "none", "active", "succeeded", "failed"

VARIABLES
    timeline,   \* what the controller reports: "waiting" or "complete"
    agg,        \* what the aggregator reports: "collecting" or "complete"
    graceOver,  \* 120 s have passed since the aggregating-since annotation
    faults,     \* number of failures so far
    leaks       \* history: what a failed deletion of a cleanup left behind

crVars      == <<cr, cache, watch>>
localVars   == <<view, pc, n>>
infraVars   == <<topics, platform>>
clusterVars == <<prepareCM, children, job>>
benchVars   == <<timeline, agg, graceOver>>

vars == <<crVars, localVars, infraVars, clusterVars, benchVars, faults, leaks>>

Steps ==
    {"idle", "fail",
     "reject", "dryRun", "finalize", "toPreparing",
     "topics", "storePrepare", "toInitializing",
     "readPrepare", "deploy",
     "health", "poll", "scale", "toAggregating",
     "askAggregator", "fetch", "findJob", "checkJob",
     "deleteChildren", "cleanAdapter", "deleteTopics", "markCleaned"}

TypeOK ==
    /\ cr \in Resource
    /\ cache \in [Operators -> Resource]
    /\ watch \in [Operators -> Seq(Resource)]
    /\ \A o \in Operators : Len(watch[o]) <= MaxLag
    /\ view \in [Operators -> Resource]
    /\ pc \in [Operators -> Steps]
    /\ n \in [Operators -> 1..(Len(StreamSeq) + Len(DeployOrder) + 1)]
    /\ topics \subseteq StreamSet
    /\ platform \in BOOLEAN
    /\ prepareCM \in BOOLEAN
    /\ children \in [Children -> {"absent", "up", "zero"}]
    /\ job \in {"none", "active", "succeeded", "failed"}
    /\ timeline \in {"waiting", "complete"}
    /\ agg \in {"collecting", "complete"}
    /\ graceOver \in BOOLEAN
    /\ faults \in 0..MaxFaults
    /\ leaks \subseteq StreamSet \cup Children \cup {"platform", "prepareCM"}

NewRun(valid, dryRun) ==
    [exists |-> TRUE, deleting |-> FALSE, finalizer |-> FALSE,
     valid |-> valid, dryRun |-> dryRun, phase |-> "Pending",
     cond |-> "none", since |-> FALSE, results |-> "none"]

Init ==
    /\ \E valid, dryRun \in BOOLEAN : cr = NewRun(valid, dryRun)
    /\ cache = [o \in Operators |-> cr]
    /\ watch = [o \in Operators |-> << >>]
    /\ view = cache
    /\ pc = [o \in Operators |-> "idle"]
    /\ n = [o \in Operators |-> 1]
    /\ topics = {} /\ platform = FALSE
    /\ prepareCM = FALSE
    /\ children = [c \in Children |-> "absent"]
    /\ job = "none"
    /\ timeline = "waiting" /\ agg = "collecting" /\ graceOver = FALSE
    /\ faults = 0 /\ leaks = {}

-----------------------------------------------------------------------------
(* Steps, failures and writes to the resource *)

At(o, from) == pc[o] = from

GoTo(o, to) == pc' = [pc EXCEPT ![o] = to]

GoToLoop(o, to) == GoTo(o, to) /\ n' = [n EXCEPT ![o] = 1]

Failure(kind) == kind \in Failures /\ faults < MaxFaults /\ faults' = faults + 1

\* A loop over seq makes call Body for the entry at n[o] and then leaves for
\* step `to` after the last one.
InLoop(o, seq) == n[o] <= Len(seq)

NextEntry(o) == n' = [n EXCEPT ![o] = @ + 1] /\ UNCHANGED pc

\* A write becomes a version in every watch; a store that would fall more than
\* MaxLag versions behind receives its oldest one.
Publish(new) ==
    IF new = cr THEN UNCHANGED crVars
    ELSE /\ cr' = new
         /\ cache' = [o \in Operators |->
                        IF Len(watch[o]) < MaxLag THEN cache[o]
                        ELSE Head(Append(watch[o], new))]
         /\ watch' = [o \in Operators |->
                        IF Len(watch[o]) < MaxLag THEN Append(watch[o], new)
                        ELSE Tail(Append(watch[o], new))]

\* A merge patch of the resource: 404 when it is gone, and any call may fail;
\* both end the reconciliation.
Patch(o, new, to) ==
    \/ cr.exists /\ Publish(new) /\ GoTo(o, to) /\ UNCHANGED faults
    \/ ~cr.exists /\ GoTo(o, "idle") /\ UNCHANGED <<crVars, faults>>
    \/ Failure("api") /\ GoTo(o, "idle") /\ UNCHANGED crVars

StatusPatch(phase, cond) == [cr EXCEPT !.phase = phase, !.cond = cond]

-----------------------------------------------------------------------------
(* reconcile *)

Handler(r) ==
    CASE r.phase = "Pending"      -> IF ~r.valid THEN "reject"
                                     ELSE IF r.dryRun THEN "dryRun" ELSE "finalize"
      [] r.phase = "Preparing"    -> "topics"
      [] r.phase = "Initializing" -> "readPrepare"
      [] r.phase = "Running"      -> "health"
      [] r.phase = "Aggregating"  -> "askAggregator"
      [] r.phase = "Reporting"    -> "findJob"
      [] r.phase \in Terminal     -> "deleteChildren"

\* Mutated form: only a run that completed is cleaned up.
NeedsReconcileUnlessFailed(r) ==
    /\ r.exists
    /\ ~(r.phase = "Completed" /\ r.cond = "cleaned")
    /\ r.phase # "Failed"

\* A terminal run that has been cleaned needs nothing more.
NeedsReconcile(r) == r.exists /\ ~(r.phase \in Terminal /\ r.cond = "cleaned")

Reconcile(o) ==
    /\ At(o, "idle")
    /\ NeedsReconcile(cache[o])
    /\ view' = [view EXCEPT ![o] = cache[o]]
    /\ GoToLoop(o, Handler(cache[o]))
    /\ UNCHANGED <<crVars, infraVars, clusterVars, benchVars, faults, leaks>>

\* update_phase_failed, the last call of a handler that gives up
MarkFailed(o) ==
    /\ \/ At(o, "fail")
       \/ At(o, "reject")
    /\ Patch(o, StatusPatch("Failed", "failed"), "idle")
    /\ UNCHANGED <<view, n, infraVars, clusterVars, benchVars, leaks>>

-----------------------------------------------------------------------------
(* handle_pending *)

FinishDryRun(o) ==
    /\ At(o, "dryRun")
    /\ Patch(o, StatusPatch("Completed", "cleaned"), "idle")
    /\ UNCHANGED <<view, n, infraVars, clusterVars, benchVars, leaks>>

\* Mutated form: the run has no finalizer.
FinalizerNotSet(r) == r

FinalizerSet(r) == [r EXCEPT !.finalizer = TRUE]

AddFinalizer(o) ==
    /\ At(o, "finalize")
    /\ IF view[o].finalizer
       THEN GoTo(o, "toPreparing") /\ UNCHANGED <<crVars, faults>>
       ELSE Patch(o, FinalizerSet(cr), "toPreparing")
    /\ UNCHANGED <<view, n, infraVars, clusterVars, benchVars, leaks>>

ToPreparing(o) ==
    /\ At(o, "toPreparing")
    /\ Patch(o, StatusPatch("Preparing", "progress"), "idle")
    /\ UNCHANGED <<view, n, infraVars, clusterVars, benchVars, leaks>>

-----------------------------------------------------------------------------
(* handle_preparing *)

\* An existing topic is fine; any other error gives the run up.
CreateTopic(o) ==
    /\ At(o, "topics")
    /\ InLoop(o, StreamSeq)
    /\ \/ /\ topics' = topics \cup {StreamSeq[n[o]]}
          /\ NextEntry(o)
          /\ UNCHANGED faults
       \/ /\ Failure("prepare")
          /\ GoTo(o, "fail")
          /\ UNCHANGED <<topics, n>>
    /\ UNCHANGED <<crVars, view, platform, clusterVars, benchVars, leaks>>

\* A failed prepare may leave part of its work behind.
PrepareAdapter(o) ==
    /\ At(o, "topics")
    /\ ~InLoop(o, StreamSeq)
    /\ \/ platform' = TRUE /\ GoTo(o, "storePrepare") /\ UNCHANGED faults
       \/ Failure("prepare") /\ GoTo(o, "fail") /\ platform' \in {platform, TRUE}
    /\ UNCHANGED <<crVars, view, n, topics, clusterVars, benchVars, leaks>>

StorePrepare(o) ==
    /\ At(o, "storePrepare")
    /\ \/ prepareCM' = TRUE /\ UNCHANGED faults
       \/ Failure("swallowed") /\ UNCHANGED prepareCM
    /\ GoTo(o, "toInitializing")
    /\ UNCHANGED <<crVars, view, n, infraVars, children, job, benchVars, leaks>>

ToInitializing(o) ==
    /\ At(o, "toInitializing")
    /\ Patch(o, StatusPatch("Initializing", "progress"), "idle")
    /\ UNCHANGED <<view, n, infraVars, clusterVars, benchVars, leaks>>

-----------------------------------------------------------------------------
(* handle_initializing *)

ReadPrepare(o) ==
    /\ At(o, "readPrepare")
    /\ \/ prepareCM /\ GoToLoop(o, "deploy") /\ UNCHANGED faults
       \/ ~prepareCM /\ GoToLoop(o, "idle") /\ UNCHANGED faults
       \/ Failure("api") /\ GoToLoop(o, "idle")
    /\ UNCHANGED <<crVars, view, infraVars, clusterVars, benchVars, leaks>>

\* ConfigMaps, Services and Deployments are applied one by one; an error is
\* dropped.  Applying again restores the replicas.
Deploy(o) ==
    /\ At(o, "deploy")
    /\ InLoop(o, DeployOrder)
    /\ \/ /\ children' = [children EXCEPT ![DeployOrder[n[o]]] = "up"]
          /\ UNCHANGED faults
       \/ Failure("swallowed") /\ UNCHANGED children
    /\ NextEntry(o)
    /\ UNCHANGED <<crVars, view, infraVars, prepareCM, job, benchVars, leaks>>

\* The worker counts written are the desired ones; no Deployment is read.
ToRunning(o) ==
    /\ At(o, "deploy")
    /\ ~InLoop(o, DeployOrder)
    /\ Patch(o, StatusPatch("Running", "progress"), "idle")
    /\ UNCHANGED <<view, n, infraVars, clusterVars, benchVars, leaks>>

-----------------------------------------------------------------------------
(* handle_running *)

\* check_worker_health: absent and scaled-down Deployments pass.
CheckHealth(o) ==
    /\ At(o, "health")
    /\ \/ GoTo(o, "poll") /\ UNCHANGED faults
       \/ /\ \E c \in Children : children[c] = "up"
          /\ Failure("health")
          /\ GoTo(o, "fail")
    /\ UNCHANGED <<crVars, view, n, infraVars, clusterVars, benchVars, leaks>>

\* poll_phase_controller.  An unreachable controller is logged, whatever the
\* number of times, and the progress patch changes nothing modelled here.
Poll(o) ==
    /\ At(o, "poll")
    /\ \/ /\ children["controller"] = "up"
          /\ IF timeline = "complete" THEN GoToLoop(o, "scale")
                                      ELSE GoToLoop(o, "idle")
          /\ UNCHANGED faults
       \/ children["controller"] # "up" /\ GoToLoop(o, "idle") /\ UNCHANGED faults
       \/ Failure("poll") /\ GoToLoop(o, "idle")
    /\ UNCHANGED <<crVars, view, infraVars, clusterVars, benchVars, leaks>>

ScaleDown(o) ==
    /\ At(o, "scale")
    /\ InLoop(o, ScaleOrder)
    /\ LET c == ScaleOrder[n[o]] IN
       \/ /\ children' = [children EXCEPT ![c] = IF @ = "up" THEN "zero" ELSE @]
          /\ UNCHANGED faults
       \/ Failure("swallowed") /\ UNCHANGED children
    /\ NextEntry(o)
    /\ UNCHANGED <<crVars, view, infraVars, prepareCM, job, benchVars, leaks>>

\* Mutated form: the annotation is left out.
AnnotateSinceSkipped(o) ==
    /\ At(o, "scale")
    /\ ~InLoop(o, ScaleOrder)
    /\ GoTo(o, "toAggregating")
    /\ UNCHANGED <<crVars, view, n, infraVars, clusterVars, benchVars, faults, leaks>>

AnnotateSince(o) ==
    /\ At(o, "scale")
    /\ ~InLoop(o, ScaleOrder)
    /\ Patch(o, [cr EXCEPT !.since = TRUE], "toAggregating")
    /\ graceOver' = (IF pc'[o] = "toAggregating" THEN FALSE ELSE graceOver)
    /\ UNCHANGED <<view, n, infraVars, clusterVars, timeline, agg, leaks>>

ToAggregating(o) ==
    /\ At(o, "toAggregating")
    /\ Patch(o, [cr EXCEPT !.phase = "Aggregating"], "idle")
    /\ UNCHANGED <<view, n, infraVars, clusterVars, benchVars, leaks>>

-----------------------------------------------------------------------------
(* handle_aggregating *)

AggregatorUp == children["aggregator"] = "up"

\* Mutated form: a stream that never closes is waited for without end.
CollectedOnlyComplete(o) == agg = "complete"

Collected(o) == agg = "complete" \/ (view[o].since /\ graceOver)

\* An unreachable aggregator is waited for without end; one that still collects
\* until the annotation is 120 s old.
AskAggregator(o) ==
    /\ At(o, "askAggregator")
    /\ \/ /\ AggregatorUp
          /\ GoTo(o, IF Collected(o) THEN "fetch" ELSE "idle")
          /\ UNCHANGED faults
       \/ ~AggregatorUp /\ GoTo(o, "idle") /\ UNCHANGED faults
       \/ Failure("poll") /\ GoTo(o, "idle")
    /\ UNCHANGED <<crVars, view, n, infraVars, clusterVars, benchVars, leaks>>

\* Mutated form: the results stay in the aggregator.
ReportingWithout(results) == [cr EXCEPT !.phase = "Reporting"]

ReportingWith(results) == [cr EXCEPT !.phase = "Reporting", !.results = results]

\* get_results completes an aggregation that has data; when it fails the run is
\* reported with empty, invalid results.
FetchResults(o) ==
    /\ At(o, "fetch")
    /\ \/ /\ AggregatorUp
          /\ agg' = "complete"
          /\ Patch(o, ReportingWith("metrics"), "idle")
       \/ /\ UNCHANGED agg
          /\ Patch(o, ReportingWith("empty"), "idle")
    /\ UNCHANGED <<view, n, infraVars, clusterVars, timeline, graceOver, leaks>>

-----------------------------------------------------------------------------
(* handle_reporting *)

FindJob(o) ==
    /\ At(o, "findJob")
    /\ \/ /\ job' = IF job = "none" THEN "active" ELSE job
          /\ GoTo(o, "checkJob")
          /\ UNCHANGED faults
       \/ Failure("api") /\ GoTo(o, "idle") /\ UNCHANGED job
    /\ UNCHANGED <<crVars, view, n, infraVars, prepareCM, children, benchVars, leaks>>

\* status.failed of a Job with restartPolicy OnFailure whose backoffLimit is
\* used up: its one pod is counted once.
FailedPods == IF job = "failed" THEN 1 ELSE 0

FailedForGood == FailedPods >= 3

JobDone(o) ==
    /\ At(o, "checkJob")
    /\ job = "succeeded" \/ FailedForGood
    /\ Patch(o, StatusPatch("Completed", "complete"), "idle")
    /\ UNCHANGED <<view, n, infraVars, clusterVars, benchVars, leaks>>

\* Neither finished nor given up, or expired since FindJob: look again later.
JobPending(o) ==
    /\ At(o, "checkJob")
    /\ job # "succeeded" /\ ~FailedForGood
    /\ GoTo(o, "idle")
    /\ UNCHANGED <<crVars, view, n, infraVars, clusterVars, benchVars, faults, leaks>>

-----------------------------------------------------------------------------
(* handle_cleanup *)

\* A failed deletion is logged and forgotten.
DeleteChild(o) ==
    /\ At(o, "deleteChildren")
    /\ InLoop(o, DeleteOrder)
    /\ LET c == DeleteOrder[n[o]] IN
       \/ /\ children' = [children EXCEPT ![c] = "absent"]
          /\ leaks' = leaks \ {c}
          /\ UNCHANGED faults
       \/ /\ children[c] # "absent"
          /\ Failure("delete")
          /\ leaks' = leaks \cup {c}
          /\ UNCHANGED children
    /\ NextEntry(o)
    /\ UNCHANGED <<crVars, view, infraVars, prepareCM, job, benchVars>>

DeletePrepare(o) ==
    /\ At(o, "deleteChildren")
    /\ ~InLoop(o, DeleteOrder)
    /\ \/ prepareCM' = FALSE /\ leaks' = leaks \ {"prepareCM"} /\ UNCHANGED faults
       \/ /\ prepareCM
          /\ Failure("delete")
          /\ leaks' = leaks \cup {"prepareCM"}
          /\ UNCHANGED prepareCM
    /\ GoToLoop(o, "cleanAdapter")
    /\ UNCHANGED <<crVars, view, infraVars, children, job, benchVars>>

CleanAdapter(o) ==
    /\ At(o, "cleanAdapter")
    /\ \/ platform' = FALSE /\ leaks' = leaks \ {"platform"} /\ UNCHANGED faults
       \/ /\ platform
          /\ Failure("delete")
          /\ leaks' = leaks \cup {"platform"}
          /\ UNCHANGED platform
    /\ GoToLoop(o, "deleteTopics")
    /\ UNCHANGED <<crVars, view, topics, clusterVars, benchVars>>

DeleteTopic(o) ==
    /\ At(o, "deleteTopics")
    /\ InLoop(o, StreamSeq)
    /\ LET s == StreamSeq[n[o]] IN
       \/ topics' = topics \ {s} /\ leaks' = leaks \ {s} /\ UNCHANGED faults
       \/ /\ s \in topics
          /\ Failure("delete")
          /\ leaks' = leaks \cup {s}
          /\ UNCHANGED topics
    /\ NextEntry(o)
    /\ UNCHANGED <<crVars, view, platform, clusterVars, benchVars>>

\* Mutated form: the finalizer stays.
FinalizerKept(r) == r

\* Without its finalizer a resource that is being deleted is gone.
FinalizerDropped(r) ==
    [r EXCEPT !.finalizer = FALSE, !.exists = ~r.deleting]

DropFinalizer(o) ==
    /\ At(o, "deleteTopics")
    /\ ~InLoop(o, StreamSeq)
    /\ Patch(o, FinalizerDropped(cr), "markCleaned")
    /\ UNCHANGED <<view, n, infraVars, clusterVars, benchVars, leaks>>

\* Mutated form: a phase of its own instead of the condition.
MarkCleanedPhase(o) ==
    /\ At(o, "markCleaned")
    /\ Patch(o, StatusPatch("Cleaned", "cleaned"), "idle")
    /\ UNCHANGED <<view, n, infraVars, clusterVars, benchVars, leaks>>

MarkCleaned(o) ==
    /\ At(o, "markCleaned")
    /\ Patch(o, [cr EXCEPT !.cond = "cleaned"], "idle")
    /\ UNCHANGED <<view, n, infraVars, clusterVars, benchVars, leaks>>

-----------------------------------------------------------------------------
(* Around the operator *)

WatchDelivers(o) ==
    /\ watch[o] # << >>
    /\ cache' = [cache EXCEPT ![o] = Head(watch[o])]
    /\ watch' = [watch EXCEPT ![o] = Tail(@)]
    /\ UNCHANGED <<cr, localVars, infraVars, clusterVars, benchVars, faults, leaks>>

\* A new process lists the resource afresh.
OperatorRestarts(o) ==
    /\ ~At(o, "idle")
    /\ Failure("crash")
    /\ GoToLoop(o, "idle")
    /\ cache' = [cache EXCEPT ![o] = cr]
    /\ watch' = [watch EXCEPT ![o] = << >>]
    /\ view' = [view EXCEPT ![o] = cr]
    /\ UNCHANGED <<cr, infraVars, clusterVars, benchVars, leaks>>

UserDeletes ==
    /\ cr.exists
    /\ ~cr.deleting
    /\ Publish([cr EXCEPT !.deleting = TRUE, !.exists = cr.finalizer])
    /\ UNCHANGED <<localVars, infraVars, clusterVars, benchVars, faults, leaks>>

\* Owner references: the children of a resource that is gone are collected.
CollectGarbage ==
    /\ ~cr.exists
    /\ \/ \E c \in Children : children[c] # "absent"
       \/ prepareCM
       \/ job # "none"
    /\ children' = [c \in Children |-> "absent"]
    /\ prepareCM' = FALSE
    /\ job' = "none"
    /\ UNCHANGED <<crVars, localVars, infraVars, benchVars, faults, leaks>>

\* The benchmark itself: the controller drives the workers to the end.
TimelineEnds ==
    /\ timeline = "waiting"
    /\ \A c \in Children \ {"aggregator"} : children[c] = "up"
    /\ timeline' = "complete"
    /\ UNCHANGED <<crVars, localVars, infraVars, clusterVars, agg, graceOver,
                   faults, leaks>>

\* The controller exits 10 s after the end and its Deployment starts it again
\* when no reconciliation has scaled it down, or its pod is replaced earlier.
ControllerRestarts ==
    /\ timeline = "complete"
    /\ children["controller"] = "up"
    /\ Failure("restart")
    /\ timeline' = "waiting"
    /\ UNCHANGED <<crVars, localVars, infraVars, clusterVars, agg, graceOver, leaks>>

\* The last metrics stream ends.
AggregationCompletes ==
    /\ agg = "collecting"
    /\ AggregatorUp
    /\ timeline = "complete"
    /\ agg' = "complete"
    /\ UNCHANGED <<crVars, localVars, infraVars, clusterVars, timeline, graceOver,
                   faults, leaks>>

\* The aggregator keeps its state in memory.
AggregatorRestarts ==
    /\ agg = "complete"
    /\ AggregatorUp
    /\ Failure("restart")
    /\ agg' = "collecting"
    /\ UNCHANGED <<crVars, localVars, infraVars, clusterVars, timeline, graceOver,
                   leaks>>

GraceElapses ==
    /\ cr.since
    /\ ~graceOver
    /\ graceOver' = TRUE
    /\ UNCHANGED <<crVars, localVars, infraVars, clusterVars, timeline, agg, faults,
                   leaks>>

ReporterEnds ==
    /\ job = "active"
    /\ \/ job' = "succeeded" /\ UNCHANGED faults
       \/ job' = "failed" /\ "job" \in Failures /\ UNCHANGED faults
    /\ UNCHANGED <<crVars, localVars, infraVars, prepareCM, children, benchVars, leaks>>

\* ttlSecondsAfterFinished (600 s); a Job whose success is still to be seen lasts
\* that long only when the reconciliations, 5 s apart, do not come.
JobExpires ==
    /\ job \in {"succeeded", "failed"}
    /\ job' = "none"
    /\ \/ (job = "failed" \/ cr.phase # "Reporting") /\ UNCHANGED faults
       \/ job = "succeeded" /\ cr.phase = "Reporting" /\ Failure("absence")
    /\ UNCHANGED <<crVars, localVars, infraVars, prepareCM, children, benchVars, leaks>>

-----------------------------------------------------------------------------

HandlerStep(o) ==
    \/ MarkFailed(o)
    \/ FinishDryRun(o) \/ AddFinalizer(o) \/ ToPreparing(o)
    \/ CreateTopic(o) \/ PrepareAdapter(o) \/ StorePrepare(o) \/ ToInitializing(o)
    \/ ReadPrepare(o) \/ Deploy(o) \/ ToRunning(o)
    \/ CheckHealth(o) \/ Poll(o) \/ ScaleDown(o) \/ AnnotateSince(o)
    \/ ToAggregating(o)
    \/ AskAggregator(o) \/ FetchResults(o)
    \/ FindJob(o) \/ JobDone(o) \/ JobPending(o)
    \/ DeleteChild(o) \/ DeletePrepare(o) \/ CleanAdapter(o) \/ DeleteTopic(o)
    \/ DropFinalizer(o) \/ MarkCleaned(o)

OperatorNext(o) ==
    Reconcile(o) \/ HandlerStep(o) \/ WatchDelivers(o) \/ OperatorRestarts(o)

Benchmark ==
    TimelineEnds \/ ControllerRestarts \/ AggregationCompletes
    \/ AggregatorRestarts \/ GraceElapses

Cluster == UserDeletes \/ CollectGarbage \/ ReporterEnds \/ JobExpires

Next ==
    \/ \E o \in Operators : OperatorNext(o)
    \/ Benchmark
    \/ Cluster

Spec == Init /\ [][Next]_vars

\* The controller requeues every run that is not over (after 5 s, or 30 s when a
\* call failed), the watch delivers, and what was started ends.
Fairness ==
    /\ \A o \in Operators :
          /\ WF_vars(Reconcile(o) \/ HandlerStep(o))
          /\ WF_vars(WatchDelivers(o))
    /\ WF_vars(TimelineEnds)
    /\ WF_vars(GraceElapses)
    /\ WF_vars(ReporterEnds)
    /\ WF_vars(JobExpires)
    /\ WF_vars(CollectGarbage)

FairSpec == Spec /\ Fairness
-----------------------------------------------------------------------------
(* Properties *)

Outside == topics \cup (IF platform THEN {"platform"} ELSE {})

Remaining ==
    Outside \cup {c \in Children : children[c] # "absent"}
            \cup (IF prepareCM THEN {"prepareCM"} ELSE {})

\* What exists outside the cluster is never orphaned: until its deletion has
\* been tried, the resource is there and holds the finalizer, whatever fails,
\* crashes or is seen late in between.
InfraProtected ==
    Outside \ leaks # {} => cr.exists /\ cr.finalizer

\* A run that waits for its aggregation carries the annotation that bounds the
\* wait: there is no point at which a crash leaves it without.
AggregatingIsBounded ==
    cr.phase = "Aggregating" => cr.since

\* A run is not shown as completed before the results of its aggregation, or
\* the empty ones that stand for them, are in its status.
CompletedHasResults ==
    cr.exists /\ cr.phase = "Completed" /\ ~cr.dryRun => cr.results # "none"

\* The operator leaves a run alone only when nothing of it is left but what could
\* not be deleted.  This needs MaxLag <= 2: with three writes that its store has not
\* seen, it may deploy again from an Initializing version after its own cleanup.
LeftAloneMeansGone ==
    cr.exists /\ ~NeedsReconcile(cr) => Remaining \subseteq leaks

\* Seen from outside the run goes through the linear lifecycle, and its
\* infrastructure exists only inside it, whatever fails, as long as the operator
\* reads its own writes.
Lifecycle ==
    INSTANCE RunLifecycle
        WITH phase <- cr.phase, present <- cr.exists, infra <- Outside \ leaks # {}

LifecycleSpec == Lifecycle!Spec

\* The phases a run does not leave by itself, because the handler waits for
\* something that nobody brings back.
Stranded ==
    /\ cr.exists
    /\ \/ cr.phase = "Initializing" /\ ~prepareCM
       \/ cr.phase = "Running" /\ \E c \in Children \ {"aggregator"} : children[c] # "up"
       \/ cr.phase = "Aggregating" /\ children["aggregator"] # "up"

\* Every run ends and is cleaned up, through crashes, failed calls, late watches
\* and replaced pods, except one that strands: there is no other way for a run
\* to hang.
RunEnds == <>[](~NeedsReconcile(cr)) \/ <>[]Stranded

\* A run that the user deletes is gone in the end, with everything of it that
\* could be deleted, unless it strands.
DeletedRunVanishes ==
    (cr.exists /\ cr.deleting)
        ~> ((~cr.exists /\ Remaining \subseteq leaks) \/ []Stranded)

\* The state machine of section 2.4 (specifications/IncidentBench.md:301-303):
\* no arrow leaves Completed or Failed.  With MaxLag > 0 it does not hold: a
\* reconciliation from an old copy writes its phase over a terminal one.
TerminalIsFinal ==
    [][cr.phase \in Terminal => cr'.phase = cr.phase]_vars

\* "Reporter job failed, transitioning to Completed anyway" (controller.rs:1029):
\* a reporter that has failed for good does not keep the run from ending.  It does,
\* when "job" is among Failures: FailedPods never reaches three.
ReporterFailureCompletes ==
    (cr.exists /\ job = "failed") ~> (~cr.exists \/ cr.phase \in Terminal)
=============================================================================
