-------------------------- MODULE MetricsAggregator --------------------------
(***************************************************************************)
(* The MetricsAggregator process (incidentbench-worker/src/aggregator.rs). *)
(* Workers report one snapshot per second over a client stream each, live  *)
(* subscribers read what is aggregated, and everything shares one mutex.   *)
(*                                                                         *)
(* A snapshot is abstracted to the second it is for and the mode of its    *)
(* worker: all sums over the snapshots of a second behave as their number. *)
(***************************************************************************)
EXTENDS Naturals, Sequences, FiniteSets

CONSTANTS
    IngestWorkers,    \* workers whose snapshots have mode "ingest"
    QueryWorkers,     \* workers whose snapshots have mode "query"
    Subscribers,      \* clients of StreamMetrics
    MaxSecond,        \* bound: seconds of the run
    MaxSnapshots,     \* bound: snapshots one aggregator process receives
    MaxStreams,       \* bound: streams a worker opens (retries and restarts)
    MaxErrorRecords,  \* MAX_QUERY_ERROR_RECORDS
    LiveCapacity,     \* capacity of the live broadcast channel
    OutCapacity,      \* capacity of a subscriber's outbound channel
    MaxFaults         \* bound: broken streams, dropped handlers, restarts

ASSUME WorkersAssumption ==
    /\ IngestWorkers \cap QueryWorkers = {}
    /\ IsFiniteSet(IngestWorkers) /\ IsFiniteSet(QueryWorkers)

ASSUME SubscribersAssumption == "free" \notin Subscribers

ASSUME BoundsAssumption ==
    /\ MaxSecond \in Nat \ {0}
    /\ MaxSnapshots \in Nat
    /\ MaxStreams \in Nat
    /\ MaxErrorRecords \in Nat
    /\ LiveCapacity \in Nat \ {0}
    /\ OutCapacity \in Nat \ {0}
    /\ MaxFaults \in Nat

Workers == IngestWorkers \cup QueryWorkers

Streams == Workers \X (1..MaxStreams)

Seconds == 1..MaxSecond

VARIABLES
    buckets,       \* second -> number of ingest and of query snapshots
    timeline,      \* aggregated points, in the order of their first snapshot
    connected,     \* connected_workers
    hadWorkers,    \* had_workers
    snapshots,     \* total_snapshots
    agg,           \* state: "collecting" or "complete"
    errorRecords,  \* length of query_error_records
    lock           \* "free", or the subscriber that holds the mutex while it sends

VARIABLES
    saving,        \* what the spawned persist_results will write; NoData: none
    file           \* the results files

VARIABLES
    calls,         \* worker -> streams it has opened
    st,            \* stream -> state of its handler
    last,          \* stream -> second of its latest snapshot
    runOver,       \* the timeline is over: workers close their streams
    faults

VARIABLES
    sub,           \* subscriber -> state of its task
    wants,         \* subscriber -> include_history of its request
    history,       \* subscriber -> next point of the history to send
    liveQ,         \* subscriber -> its receiver of the broadcast channel
    lagged,        \* subscriber -> that receiver has missed a point
    out,           \* subscriber -> points in its outbound channel, not yet read
    view           \* subscriber -> what it was sent last for each second

dataVars   == <<buckets, timeline, snapshots, errorRecords>>
gateVars   == <<connected, hadWorkers, agg>>
fileVars   == <<saving, file>>
streamVars == <<calls, st, last, runOver>>
subVars    == <<sub, wants, history, liveQ, lagged, out, view>>

vars == <<dataVars, gateVars, lock, fileVars, streamVars, subVars, faults>>

NoData == [t \in {} |-> 0]

Empty == [ingest |-> 0, query |-> 0]

NoView == [t \in Seconds |-> Empty]

Counts == [ingest : Nat, query : Nat]

Points == [t : Seconds, ingest : Nat, query : Nat]

\* "accepted": called, not yet counted; "stale": the worker is gone and the
\* server does not know; "ended": the handler left its loop; "dropped": the
\* server dropped the handler before it could uncount the worker.
HandlerStates == {"none", "accepted", "open", "stale", "ended", "closed", "dropped"}

TypeOK ==
    /\ buckets \in [Seconds -> Counts]
    /\ timeline \in Seq(Points)
    /\ connected \in 0..Cardinality(Streams)
    /\ hadWorkers \in BOOLEAN
    /\ snapshots \in 0..MaxSnapshots
    /\ agg \in {"collecting", "complete"}
    /\ errorRecords \in 0..MaxErrorRecords
    /\ lock \in {"free"} \cup Subscribers
    /\ saving \in {NoData} \cup [Seconds -> Counts]
    /\ file \in {NoData} \cup [Seconds -> Counts]
    /\ calls \in [Workers -> 0..MaxStreams]
    /\ st \in [Streams -> HandlerStates]
    /\ last \in [Streams -> 0..MaxSecond]
    /\ runOver \in BOOLEAN
    /\ faults \in 0..MaxFaults
    /\ sub \in [Subscribers -> {"off", "subscribed", "history", "live", "ended"}]
    /\ wants \in [Subscribers -> BOOLEAN]
    /\ history \in [Subscribers -> Nat \ {0}]
    /\ liveQ \in [Subscribers -> Seq(Points)]
    /\ \A u \in Subscribers : Len(liveQ[u]) <= LiveCapacity
    /\ lagged \in [Subscribers -> BOOLEAN]
    /\ out \in [Subscribers -> 0..OutCapacity]
    /\ view \in [Subscribers -> [Seconds -> Counts]]

Init ==
    /\ buckets = [t \in Seconds |-> Empty]
    /\ timeline = << >> /\ snapshots = 0 /\ errorRecords = 0
    /\ connected = 0 /\ hadWorkers = FALSE /\ agg = "collecting"
    /\ lock = "free"
    /\ saving = NoData /\ file = NoData
    /\ calls = [w \in Workers |-> 0]
    /\ st = [s \in Streams |-> "none"]
    /\ last = [s \in Streams |-> 0]
    /\ runOver = FALSE /\ faults = 0
    /\ sub = [u \in Subscribers |-> "off"]
    /\ history = [u \in Subscribers |-> 1]
    /\ liveQ = [u \in Subscribers |-> << >>]
    /\ lagged = [u \in Subscribers |-> FALSE]
    /\ out = [u \in Subscribers |-> 0]
    /\ wants = [u \in Subscribers |-> FALSE]
    /\ view = [u \in Subscribers |-> NoView]

Fault == faults < MaxFaults /\ faults' = faults + 1

SetState(s, state) == st' = [st EXCEPT ![s] = state]

-----------------------------------------------------------------------------
(* complete_aggregation, called under the mutex *)

\* The files are written by a task of their own, from a copy made now and
\* sorted by second.
CompleteAggregation ==
    /\ agg' = "complete"
    /\ saving' = IF agg = "complete" THEN saving ELSE buckets

WriteFiles ==
    /\ saving # NoData
    /\ file' = saving
    /\ saving' = NoData
    /\ UNCHANGED <<dataVars, gateVars, lock, streamVars, subVars, faults>>

-----------------------------------------------------------------------------
(* report_metrics: one handler per stream *)

\* The client side of the stream, stream_metrics_to_aggregator of a worker.
OpenStream(w) ==
    /\ ~runOver
    /\ calls[w] < MaxStreams
    /\ calls[w] > 0 => st[<<w, calls[w]>>] \notin {"accepted", "open"}
    /\ calls' = [calls EXCEPT ![w] = @ + 1]
    /\ SetState(<<w, calls[w] + 1>>, "accepted")
    /\ UNCHANGED <<dataVars, gateVars, lock, fileVars, last, runOver, subVars, faults>>

CountWorker(s) ==
    /\ st[s] = "accepted"
    /\ lock = "free"
    /\ connected' = connected + 1
    /\ hadWorkers' = TRUE
    /\ SetState(s, "open")
    /\ UNCHANGED <<dataVars, agg, lock, fileVars, calls, last, runOver, subVars, faults>>

IsIngest(s) == s[1] \in IngestWorkers

Added(s, t) ==
    IF IsIngest(s) THEN [buckets EXCEPT ![t].ingest = @ + 1]
                   ELSE [buckets EXCEPT ![t].query = @ + 1]

\* try_aggregate_bucket
PointOf(t, counts) == [t |-> t, ingest |-> counts.ingest, query |-> counts.query]

IndexOfSecond(t) == {j \in 1..Len(timeline) : timeline[j].t = t}

\* Mutated form: a second snapshot of the same second makes a second point.
AppendPoint(p) == Append(timeline, p)

\* The point of a second is replaced where it stands, or appended.
WithPoint(p) ==
    IF IndexOfSecond(p.t) = {}
    THEN Append(timeline, p)
    ELSE [j \in 1..Len(timeline) |-> IF timeline[j].t = p.t THEN p ELSE timeline[j]]

SmallerOf(a, b) == IF a <= b THEN a ELSE b

\* Mutated form: all records are taken while there is any room.
RecordsIfRoom(n, k) == IF n < MaxErrorRecords THEN n + k ELSE n

RecordsAfter(n, k) == SmallerOf(n + k, MaxErrorRecords)

Listening(u) == sub[u] \in {"subscribed", "history", "live"}

Full(u) == Len(liveQ[u]) = LiveCapacity

\* Mutated form: only a new point is broadcast, not one that replaces another.
BroadcastIfNew(p) ==
    IF IndexOfSecond(p.t) # {} THEN UNCHANGED <<liveQ, lagged>>
    ELSE /\ liveQ' = [u \in Subscribers |->
                        IF ~Listening(u) THEN liveQ[u]
                        ELSE Append(IF Full(u) THEN Tail(liveQ[u]) ELSE liveQ[u], p)]
         /\ lagged' = [u \in Subscribers |-> lagged[u] \/ (Listening(u) /\ Full(u))]

\* live_tx.send: a receiver that is full misses its oldest point.
BroadcastPoint(p) ==
    /\ liveQ' = [u \in Subscribers |->
                    IF ~Listening(u) THEN liveQ[u]
                    ELSE Append(IF Full(u) THEN Tail(liveQ[u]) ELSE liveQ[u], p)]
    /\ lagged' = [u \in Subscribers |-> lagged[u] \/ (Listening(u) /\ Full(u))]

\* A snapshot is for a later second than the one before it on its stream, but
\* for any second with respect to other streams: there is no watermark.
ReceiveSnapshot(s, t, records) ==
    /\ st[s] = "open"
    /\ lock = "free"
    /\ t > last[s]
    /\ snapshots < MaxSnapshots
    /\ last' = [last EXCEPT ![s] = t]
    /\ snapshots' = snapshots + 1
    /\ errorRecords' = RecordsAfter(errorRecords, records)
    /\ buckets' = Added(s, t)
    /\ timeline' = WithPoint(PointOf(t, Added(s, t)[t]))
    /\ BroadcastPoint(PointOf(t, Added(s, t)[t]))
    /\ UNCHANGED <<gateVars, lock, fileVars, calls, st, runOver, sub, wants, history,
                   out, view, faults>>

\* No snapshot comes after this one.
StreamOver(s, state) == SetState(s, state) /\ last' = [last EXCEPT ![s] = 0]

\* The worker is done and closes its stream.
EndStream(s) ==
    /\ st[s] = "open"
    /\ runOver
    /\ StreamOver(s, "ended")
    /\ UNCHANGED <<dataVars, gateVars, lock, fileVars, calls, runOver, subVars, faults>>

\* The connection breaks or the worker dies.  The handler reads an error, or is
\* dropped with the connection, or waits on for a stream that is gone.
BreakStream(s) ==
    /\ st[s] \in {"accepted", "open"}
    /\ Fault
    /\ \/ st[s] = "open" /\ \E state \in {"ended", "dropped", "stale"} : StreamOver(s, state)
       \/ st[s] = "accepted" /\ StreamOver(s, "closed")
    /\ UNCHANGED <<dataVars, gateVars, lock, fileVars, calls, runOver, subVars>>

\* Mutated form: nothing is completed before there is data.
IsDrainedWithData(n) == n = 0 /\ snapshots > 0

IsDrained(n) == n = 0 /\ hadWorkers

SaturatingDec(n) == IF n = 0 THEN 0 ELSE n - 1

\* Mutated form: a stream that ended is still counted.
Uncounted(n) == n

AfterUncount(n) == SaturatingDec(n)

UncountWorker(s) ==
    /\ st[s] = "ended"
    /\ lock = "free"
    /\ connected' = AfterUncount(connected)
    /\ IF IsDrained(connected')
       THEN CompleteAggregation
       ELSE UNCHANGED <<agg, saving>>
    /\ SetState(s, "closed")
    /\ UNCHANGED <<dataVars, hadWorkers, lock, file, calls, last, runOver, subVars, faults>>

\* get_results before every stream has closed; without data it is an error.
\* The operator calls it when the timeline is over.
ForceComplete ==
    /\ runOver
    /\ lock = "free"
    /\ agg = "collecting"
    /\ hadWorkers
    /\ snapshots > 0
    /\ CompleteAggregation
    /\ UNCHANGED <<dataVars, connected, hadWorkers, lock, file, streamVars, subVars, faults>>

-----------------------------------------------------------------------------
(* stream_metrics: one task per subscriber *)

\* The receiver is made before the task starts and takes the mutex.
Subscribe(u) ==
    /\ sub[u] = "off"
    /\ \E include_history \in BOOLEAN :
          /\ wants' = [wants EXCEPT ![u] = include_history]
          /\ sub' = [sub EXCEPT ![u] = IF include_history THEN "subscribed" ELSE "live"]
    /\ UNCHANGED <<dataVars, gateVars, lock, fileVars, streamVars, history, liveQ,
                   lagged, out, view, faults>>

StartHistory(u) ==
    /\ sub[u] = "subscribed"
    /\ lock = "free"
    /\ lock' = u
    /\ sub' = [sub EXCEPT ![u] = "history"]
    /\ UNCHANGED <<dataVars, gateVars, fileVars, streamVars, wants, history, liveQ,
                   lagged, out, view, faults>>

Put(u, p) ==
    /\ out[u] < OutCapacity
    /\ out' = [out EXCEPT ![u] = @ + 1]
    /\ view' = [view EXCEPT ![u][p.t] = [ingest |-> p.ingest, query |-> p.query]]

\* The mutex is held while the outbound channel is full.
SendHistory(u) ==
    /\ sub[u] = "history"
    /\ history[u] <= Len(timeline)
    /\ Put(u, timeline[history[u]])
    /\ history' = [history EXCEPT ![u] = @ + 1]
    /\ UNCHANGED <<dataVars, gateVars, lock, fileVars, streamVars, sub, wants, liveQ,
                   lagged, faults>>

\* Mutated form: the mutex is kept.
KeepLock == lock' = lock

Unlock == lock' = "free"

EndHistory(u) ==
    /\ sub[u] = "history"
    /\ history[u] > Len(timeline)
    /\ Unlock
    /\ sub' = [sub EXCEPT ![u] = "live"]
    /\ UNCHANGED <<dataVars, gateVars, fileVars, streamVars, wants, history, liveQ,
                   lagged, out, view, faults>>

Forward(u) ==
    /\ sub[u] = "live"
    /\ ~lagged[u]
    /\ liveQ[u] # << >>
    /\ Put(u, Head(liveQ[u]))
    /\ liveQ' = [liveQ EXCEPT ![u] = Tail(@)]
    /\ UNCHANGED <<dataVars, gateVars, lock, fileVars, streamVars, sub, wants, history,
                   lagged, faults>>

\* The tasks of the subscribers in U are over: their receivers and the mutex, if
\* one of them holds it, are dropped.
TasksEnd(U) ==
    /\ sub' = [u \in Subscribers |-> IF u \in U THEN "ended" ELSE sub[u]]
    /\ history' = [u \in Subscribers |-> IF u \in U THEN 1 ELSE history[u]]
    /\ liveQ' = [u \in Subscribers |-> IF u \in U THEN << >> ELSE liveQ[u]]
    /\ lagged' = [u \in Subscribers |-> u \notin U /\ lagged[u]]
    /\ out' = [u \in Subscribers |-> IF u \in U THEN 0 ELSE out[u]]
    /\ view' = [u \in Subscribers |-> IF u \in U THEN NoView ELSE view[u]]
    /\ lock' = IF lock \in U THEN "free" ELSE lock
    /\ UNCHANGED wants

\* A receiver that lagged returns an error, which ends the task.
LaggedEnds(u) ==
    /\ sub[u] = "live"
    /\ lagged[u]
    /\ TasksEnd({u})
    /\ UNCHANGED <<dataVars, gateVars, fileVars, streamVars, faults>>

ClientReads(u) ==
    /\ out[u] > 0
    /\ out' = [out EXCEPT ![u] = @ - 1]
    /\ UNCHANGED <<dataVars, gateVars, lock, fileVars, streamVars, sub, wants, history,
                   liveQ, lagged, view, faults>>

\* A send to a client that left fails, and the task returns.
ClientLeaves(u) ==
    /\ Listening(u)
    /\ TasksEnd({u})
    /\ UNCHANGED <<dataVars, gateVars, fileVars, streamVars, faults>>

-----------------------------------------------------------------------------
(* Around the aggregator *)

RunEnds ==
    /\ ~runOver
    /\ \A w \in Workers : calls[w] > 0
    /\ runOver' = TRUE
    /\ UNCHANGED <<dataVars, gateVars, lock, fileVars, calls, st, last, subVars, faults>>

\* All state is in memory; only the files outlive the process.
Restart ==
    /\ Fault
    /\ buckets' = [t \in Seconds |-> Empty]
    /\ timeline' = << >> /\ snapshots' = 0 /\ errorRecords' = 0
    /\ connected' = 0 /\ hadWorkers' = FALSE /\ agg' = "collecting"
    /\ saving' = NoData
    /\ st' = [s \in Streams |-> IF st[s] = "none" THEN "none" ELSE "closed"]
    /\ last' = [s \in Streams |-> 0]
    /\ TasksEnd({u \in Subscribers : Listening(u)})
    /\ UNCHANGED <<file, calls, runOver>>

Handler(s) ==
    \/ CountWorker(s) \/ EndStream(s) \/ UncountWorker(s) \/ BreakStream(s)
    \/ \E t \in Seconds, records \in {0, 2} :
          ReceiveSnapshot(s, t, IF IsIngest(s) THEN 0 ELSE records)

SubscriberTask(u) ==
    \/ StartHistory(u) \/ SendHistory(u) \/ EndHistory(u)
    \/ Forward(u) \/ LaggedEnds(u)

Client(u) == Subscribe(u) \/ ClientReads(u) \/ ClientLeaves(u)

Next ==
    \/ \E w \in Workers : OpenStream(w)
    \/ \E s \in Streams : Handler(s)
    \/ \E u \in Subscribers : SubscriberTask(u) \/ Client(u)
    \/ ForceComplete \/ WriteFiles \/ RunEnds \/ Restart

Spec == Init /\ [][Next]_vars

\* tokio runs every task that is ready, its mutex is handed over in the order in
\* which it was asked for, the run ends, and a client that stays reads.
Fairness ==
    /\ \A s \in Streams :
          SF_vars(CountWorker(s)) /\ WF_vars(EndStream(s)) /\ SF_vars(UncountWorker(s))
    /\ \A u \in Subscribers :
          WF_vars(SubscriberTask(u)) /\ WF_vars(ClientReads(u))
    /\ WF_vars(WriteFiles)
    /\ WF_vars(RunEnds)

FairSpec == Spec /\ Fairness
-----------------------------------------------------------------------------
(* Properties *)

\* For every second with a snapshot there is exactly one point, and it sums all
\* the snapshots of that second, in whatever order the streams delivered them.
TimelineMatches ==
    \A t \in Seconds :
        {timeline[j] : j \in IndexOfSecond(t)}
            = (IF buckets[t] = Empty THEN {} ELSE {PointOf(t, buckets[t])})
        /\ Cardinality(IndexOfSecond(t)) <= 1

\* connected_workers is the number of handlers that were counted and have not
\* been uncounted, so saturating_sub never hides an unbalanced count.
ConnectedIsExact ==
    connected = Cardinality({s \in Streams : st[s] \in {"open", "stale", "ended", "dropped"}})

\* No completion is missed: when the last counted stream is gone the state is
\* Complete, so an operator that polls does not wait for its grace period.
DrainedIsComplete ==
    hadWorkers /\ connected = 0 => agg = "complete"

\* A subscriber that has received all that is queued for it, and has not lagged,
\* has the current point of every second since it subscribed, and of every
\* second of the run when it asked for the history.
ViewIsCurrent ==
    \A u \in Subscribers :
        sub[u] = "live" /\ ~lagged[u] /\ liveQ[u] = << >>
            => \A t \in Seconds :
                  view[u][t] = buckets[t] \/ (~wants[u] /\ view[u][t] = Empty)

\* A handler whose stream has ended gets the mutex and uncounts its worker, even
\* while subscribers are sent their history, as long as they read or leave.
EndedStreamsCounted ==
    \A s \in Streams : (st[s] = "ended") ~> (st[s] = "closed")

\* "This is the same data that gets written to disk for the final report"
\* (specifications/IncidentBench.md:458): when the aggregation is complete, the
\* run is over and every stream has closed, the files hold the whole timeline.  They
\* do not: the aggregation is complete when the first worker has come and gone.
FilesHoldTimeline ==
    /\ runOver
    /\ agg = "complete" /\ saving = NoData
    /\ \A s \in Streams : st[s] \in {"none", "closed"}
    => file = buckets
=============================================================================
