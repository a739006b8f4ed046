----------------------------- MODULE RunSummary -----------------------------
(***************************************************************************)
(* What a run is said to have shown, and by whom: the aggregator's answer  *)
(* to GetResults, which the operator writes into the status, and the       *)
(* reporter's report, which it computes from the file that the aggregator  *)
(* wrote when the aggregation was complete.  Both use compute_derived of   *)
(* incidentbench-common/src/metrics.rs; each has its own rules of          *)
(* validity.                                                               *)
(*                                                                         *)
(* Snapshots of a worker arrive in order, those of different workers in    *)
(* any; the point of a second is made again with each snapshot of it, also *)
(* after the file was written (MetricsAggregator models the streams and    *)
(* the mutex around it).  A mean or a ratio is the pair <<sum, count>> it  *)
(* is the quotient of.                                                     *)
(***************************************************************************)
EXTENDS LatencyDigest

CONSTANTS
    Runs,       \* a sequence of what may have happened: [workers, target, duration, rules]
    MinPoints,  \* points of a valid timeline: 10 in the code
    LagFloor,   \* a lag that counts as drained: 100 in the code
    Modulus     \* of u64: 2^64 in the code

\* A snapshot as it reaches the aggregator.  rate is the target rate of the worker, of
\* queries in thousandths; lag the lag that had been polled last by then.
Snapshot ==
    [mode : {"ingest", "query"}, second : 1..(Modulus - 1), phase : STRING, rate : Nat,
     latencies : Seq(Nat), executed : Nat, errors : Nat, produced : Nat, lag : Nat]

ASSUME RunSummaryAssumption ==
    /\ MinPoints \in Nat /\ LagFloor \in Nat /\ Modulus \in Nat \ {0}
    /\ \A r \in DOMAIN Runs :
           \A w \in DOMAIN Runs[r].workers : Runs[r].workers[w] \in Seq(Snapshot)

VARIABLES
    run,       \* which of them really happens
    received,  \* of each worker: how many of its snapshots have arrived
    buckets,   \* by second: the snapshots of [ingest, query] workers as they arrived
    timeline,  \* points of the aggregator, in the order in which seconds appeared
    state,     \* AggState
    file,      \* the points of metrics.json; << >> until it is written
    status,    \* the results in the status of the resource: {} until there are some
    report     \* those in the reporter's run.json

VARIABLES
    written,   \* history: the timeline when the file was written
    scored     \* history: the timeline when the results were computed

histVars == <<written, scored>>

vars == <<run, received, buckets, timeline, state, file, status, report, histVars>>

Workers == DOMAIN Runs[run].workers

Init ==
    /\ run \in DOMAIN Runs
    /\ received = [w \in Workers |-> 0] /\ buckets = << >>
    /\ timeline = << >> /\ state = "Collecting"
    /\ file = << >> /\ status = {} /\ report = {}
    /\ written = << >> /\ scored = << >>

-----------------------------------------------------------------------------
(* compute_derived, as far as a scorecard has it *)

InPhases(points, phases) == {i \in DOMAIN points : points[i].phase \in phases}

P99s(points) == [i \in DOMAIN points |-> points[i].latency.p99]

Lags(points) == [i \in DOMAIN points |-> points[i].lag]

MeanOf(values, indices) == <<SumFunctionOnSet(values, indices), Cardinality(indices)>>

\* `as u64` of a mean.
Whole(mean) == IF mean[2] = 0 THEN 0 ELSE mean[1] \div mean[2]

\* next() of the points that pass a filter, given by their indices.
FirstOr(points, indices, default) ==
    IF indices = {} THEN default ELSE points[Min(indices)].second

\* Mutated form: the lag of the last point.
PeakBacklogLast(points) == Last(points).lag

PeakBacklog(points) ==
    IF points = << >> THEN 0 ELSE Max({points[i].lag : i \in DOMAIN points})

\* Seconds after the first point with the peak until one with the lag of the
\* baseline; 0 also when it is never reached.
DrainTime(points, peak) ==
    LET baseline == Whole(MeanOf(Lags(points), InPhases(points, {"baseline"})))
        peakTime == FirstOr(points, {i \in DOMAIN points : points[i].lag = peak}, 0)
        drained  == {i \in DOMAIN points : /\ points[i].second > peakTime
                                           /\ points[i].lag <= Greatest(baseline, LagFloor)}
    IN  IF peak = 0 \/ peakTime = 0 THEN 0
        ELSE FirstOr(points, drained, peakTime) - peakTime

\* p99 <= 1.2 * mean, without the fraction.
WithinThreshold(p99, mean) ==
    IF mean[2] = 0 THEN p99 <= 0 ELSE 5 * p99 * mean[2] <= 6 * mean[1]

\* The subtraction of two u64 wraps around in a release build.
RecoveryTime(points, baselineP99) ==
    LET recovery  == InPhases(points, {"recovery", "post_incident"})
        start     == FirstOr(points, recovery, 0)
        recovered == {i \in recovery : /\ WithinThreshold(P99s(points)[i], baselineP99)
                                       /\ P99s(points)[i] > 0}
    IN  (FirstOr(points, recovered, start) - start) % Modulus

Derived(points) ==
    LET overlap     == InPhases(points, {"overlap"})
        baselineP99 == MeanOf(P99s(points), InPhases(points, {"baseline"}))
        executed    == [i \in DOMAIN points |-> points[i].executed]
        errors      == [i \in DOMAIN points |-> points[i].errors]
    IN  [baselineP99   |-> baselineP99,
         overlapP99    |-> MeanOf(P99s(points), overlap),
         errorRate     |-> <<SumFunctionOnSet(errors, overlap),
                             SumFunctionOnSet(executed, overlap)>>,
         peakBacklog   |-> PeakBacklog(points),
         drainTime     |-> DrainTime(points, PeakBacklog(points)),
         recoveryTime  |-> RecoveryTime(points, baselineP99)]

-----------------------------------------------------------------------------
(* The aggregator *)

EmptyBucket == [ingest |-> << >>, query |-> << >>]

WithSnapshot(bucket, snapshot) ==
    [bucket EXCEPT ![snapshot.mode] = Append(@, snapshot)]

\* try_aggregate_bucket
PointOf(second, bucket, lag) ==
    LET ingest == bucket.ingest
        query  == bucket.query
    IN  [second     |-> second,
         phase      |-> IF ingest # << >> THEN ingest[1].phase ELSE query[1].phase,
         latency    |-> Summary([i \in DOMAIN query |-> Distribution(query[i].latencies)]),
         executed   |-> SumFunction([i \in DOMAIN query |-> query[i].executed]),
         errors     |-> SumFunction([i \in DOMAIN query |-> query[i].errors]),
         queryRate  |-> SumFunction([i \in DOMAIN query |-> query[i].rate]),
         produced   |-> SumFunction([i \in DOMAIN ingest |-> ingest[i].produced]),
         ingestRate |-> SumFunction([i \in DOMAIN ingest |-> ingest[i].rate]),
         lag        |-> lag]

\* The point of a second is replaced where it stands, or appended.
WithPoint(point) ==
    IF \E i \in DOMAIN timeline : timeline[i].second = point.second
    THEN [i \in DOMAIN timeline |->
             IF timeline[i].second = point.second THEN point ELSE timeline[i]]
    ELSE Append(timeline, point)

\* The next snapshot of a worker: on time or late, of a new second or of one that has a
\* point, before or after the file is written.
ReceiveSnapshot(worker) ==
    /\ received[worker] < Len(Runs[run].workers[worker])
    /\ received' = [received EXCEPT ![worker] = @ + 1]
    /\ LET snapshot == Runs[run].workers[worker][received'[worker]]
           second   == snapshot.second
           bucket   == IF second \in DOMAIN buckets THEN buckets[second] ELSE EmptyBucket
           filled   == WithSnapshot(bucket, snapshot)
       IN  /\ buckets' = [s \in DOMAIN buckets \cup {second} |->
                             IF s = second THEN filled ELSE buckets[s]]
           /\ timeline' = WithPoint(PointOf(second, filled, snapshot.lag))
    /\ UNCHANGED <<run, state, file, status, report, histVars>>

\* Mutated form: the file keeps the order of arrival.
FileOfArrivals(points) == points

FileOf(points) == SortedBy(points, [i \in DOMAIN points |-> points[i].second])

\* complete_aggregation: the file is written once, from what is there by then.
CompleteAggregation ==
    IF state = "Complete" THEN UNCHANGED <<state, file, written>>
    ELSE state' = "Complete" /\ file' = FileOf(timeline) /\ written' = timeline

\* The last of the open streams ends, early or at the end.
AllWorkersGone ==
    /\ state = "Collecting" /\ timeline # << >>
    /\ CompleteAggregation
    /\ UNCHANGED <<run, received, buckets, timeline, status, report, scored>>

HasPhase(points, phase) == \E i \in DOMAIN points : points[i].phase = phase

StatusValid(points) ==
    /\ Len(points) >= MinPoints
    /\ HasPhase(points, "baseline") /\ HasPhase(points, "overlap")

\* Completes an aggregation that is not, and computes from the timeline as it is.
GetResults ==
    /\ status = {}
    /\ timeline # << >>
    /\ CompleteAggregation
    /\ status' = {[derived |-> Derived(timeline), valid |-> StatusValid(timeline)]}
    /\ scored' = timeline
    /\ UNCHANGED <<run, received, buckets, timeline, report>>

-----------------------------------------------------------------------------
(* The reporter *)

\* The larger of the two in the middle.
Median(values) == Sorted(values)[(Len(values) \div 2) + 1]

BaselineUnstable(points) ==
    LET baseline == SelectSeq(points, LAMBDA p : p.phase = "baseline")
    IN  /\ baseline # << >>
        /\ Median(P99s(baseline)) > 0
        /\ \E i \in DOMAIN baseline : P99s(baseline)[i] > 2 * Median(P99s(baseline))

\* Achieved over the duration of the phase, not over the points there are.
BaselineMissed(points) ==
    LET baseline == InPhases(points, {"baseline"})
        produced == SumFunctionOnSet([i \in DOMAIN points |-> points[i].produced], baseline)
    IN  /\ baseline # {} /\ Runs[run].target > 0
        /\ IF Runs[run].duration = 0 THEN TRUE
           ELSE 10 * produced < 9 * Runs[run].target * Runs[run].duration

\* Done per second, over the rate of the first of the points.
Throughput(indices, done, rates) ==
    IF indices = {} THEN <<0, 0>>
    ELSE <<SumFunctionOnSet(done, indices), Cardinality(indices) * rates[Min(indices)]>>

\* The metrics a rule may name, as <<numerator, denominator>>; a quotient by 0 is 0.
MetricsOf(points) ==
    LET derived  == Derived(points)
        overlap  == InPhases(points, {"overlap"})
        field(f) == [i \in DOMAIN points |-> points[i][f]]
        executed == [i \in DOMAIN points |-> 1000 * points[i].executed]
        ratio    == <<derived.overlapP99[1] * derived.baselineP99[2],
                      derived.overlapP99[2] * derived.baselineP99[1]>>
    IN  [query_error_rate_overlap    |-> derived.errorRate,
         query_p99_ratio             |-> ratio,
         p99_degradation_ratio       |-> ratio,
         ingest_peak_backlog         |-> <<derived.peakBacklog, 1>>,
         peak_backlog                |-> <<derived.peakBacklog, 1>>,
         ingest_backlog_drain_time_s |-> <<derived.drainTime, 1>>,
         backlog_drain_time_s        |-> <<derived.drainTime, 1>>,
         recovery_time_to_baseline_s |-> <<derived.recoveryTime, 1>>,
         recovery_time_s             |-> <<derived.recoveryTime, 1>>,
         query_baseline_p99          |-> derived.baselineP99,
         baseline_p99_ms             |-> derived.baselineP99,
         query_overlap_p99           |-> derived.overlapP99,
         overlap_p99_ms              |-> derived.overlapP99,
         query_throughput_ratio      |-> Throughput(overlap, executed, field("queryRate")),
         ingest_throughput_ratio     |->
             Throughput(overlap, field("produced"), field("ingestRate"))]

\* A condition that cannot be read, or names an unknown metric, is not violated.
\* The threshold of a rule is a quotient too.
RuleViolated(rule, metrics) ==
    /\ rule.metric \in DOMAIN metrics
    /\ LET metric == IF metrics[rule.metric][2] = 0 THEN <<0, 1>> ELSE metrics[rule.metric]
           left   == metric[1] * rule.threshold[2]
           right  == rule.threshold[1] * metric[2]
       IN  CASE rule.operator = "<"  -> ~(left < right)
             [] rule.operator = "<=" -> ~(left <= right)
             [] rule.operator = ">"  -> ~(left > right)
             [] rule.operator = ">=" -> ~(left >= right)
             [] rule.operator = "==" -> left # right
             [] OTHER                -> FALSE

ReportValid(points) ==
    /\ ~BaselineUnstable(points) /\ ~BaselineMissed(points)
    /\ \A rule \in Runs[run].rules : ~RuleViolated(rule, MetricsOf(points))

\* The Job is created after the results are in the status.
Report ==
    /\ report = {} /\ status # {} /\ file # << >>
    /\ report' = {[derived |-> Derived(file), valid |-> ReportValid(file)]}
    /\ UNCHANGED <<run, received, buckets, timeline, state, file, status, histVars>>

Next ==
    \/ \E worker \in Workers : ReceiveSnapshot(worker)
    \/ AllWorkersGone \/ GetResults \/ Report

Spec == Init /\ [][Next]_vars
-----------------------------------------------------------------------------
(* Properties *)

MinSecond(points) == CHOOSE s \in {p.second : p \in points} : \A p \in points : s <= p.second

BaselineMean(points, values) == MeanOf(values, {p \in points : p.phase = "baseline"})

\* The same by the set of the points, without an order of arrival: the time from the
\* first second of recovery to the first one in it whose p99 is back, and from the
\* first second with the highest lag to the first later one that is drained; nothing
\* when there is none.
ReferenceRecovery(points) ==
    LET recovery  == {p \in points : p.phase \in {"recovery", "post_incident"}}
        mean      == BaselineMean(points, [p \in points |-> p.latency.p99])
        recovered == {p \in recovery : p.latency.p99 > 0 /\ WithinThreshold(p.latency.p99, mean)}
    IN  IF recovered = {} THEN 0 ELSE MinSecond(recovered) - MinSecond(recovery)

ReferenceDrain(points) ==
    LET baseline == Whole(BaselineMean(points, [p \in points |-> p.lag]))
        peak     == {p \in points : \A q \in points : q.lag <= p.lag}
        drained  == {p \in points : /\ p.lag <= Greatest(baseline, LagFloor)
                                    /\ p.second > MinSecond(peak)}
    IN  IF drained = {} \/ \A p \in points : p.lag = 0 THEN 0
        ELSE MinSecond(drained) - MinSecond(peak)

\* Whatever the order in which the snapshots arrived, and however early or late the
\* aggregation was completed, the report gives the recovery and the drain of the
\* seconds that its file holds.
ReportMatchesReference ==
    \A r \in report :
        /\ r.derived.recoveryTime = ReferenceRecovery(ToSet(file))
        /\ r.derived.drainTime = ReferenceDrain(ToSet(file))

InOrder(points) == \A i \in 2..Len(points) : points[i - 1].second < points[i].second

WithoutTimes(derived) == [derived EXCEPT !.drainTime = 0, !.recoveryTime = 0]

\* When no snapshot changed the timeline between the writing of the file and the computing
\* of the results, whatever came later, the status and the report give the same
\* scorecard, except for the two times when the seconds appeared out of order.
ScorecardsAgree ==
    written = scored =>
        \A r \in report, s \in status :
            /\ WithoutTimes(r.derived) = WithoutTimes(s.derived)
            /\ InOrder(timeline) => r.derived = s.derived

\* What the query workers measured in a second, each its own, and by how much compression
\* may shift a rank.
Samples(second) ==
    LET query == buckets[second].query IN [i \in DOMAIN query |-> query[i].latencies]

Slack(samples) == SumFunction([w \in DOMAIN samples |-> BucketSize(samples[w]) - 1])

RankIsRight(samples, value, percent) ==
    LET all  == FlattenSeq(samples)
        rank == TargetRank(Len(all), percent)
    IN  /\ Cardinality({i \in DOMAIN all : all[i] <= value}) >= rank - Slack(samples)
        /\ Cardinality({i \in DOMAIN all : all[i] < value})
               <= Greatest(rank - 1, 0) + Slack(samples)

\* The percentiles of every second of the timeline are ordered, each has the rank it is
\* named for among the latencies that have arrived of that second (give or take what
\* compression may shift), and none exceeds the percentile that the per-query summary
\* computes, by another rule, from the same centroids.
PercentilesBracketed ==
    \A i \in DOMAIN timeline :
        LET samples == Samples(timeline[i].second)
            summary == timeline[i].latency
            query   == Expanded([w \in DOMAIN samples |-> Distribution(samples[w])])
        IN  FlattenSeq(samples) # << >> =>
                /\ summary.p50 <= summary.p95 /\ summary.p95 <= summary.p99
                /\ summary.p99 <= summary.max
                /\ RankIsRight(samples, summary.p50, 50)
                /\ RankIsRight(samples, summary.p95, 95)
                /\ RankIsRight(samples, summary.p99, 99)
                /\ summary.p50 <= SummaryPercentile(query, 50)
                /\ summary.p95 <= SummaryPercentile(query, 95)
                /\ summary.p99 <= SummaryPercentile(query, 99)

Seconds(points) == [i \in DOMAIN points |-> points[i].second]

\* "Aggregated timeline (ordered)" (aggregator.rs:71): the recovery time in the status
\* is no longer than the run.
RecoveryWithinRun ==
    \A s \in status :
        LET seconds == Range(Seconds(scored))
        IN  s.derived.recoveryTime <= Max(seconds) - Min(seconds)
=============================================================================
