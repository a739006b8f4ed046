---------------------------- MODULE LatencyDigest ----------------------------
(***************************************************************************)
(* How latencies are compressed by a worker, merged by the aggregator and  *)
(* turned into percentiles, twice: for each second of the timeline from    *)
(* the merged centroids (incidentbench-common/src/metrics.rs), and for     *)
(* each query of the run from the centroids written out again              *)
(* (incidentbench-worker/src/aggregator.rs).                               *)
(*                                                                         *)
(* Latencies are numbers of which all chunk means are whole.               *)
(***************************************************************************)
EXTENDS Integers, Sequences, FiniteSets, SequencesExt, TLC

CONSTANT Buckets  \* centroids a distribution is compressed to: 100 in the code

ASSUME LatencyDigestAssumption == Buckets \in Nat \ {0}

\* Where a stable sort puts the i-th element: after those with a smaller key and, of those
\* with the same key, after the ones it comes after now.
Place(keys, i) ==
    Cardinality({j \in DOMAIN keys : keys[j] < keys[i] \/ (keys[j] = keys[i] /\ j <= i)})

SortedBy(seq, keys) ==
    [n \in DOMAIN seq |-> seq[CHOOSE i \in DOMAIN seq : Place(keys, i) = n]]

Sorted(values) == SortedBy(values, values)

Least(a, b) == IF a < b THEN a ELSE b

Greatest(a, b) == IF a > b THEN a ELSE b

BucketSize(values) == Greatest(Len(values) \div Buckets, 1)

\* chunks(bucket_size) of the sorted values.
Chunks(values) ==
    LET size   == BucketSize(values)
        sorted == Sorted(values)
    IN  [k \in 1..((Len(values) + size - 1) \div size) |->
            SubSeq(sorted, (k - 1) * size + 1, Least(k * size, Len(values)))]

\* latency_distribution_from_values
Distribution(values) ==
    LET chunks == Chunks(values)
    IN  [centroids |-> [k \in DOMAIN chunks |->
                           [mean  |-> SumFunction(chunks[k]) \div Len(chunks[k]),
                            count |-> Len(chunks[k])]],
         max |-> IF values = << >> THEN 0 ELSE Last(Sorted(values))]

\* Mutated form: the centroids of the workers are only strung together.
MergedUnsorted(dists) == FlattenSeq([i \in DOMAIN dists |-> dists[i].centroids])

Merged(dists) ==
    LET all == FlattenSeq([i \in DOMAIN dists |-> dists[i].centroids])
    IN  SortedBy(all, [k \in DOMAIN all |-> all[k].mean])

Counts(centroids) == [k \in DOMAIN centroids |-> centroids[k].count]

\* Ranks are cut to whole numbers: of fewer than 100 values none is the p99.
TargetRank(total, percent) == (total * percent) \div 100

\* The first centroid with which the count reaches the rank.
PercentileOf(centroids, percent) ==
    LET counts  == Counts(centroids)
        rank    == TargetRank(SumFunction(counts), percent)
        reached == {k \in DOMAIN centroids : SumFunctionOnSet(counts, 1..k) >= rank}
    IN  centroids[Min(reached)].mean

NoSummary == [p50 |-> 0, p95 |-> 0, p99 |-> 0, max |-> 0, count |-> 0]

\* merge_latency_distributions
Summary(dists) ==
    LET all == Merged(dists)
    IN  IF all = << >> THEN NoSummary
        ELSE [p50   |-> PercentileOf(all, 50),
              p95   |-> PercentileOf(all, 95),
              p99   |-> PercentileOf(all, 99),
              max   |-> Max({dists[i].max : i \in DOMAIN dists}),
              count |-> SumFunction(Counts(all))]

\* The accumulator of a query holds the mean of each centroid, count times.
Expanded(dists) ==
    FlattenSeq([i \in DOMAIN dists |->
        FlattenSeq([k \in DOMAIN dists[i].centroids |->
            [n \in 1..dists[i].centroids[k].count |-> dists[i].centroids[k].mean]])])

\* compute_per_query_summaries: rounded, of n - 1, counted from 0.
SummaryPercentile(latencies, percent) ==
    LET n == Len(latencies)
    IN  IF n = 0 THEN 0
        ELSE Sorted(latencies)[((2 * percent * (n - 1) + 100) \div 200) + 1]
=============================================================================
