----------------------------- MODULE MCRunSummary -----------------------------
(* Runs of two workers for TLC: six seconds, with latencies and lags that tell *)
(* orders apart, and workers that skip seconds.                                *)
EXTENDS RunSummary

PhaseOf == <<"baseline", "baseline", "overlap", "recovery", "recovery", "post_incident">>

\* A worker that sends a snapshot in each of the seconds; with the latencies, if any, of a
\* query worker and the lags that are polled as its snapshots arrive.
Worker(mode, seconds, latencies, lags) ==
    [n \in DOMAIN seconds |->
        LET second == seconds[n]
        IN  [mode |-> mode, second |-> second, phase |-> PhaseOf[second],
             rate |-> IF mode = "query" THEN 4000 ELSE 5,
             latencies |-> latencies[second],
             executed |-> IF mode = "query" THEN Len(latencies[second]) + (second % 2) ELSE 0,
             errors |-> IF mode = "query" THEN second % 2 ELSE 0,
             produced |-> IF mode = "query" THEN 0 ELSE 4 + (second % 2),
             lag |-> lags[second]]]

NoQueries == [second \in 1..6 |-> << >>]

\* Latencies second by second: of runs that recover at once, late, never and for a moment.
Steady  == <<<<2, 4, 6, 8>>, <<6, 2>>, <<20, 24>>, <<4, 2>>, <<2>>, <<2>>>>
Slow    == <<<<2>>, <<4, 4, 8, 2>>, <<18, 16, 20, 2, 22>>, <<30>>, <<20, 2, 16>>, <<2, 4>>>>
Never   == <<<<4>>, <<2>>, << >>, <<22, 28>>, <<20>>, <<30>>>>
Silent  == <<<< >>, << >>, <<8>>, << >>, <<2>>, << >>>>
Jumps   == <<<<40, 40, 42>>, <<2>>, <<4>>, <<2>>, <<40, 44, 2, 2>>, <<2>>>>

Drains  == <<0, 1, 9, 9, 4, 1>>
Bumps   == <<0, 7, 3, 7, 1, 9>>
Grows   == <<0, 0, 3, 4, 5, 6>>
NoLag   == <<0, 0, 0, 0, 0, 0>>

Rule(metric, operator, num, den) ==
    [metric |-> metric, operator |-> operator, threshold |-> <<num, den>>]

SomeRules ==
    {Rule("recovery_time_s", "<=", 1, 1), Rule("query_error_rate_overlap", "<", 1, 2),
     Rule("peak_backlog", ">=", 0, 1), Rule("backlog_drain_time_s", ">", -1, 1),
     Rule("ingest_peak_backlog", "==", 9, 1), Rule("unknown", "<", 0, 1),
     Rule("p99_degradation_ratio", "=<", 0, 1), Rule("query_throughput_ratio", ">", 1, 10)}

RunOf(workers) == [workers |-> workers, target |-> 5, duration |-> 2, rules |-> SomeRules]

AllRuns ==
    <<RunOf(<<Worker("query", <<1, 2, 3, 4, 5>>, Steady, Drains),
              Worker("query", <<1, 3, 5, 6>>, Slow, Bumps)>>),
      RunOf(<<Worker("query", <<2, 3, 4, 5, 6>>, Slow, Grows),
              Worker("query", <<1, 3, 4, 6>>, Never, Drains)>>),
      RunOf(<<Worker("query", <<1, 3, 4, 5>>, Jumps, NoLag),
              Worker("query", <<2, 3, 5, 6>>, Silent, NoLag)>>),
      RunOf(<<Worker("ingest", <<1, 2, 3, 5, 6>>, NoQueries, Drains),
              Worker("query", <<1, 2, 3, 4>>, Steady, Bumps)>>)>>
=============================================================================
