--------------------------- MODULE MCPacedWorker ---------------------------
(* Scenarios and resources for TLC: three phases, one or two streams. *)
EXTENDS PacedWorker

ThreePhases == <<"baseline", "overlap", "recovery">>

Stream(name, index, replicas, b, o, r) ==
    [name |-> name, index |-> index, fields |-> {"ts", "level"}, timestamp |-> "ts",
     replicas |-> replicas, ingest |-> [baseline |-> b, overlap |-> o, recovery |-> r]]

Timeline(names, durations, mqps) ==
    [i \in 1..Len(names) |->
        [name |-> names[i], duration |-> durations[i], mqps |-> mqps[i]]]

Query(name, index, category) == [name |-> name, index |-> index, category |-> category]

NoOverride == [q \in {} |-> 0]

Group(name, weight, overridden, override) ==
    [name |-> name, weight |-> weight, overridden |-> overridden, override |-> override]

Steady ==
    [declared |-> TRUE,
     streams  |-> <<Stream("logs", "logs-i", 2, 5, 3, 0)>>,
     phases   |-> Timeline(ThreePhases, <<1, 2, 1>>, <<6, 9, 1>>),
     queries  |-> <<Query("q1", "logs-i", ""), Query("q2", "logs-i", "")>>,
     grouped  |-> FALSE, groups |-> << >>, session |-> << >>]

TwoStreams ==
    [Steady EXCEPT
        !.streams = <<Stream("logs", "logs-i", 1, 2, 3, 1),
                      Stream("audit", "audit-i", 3, 31, 2, 4)>>,
        !.queries = <<Query("q1", "logs-i", "a"), Query("q2", "audit-i", "b"),
                      Query("q3", "audit-i", "a")>>]

QueryOnly ==
    [Steady EXCEPT
        !.declared = FALSE, !.streams = << >>,
        !.phases = Timeline(<<"warm", "load">>, <<2, 1>>, <<8, 0>>),
        !.grouped = TRUE,
        !.groups = <<Group("hot", 60, TRUE, [q1 |-> 100]),
                     Group("cold", 40, FALSE, NoOverride)>>]

\* No query: accepted, but its query workers cannot start.
NoQueries == [Steady EXCEPT !.queries = << >>]

\* What validate refuses.
NoPhases       == [QueryOnly EXCEPT !.phases = << >>]
EmptyStreams   == [Steady EXCEPT !.streams = << >>]
SameIndex      == [TwoStreams EXCEPT !.streams[2].index = "logs-i"]
NoReplica      == [Steady EXCEPT !.streams[1].replicas = 0]
NoTimestamp    == [Steady EXCEPT !.streams[1].timestamp = "at"]
MissingPhase   == [Steady EXCEPT !.streams[1].ingest = [baseline |-> 4, overlap |-> 4]]
WrongOrder     == [Steady EXCEPT !.phases[2].name = "recovery", !.phases[3].name = "overlap"]
TooShort       == [Steady EXCEPT !.phases[2].duration = 0]
UnknownIndex   == [Steady EXCEPT !.queries[2].index = "other"]
WeightsOff     == [QueryOnly EXCEPT !.groups[1].weight = 50]
UnknownQuery   == [QueryOnly EXCEPT !.groups[1].override = [q9 |-> 100]]
SameGroup      == [QueryOnly EXCEPT !.groups[2].name = "hot"]

Refused ==
    {NoPhases, EmptyStreams, SameIndex, NoReplica, NoTimestamp, MissingPhase, WrongOrder,
     TooShort, UnknownIndex, WeightsOff, UnknownQuery, SameGroup}

AllScenarios == {Steady, TwoStreams, QueryOnly, NoQueries} \cup Refused

AllEdits == {MissingPhase, NoPhases}

By(num, den) == [num |-> num, den |-> den]

Ungrouped(replicas, duration, rateScale) ==
    [dryRun |-> FALSE, replicas |-> replicas, grouped |-> FALSE, groups |-> << >>,
     durationScale |-> duration, rateScale |-> rateScale]

AllSpecs ==
    {Ungrouped(2, By(1, 1), By(1, 1)),
     Ungrouped(3, By(1, 2), By(1, 2)),
     [Ungrouped(1, By(1, 5), By(3, 2)) EXCEPT
         !.grouped = TRUE,
         !.groups = <<[name |-> "hot", replicas |-> 2], [name |-> "new", replicas |-> 1]>>],
     [Ungrouped(1, By(1, 1), By(1, 1)) EXCEPT !.dryRun = TRUE]}
=============================================================================
