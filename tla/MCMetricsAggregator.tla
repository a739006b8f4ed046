------------------------- MODULE MCMetricsAggregator -------------------------
(* Instances of MetricsAggregator for TLC. *)
EXTENDS MetricsAggregator, TLC

CONSTANTS i1, q1, q2, u1

None       == {}
OneIngest  == {i1}
OneQuery   == {q1}
TwoQuery   == {q1, q2}
OneClient  == {u1}
=============================================================================
