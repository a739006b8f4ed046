--------------------------- MODULE MCWorkerMetrics ---------------------------
(* Instances of WorkerMetrics for TLC. *)
EXTENDS WorkerMetrics, TLC

CONSTANTS k1, k2

TwoKinds   == {k1, k2}
EveryMode  == AllModes
=============================================================================
