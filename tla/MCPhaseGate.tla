---------------------------- MODULE MCPhaseGate ----------------------------
(* Instances of PhaseGate for TLC. *)
EXTENDS PhaseGate, TLC

CONSTANTS i1, q1

OneIngest == {i1}
OneQuery  == {q1}
=============================================================================
