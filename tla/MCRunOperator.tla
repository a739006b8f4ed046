---------------------------- MODULE MCRunOperator ----------------------------
(* Instances of RunOperator for TLC. *)
EXTENDS RunOperator, TLC

CONSTANTS op1, s1, s2

OneOperator == {op1}

OneStream  == <<s1>>
TwoStreams == <<s1, s2>>

AllFailures == FailureKinds

\* Every failure but a reporter that fails again and again.
BoundedFailures == FailureKinds \ {"job"}
=============================================================================
