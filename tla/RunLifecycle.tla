---------------------------- MODULE RunLifecycle ----------------------------
(***************************************************************************)
(* What the operator promises about one IncidentBenchRun, seen from        *)
(* outside: the phase advances along the linear state machine of the       *)
(* specification document (section 2.4), a failure may end it from any     *)
(* phase, and the infrastructure outside the cluster (Kafka topics, the    *)
(* target's namespace, indexes and warehouses) appears only while the run  *)
(* is being prepared, stays until the run has ended, and is gone before    *)
(* the object is.                                                          *)
(***************************************************************************)
EXTENDS Naturals

VARIABLES
    phase,    \* status.phase
    present,  \* the object exists
    infra     \* some piece of outside infrastructure exists

lifecycleVars == <<phase, present, infra>>

Terminal == {"Completed", "Failed"}

\* The phase after p on the way to Completed.
Successor == [Pending      |-> "Preparing",
              Preparing    |-> "Initializing",
              Initializing |-> "Running",
              Running      |-> "Aggregating",
              Aggregating  |-> "Reporting",
              Reporting    |-> "Completed"]

Phases == DOMAIN Successor \cup Terminal

Init == phase = "Pending" /\ present = TRUE /\ infra = FALSE

Advance ==
    /\ present
    /\ phase \notin Terminal
    /\ phase' = Successor[phase]
    /\ UNCHANGED <<present, infra>>

\* A dry run ends where it is validated.
DryRun ==
    /\ present
    /\ phase = "Pending"
    /\ phase' = "Completed"
    /\ UNCHANGED <<present, infra>>

Fail ==
    /\ present
    /\ phase \notin Terminal
    /\ phase' = "Failed"
    /\ UNCHANGED <<present, infra>>

Provision ==
    /\ present
    /\ phase = "Preparing"
    /\ infra' = TRUE
    /\ UNCHANGED <<phase, present>>

TearDown ==
    /\ present
    /\ phase \in Terminal
    /\ infra' = FALSE
    /\ UNCHANGED <<phase, present>>

Vanish ==
    /\ present
    /\ ~infra
    /\ phase \in Terminal \cup {"Pending"}
    /\ present' = FALSE
    /\ UNCHANGED <<phase, infra>>

Next == Advance \/ DryRun \/ Fail \/ Provision \/ TearDown \/ Vanish

Spec == Init /\ [][Next]_lifecycleVars
=============================================================================
