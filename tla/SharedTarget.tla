---------------------------- MODULE SharedTarget ----------------------------
(***************************************************************************)
(* Runs that provision and clean up one target side by side: the Kafka     *)
(* topics that the operator creates, and the prepare and cleanup of the    *)
(* Mach5 adapter (incidentbench-common/src/adapters/mach5.rs).  The        *)
(* operator reconciles every run in a task of its own, and nothing keeps   *)
(* runs from naming the same things.                                       *)
(*                                                                         *)
(* A configuration gives each run its namespace, the indexes of its        *)
(* streams (a topic, an index and a pipeline each), and its warehouses in  *)
(* the order in which they are polled.  Only scenarios that stand in the   *)
(* resource itself get this far: one that is referred to is refused.       *)
(* Deleting a namespace deletes nothing else here.                         *)
(* RunOperator models the crashes and the phases of the reconciler.        *)
(***************************************************************************)
EXTENDS Integers, Sequences, FiniteSets, SequencesExt

CONSTANTS
    Runs,
    Configs,      \* functions of the runs: [namespace, indexes, warehouses]
    Protected,    \* the namespace that is never deleted: "default"
    MaxFailures   \* bound on failures: requests without a good answer

ASSUME SharedTargetAssumption == MaxFailures \in Nat

ASSUME ConfigsAssumption ==
    \A c \in Configs, r \in Runs :
        /\ c[r].indexes \in Seq(ToSet(c[r].indexes))
        /\ c[r].warehouses \in Seq(ToSet(c[r].warehouses))

VARIABLES
    config,
    exists,    \* what there is at the target and in Kafka
    phase,     \* of each run
    step,      \* the requests it is at, in the order of the code
    waiting,   \* those not yet answered
    late,      \* requests nobody waits for any more
    failures

VARIABLES
    holds,     \* history: what a run was told that it has
    taken,     \* history: what another run has deleted of that
    blamed     \* history: things a deletion failed for, or that came too late

runVars  == <<phase, step, waiting>>
histVars == <<holds, taken, blamed>>

vars == <<config, exists, runVars, late, failures, histVars>>

Thing(kind, namespace, name) == <<kind, namespace, name>>

Topic(index)          == Thing("topic", "", index)
Namespace(r)          == Thing("namespace", config[r].namespace, "")
Connection(r)         == Thing("connection", config[r].namespace, "")
Index(r, index)       == Thing("index", config[r].namespace, index)
Pipeline(r, index)    == Thing("pipeline", config[r].namespace, index)
Warehouse(r, name)    == Thing("warehouse", config[r].namespace, name)

Indexes(r)    == ToSet(config[r].indexes)
Warehouses(r) == {Warehouse(r, w) : w \in ToSet(config[r].warehouses)}
Topics(r)     == [i \in DOMAIN config[r].indexes |-> {Topic(config[r].indexes[i])}]

\* Mutated form: the warehouse of the protected namespace is there already.
PrepareStepsProtected(r) ==
    Topics(r) \o
        <<{Namespace(r)},
          IF Indexes(r) = {} THEN {} ELSE {Connection(r)},
          {Index(r, i) : i \in Indexes(r)},
          {Pipeline(r, i) : i \in Indexes(r)},
          IF config[r].namespace = Protected THEN {} ELSE Warehouses(r)>>

\* What is created one after the other, each step in parallel.
PrepareSteps(r) ==
    Topics(r) \o
        <<{Namespace(r)},
          IF Indexes(r) = {} THEN {} ELSE {Connection(r)},
          {Index(r, i) : i \in Indexes(r)},
          {Pipeline(r, i) : i \in Indexes(r)},
          Warehouses(r)>>

\* Mutated form: a run without streams leaves the connection, and so does any other.
CleanupStepsKeepConnection(r) ==
    <<{Pipeline(r, i) : i \in Indexes(r)} \cup
          (IF config[r].namespace = Protected THEN {} ELSE Warehouses(r)),
      {Index(r, i) : i \in Indexes(r)},
      IF config[r].namespace = Protected THEN {} ELSE {Namespace(r)}>>
        \o Topics(r)

\* What is deleted, whatever was created: the connection also by a run that has no
\* stream.
CleanupSteps(r) ==
    <<{Pipeline(r, i) : i \in Indexes(r)} \cup
          (IF config[r].namespace = Protected THEN {} ELSE Warehouses(r)),
      {Index(r, i) : i \in Indexes(r)} \cup {Connection(r)},
      IF config[r].namespace = Protected THEN {} ELSE {Namespace(r)}>>
        \o Topics(r)

Needs(r) == UNION ToSet(PrepareSteps(r))

Init ==
    /\ config \in Configs
    /\ exists = {}
    /\ phase = [r \in Runs |-> "pending"]
    /\ step = [r \in Runs |-> 0] /\ waiting = [r \in Runs |-> {}]
    /\ late = {} /\ failures = 0
    /\ holds = [r \in Runs |-> {}] /\ taken = {} /\ blamed = {}

-----------------------------------------------------------------------------
(* Sending the requests of a step *)

\* The steps after the n-th that have anything to request.
Following(steps, n) == {k \in DOMAIN steps : k > n /\ steps[k] # {}}

\* The next of them, or the phase after this one when there is none.
Advance(r, steps, n, this, after) ==
    \/ /\ Following(steps, n) = {}
       /\ phase' = [phase EXCEPT ![r] = after]
       /\ waiting' = [waiting EXCEPT ![r] = {}]
       /\ UNCHANGED step
    \/ \E k \in Following(steps, n) :
           /\ \A j \in Following(steps, n) : k <= j
           /\ phase' = [phase EXCEPT ![r] = this]
           /\ waiting' = [waiting EXCEPT ![r] = steps[k]]
           /\ step' = [step EXCEPT ![r] = k]

Begin(r, steps, this, after) == Advance(r, steps, 0, this, after)

\* An answer: the last one of a step sends the next step.
Proceed(r, thing, steps, after) ==
    IF waiting[r] # {thing}
    THEN /\ waiting' = [waiting EXCEPT ![r] = @ \ {thing}]
         /\ UNCHANGED <<phase, step>>
    ELSE Advance(r, steps, step[r], phase[r], after)

Fails == failures < MaxFailures /\ failures' = failures + 1

Request(kind, r, thing) == [kind |-> kind, run |-> r, thing |-> thing]

\* DELETE takes a thing away from every other run that was told it has it.
TakeAway(r, thing) ==
    /\ exists' = exists \ {thing}
    /\ taken' = taken \cup {<<other, thing>> : other \in {o \in Runs \ {r} : thing \in holds[o]}}

-----------------------------------------------------------------------------
(* prepare *)

StartPrepare(r) ==
    /\ phase[r] = "pending"
    /\ Begin(r, PrepareSteps(r), "preparing", "created")
    /\ UNCHANGED <<config, exists, late, failures, histVars>>

\* Created, or there already: 409 and "already exists" are as good.
Created(r, thing) ==
    /\ phase[r] = "preparing" /\ thing \in waiting[r]
    /\ exists' = exists \cup {thing}
    /\ holds' = [holds EXCEPT ![r] = @ \cup {thing}]
    /\ Proceed(r, thing, PrepareSteps(r), "created")
    /\ UNCHANGED <<config, late, failures, taken, blamed>>

\* Mutated form: join_all, and the error of one is forgotten.
AbandonNone(r, thing) == Proceed(r, thing, PrepareSteps(r), "created") /\ UNCHANGED late

\* try_join_all: the first error drops the other requests of the step, which the
\* target may still handle, and the run fails.
Abandon(r, thing) ==
    /\ late' = late \cup {Request("create", r, t) : t \in waiting[r]}
    /\ phase' = [phase EXCEPT ![r] = "failed"]
    /\ waiting' = [waiting EXCEPT ![r] = {}]
    /\ UNCHANGED step

NotCreated(r, thing) ==
    /\ phase[r] = "preparing" /\ thing \in waiting[r]
    /\ Fails
    /\ Abandon(r, thing)
    /\ UNCHANGED <<config, exists, histVars>>

\* The warehouses are asked for one by one, in the order in which a map yields them.
PollSteps(r) ==
    [i \in DOMAIN config[r].warehouses |-> {Warehouse(r, config[r].warehouses[i])}]

StartPolling(r) ==
    /\ phase[r] = "created"
    /\ Begin(r, PollSteps(r), "polling", "running")
    /\ UNCHANGED <<config, exists, late, failures, histVars>>

\* A warehouse that exists is enabled and has an id.  Any other answer, and none, is
\* the same: five seconds later it is asked again.
WarehouseReady(r, warehouse) ==
    /\ phase[r] = "polling" /\ warehouse \in waiting[r] \cap exists
    /\ Proceed(r, warehouse, PollSteps(r), "running")
    /\ UNCHANGED <<config, exists, late, failures, histVars>>

-----------------------------------------------------------------------------
(* cleanup *)

\* The run completes, fails or times out; a failed prepare is cleaned up too.
StartCleanup(r) ==
    /\ phase[r] \in {"running", "failed"}
    /\ Begin(r, CleanupSteps(r), "cleaning", "gone")
    /\ holds' = [holds EXCEPT ![r] = {}]
    /\ UNCHANGED <<config, exists, late, failures, taken, blamed>>

\* Deleted, or not there: 404 is as good.
Deleted(r, thing) ==
    /\ phase[r] = "cleaning" /\ thing \in waiting[r]
    /\ TakeAway(r, thing)
    /\ Proceed(r, thing, CleanupSteps(r), "gone")
    /\ UNCHANGED <<config, late, failures, holds, blamed>>

\* A failure is logged (that of the namespace's transport not even that), the
\* cleanup goes on and reports success.
NotDeleted(r, thing) ==
    /\ phase[r] = "cleaning" /\ thing \in waiting[r]
    /\ Fails
    /\ late' = late \cup {Request("delete", r, thing)}
    /\ blamed' = blamed \cup {thing}
    /\ Proceed(r, thing, CleanupSteps(r), "gone")
    /\ UNCHANGED <<config, exists, holds, taken>>

-----------------------------------------------------------------------------
(* Requests that nobody waits for *)

LateCreate(request) ==
    /\ request \in late /\ request.kind = "create"
    /\ late' = late \ {request}
    /\ exists' = exists \cup {request.thing}
    /\ blamed' = blamed \cup {request.thing}
    /\ UNCHANGED <<config, runVars, failures, holds, taken>>

LateDelete(request) ==
    /\ request \in late /\ request.kind = "delete"
    /\ late' = late \ {request}
    /\ TakeAway(request.run, request.thing)
    /\ UNCHANGED <<config, runVars, failures, holds, blamed>>

NeverHandled(request) ==
    /\ request \in late
    /\ late' = late \ {request}
    /\ UNCHANGED <<config, exists, runVars, failures, histVars>>

Answered(r) ==
    \E thing \in waiting[r] :
        \/ Created(r, thing) \/ NotCreated(r, thing)
        \/ Deleted(r, thing) \/ NotDeleted(r, thing)

Polled(r) == \E warehouse \in waiting[r] : WarehouseReady(r, warehouse)

Next ==
    \/ \E r \in Runs :
           \/ StartPrepare(r) \/ Answered(r) \/ StartPolling(r) \/ Polled(r)
           \/ StartCleanup(r)
    \/ \E request \in late :
           LateCreate(request) \/ LateDelete(request) \/ NeverHandled(request)

\* A poll comes round again, and the target answers for a warehouse that it has.  The
\* requests of prepare and cleanup may stay unanswered: the client has no timeout.
Fairness == \A r \in Runs : WF_vars(Polled(r))

Spec == Init /\ [][Next]_vars /\ Fairness
-----------------------------------------------------------------------------
(* Properties *)

\* A run that is told it is prepared has everything it needs, but for what another
\* run has deleted since: a topic named like its index, or anything of a namespace
\* they share.
PreparedIsComplete ==
    \A r \in Runs :
        phase[r] = "running" => \A thing \in Needs(r) \ exists : <<r, thing>> \in taken

\* When all runs are gone, what is left is a namespace or warehouse that is
\* protected, or had its deletion fail or its creation come late.
MayStay(thing) ==
    \/ thing[1] \in {"namespace", "warehouse"} /\ thing[2] = Protected
    \/ thing \in blamed

LeftoversBlamed ==
    (\A r \in Runs : phase[r] = "gone") => \A thing \in exists : MayStay(thing)

\* The wait for the warehouses has no limit, but it ends, unless another run has
\* deleted one of them in the meantime; then nobody creates it again.
PollEndsUnlessTaken ==
    \A r \in Runs :
        phase[r] = "polling" ~>
            \/ phase[r] # "polling"
            \/ \E warehouse \in waiting[r] : <<r, warehouse>> \in taken
=============================================================================
