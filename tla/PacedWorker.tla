----------------------------- MODULE PacedWorker -----------------------------
(***************************************************************************)
(* A run from its resource to the pace of one of its pods: the operator    *)
(* validates the scenario and deploys the plan of LoadPlan, the controller *)
(* announces the phases, and a worker follows them with the token bucket   *)
(* of incidentbench-common/src/ratelimit.rs.                               *)
(*                                                                         *)
(* A second has Ticks ticks.  Tokens are counted in parts of an operation  *)
(* such that `rate` (thousandths of an operation per second) of them are   *)
(* earned in a tick.                                                       *)
(***************************************************************************)
EXTENDS LoadPlan

CONSTANTS
    Scenarios, Specs,  \* what a resource may hold
    Edits,             \* what a scenario may be changed into once it is validated
    Ticks,             \* ticks of a second
    MaxTime            \* bound: the last tick

ASSUME PacedWorkerAssumption ==
    /\ \A scenario \in Scenarios : IsScenario(scenario)
    /\ Specs \subseteq Resource
    /\ Edits \subseteq Scenarios
    /\ Ticks \in Nat \ {0} /\ MaxTime \in Nat

VARIABLES
    scenario, spec,  \* what the resource holds and asks for
    edited,          \* the scenario was changed after its validation
    stage,           \* of the operator
    plan,            \* what it has deployed
    now,
    announced,       \* phases announced so far; one more means RunComplete
    since            \* when the last of them was

VARIABLES
    deployment,      \* the one the worker is a pod of
    pc, seen,        \* where its loop stands, the announcements it has taken
    tokens, rate,    \* the bucket
    lastRefill, wake

VARIABLES
    surplus          \* history: how far the worker is ahead of its rates

runVars    == <<scenario, spec, edited, stage, plan>>
clockVars  == <<announced, since>>
bucketVars == <<tokens, rate, lastRefill>>
workerVars == <<deployment, pc, seen, bucketVars, wake, surplus>>

vars == <<runVars, now, clockVars, workerVars>>

NoDeployment == [name |-> "", kind |-> "", replicas |-> 0, table |-> << >>, mix |-> {}]

Phases == plan.controller.phases

Init ==
    /\ scenario \in Scenarios /\ spec \in Specs
    /\ edited = FALSE /\ stage = "Pending" /\ plan = NoPlan
    /\ now = 0 /\ announced = 0 /\ since = 0
    /\ deployment = NoDeployment /\ pc = "none" /\ seen = 0
    /\ tokens = 0 /\ rate = 0 /\ lastRefill = 0 /\ wake = 0
    /\ surplus = 0

-----------------------------------------------------------------------------
(* The operator *)

\* handle_pending: a dry run ends here.
Validate ==
    /\ stage = "Pending"
    /\ stage' = IF ~Valid(scenario) THEN "Failed"
                ELSE IF spec.dryRun THEN "Completed" ELSE "Validated"
    /\ UNCHANGED <<scenario, spec, edited, plan, now, clockVars, workerVars>>

\* The resource is edited; every handler reads its spec again.
EditScenario ==
    /\ stage = "Validated" /\ ~edited
    /\ \E other \in Edits \ {scenario} : scenario' = other
    /\ edited' = TRUE
    /\ UNCHANGED <<spec, stage, plan, now, clockVars, workerVars>>

Deploy ==
    /\ stage = "Validated"
    /\ plan' = Plan(scenario, spec)
    /\ stage' = "Running"
    /\ UNCHANGED <<scenario, spec, edited, now, clockVars, workerVars>>

\* A query worker without a query ends with an error whenever it is started, and the
\* barrier stays shut.
CanStart(d) == d.kind = "query" => d.mix # {}

\* The worker is any pod of any Deployment, except that a session is not paced.
StartWorker ==
    /\ stage = "Running" /\ pc = "none"
    /\ \/ \E i \in DOMAIN plan.ingest : deployment' = plan.ingest[i]
       \/ \E i \in DOMAIN plan.query :
              plan.session = << >> /\ deployment' = plan.query[i]
    /\ deployment'.replicas > 0 /\ CanStart(deployment')
    /\ pc' = "waiting"
    /\ UNCHANGED <<runVars, now, clockVars, seen, bucketVars, wake, surplus>>

\* The controller starts its timeline when all workers are ready, and announces the
\* next phase when the last one has lasted its duration, or later.
Announce ==
    /\ pc # "none"
    /\ \A i \in DOMAIN plan.query : plan.query[i].replicas > 0 => CanStart(plan.query[i])
    /\ announced <= Len(Phases)
    /\ announced > 0 => now >= since + Phases[announced].duration * Ticks
    /\ announced' = announced + 1
    /\ since' = now
    /\ UNCHANGED <<runVars, now, workerVars>>

-----------------------------------------------------------------------------
(* The token bucket *)

Cost == MilliPerOp * Ticks

AtMost(n, bound) == IF n < bound THEN n ELSE bound

\* Burst of one second, at least one operation.
Burst(r) == (IF r > MilliPerOp THEN r ELSE MilliPerOp) * Ticks

\* Mutated form: a bucket without a limit.
RefilledUnbounded == tokens + (now - lastRefill) * rate

\* What is earned since the last refill is earned at the present rate, and what a
\* higher rate has left over is clipped only here.
Refilled == AtMost(tokens + (now - lastRefill) * rate, Burst(rate))

Refill(left) ==
    /\ tokens' = left
    /\ lastRefill' = now
    /\ UNCHANGED rate

Sleep(from, to, ticks) == pc = from /\ pc' = to /\ wake' = now + ticks

\* A full bucket: no waiting.
TakeToken ==
    /\ pc = "acquire" /\ Refilled >= Cost
    /\ Refill(Refilled - Cost)
    /\ pc' = "execute"
    /\ UNCHANGED <<runVars, now, clockVars, deployment, seen, wake, surplus>>

\* Rate 0: a sleep of a second, after which the operation is executed all the same.
WaitOutQuiet ==
    /\ Refilled < Cost /\ rate = 0
    /\ Refill(Refilled)
    /\ Sleep("acquire", "quiet", Ticks)
    /\ UNCHANGED <<runVars, now, clockVars, deployment, seen, surplus>>

WaitForToken ==
    /\ Refilled < Cost /\ rate > 0
    /\ Refill(Refilled)
    /\ Sleep("acquire", "short", (Cost - Refilled + rate - 1) \div rate)
    /\ UNCHANGED <<runVars, now, clockVars, deployment, seen, surplus>>

QuietOver ==
    /\ pc = "quiet" /\ now >= wake
    /\ pc' = "execute"
    /\ UNCHANGED <<runVars, now, clockVars, deployment, seen, bucketVars, wake, surplus>>

\* Mutated form: the token is taken without a second refill.
TokensAfterWaitStale == tokens - Cost

TokensAfterWait == Refilled - Cost

TokenEarned ==
    /\ pc = "short" /\ now >= wake
    /\ Refill(TokensAfterWait)
    /\ pc' = "execute"
    /\ UNCHANGED <<runVars, now, clockVars, deployment, seen, wake, surplus>>

-----------------------------------------------------------------------------
(* The worker's loop *)

\* An ingest worker looks the phase up in its own table, a query worker takes the
\* rate of the message.
RateOf(phase) ==
    IF deployment.kind = "ingest"
    THEN RateIn(deployment.table, phase.name) * MilliPerOp
    ELSE phase.mqps

\* wait_for_transition; the bucket starts full.
FirstPhase ==
    /\ pc = "waiting" /\ announced > 0 /\ Phases # << >>
    /\ seen' = 1
    /\ rate' = RateOf(Phases[1])
    /\ tokens' = Burst(rate')
    /\ lastRefill' = now
    /\ pc' = "poll"
    /\ UNCHANGED <<runVars, now, clockVars, deployment, wake, surplus>>

\* Mutated form: the rate is that of the phase in which the controller is by now.
SetRateOfPresent(i) == rate' = RateOf(Phases[AtMost(announced, Len(Phases))])

\* set_rate: the tokens and the time of the last refill are kept.
SetRate(i) == rate' = RateOf(Phases[i])

\* One event at most before each operation.
TakeTransition ==
    /\ pc = "poll" /\ seen < announced /\ seen < Len(Phases)
    /\ seen' = seen + 1
    /\ SetRate(seen + 1)
    /\ pc' = "acquire"
    /\ UNCHANGED <<runVars, now, clockVars, deployment, tokens, lastRefill, wake, surplus>>

\* A timeline without a phase ends before the first one.
TakeRunComplete ==
    /\ pc \in {"poll", "waiting"} /\ seen < announced /\ seen = Len(Phases)
    /\ pc' = "done"
    /\ UNCHANGED <<runVars, now, clockVars, deployment, seen, bucketVars, wake, surplus>>

\* Nothing has arrived yet, also when it was announced before.
NoEvent ==
    /\ pc = "poll"
    /\ pc' = "acquire"
    /\ UNCHANGED <<runVars, now, clockVars, deployment, seen, bucketVars, wake, surplus>>

\* An event is produced, or a query executed; it takes any time.
Execute ==
    /\ pc = "execute"
    /\ pc' = "poll"
    /\ surplus' = surplus + Cost
    /\ UNCHANGED <<runVars, now, clockVars, deployment, seen, bucketVars, wake>>

\* The pace of a rate: its own, and an operation per second when it is 0.
Pace == IF rate = 0 THEN MilliPerOp ELSE rate

Tick ==
    /\ pc \notin {"none", "done"} /\ now < MaxTime
    /\ now' = now + 1
    /\ surplus' = IF surplus > Pace THEN surplus - Pace ELSE 0
    /\ UNCHANGED <<runVars, clockVars, deployment, pc, seen, bucketVars, wake>>

Operator == Validate \/ EditScenario \/ Deploy

Worker ==
    \/ StartWorker \/ FirstPhase \/ TakeTransition \/ TakeRunComplete \/ NoEvent
    \/ TakeToken \/ WaitOutQuiet \/ WaitForToken \/ QuietOver \/ TokenEarned
    \/ Execute

Next == Operator \/ Announce \/ Worker \/ Tick

Spec == Init /\ [][Next]_vars
-----------------------------------------------------------------------------
(* Properties *)

Stages == {"Pending", "Validated", "Failed", "Completed", "Running"}

States == {"none", "waiting", "poll", "acquire", "quiet", "short", "execute", "done"}

\* A bucket never owes tokens: f64 subtraction in acquire relies on it.
TypeOK ==
    /\ scenario \in Scenarios /\ spec \in Specs
    /\ edited \in BOOLEAN /\ stage \in Stages
    /\ now \in 0..MaxTime /\ since \in 0..now
    /\ announced \in 0..(Len(Phases) + 1) /\ seen \in 0..Len(Phases)
    /\ pc \in States
    /\ tokens \in Nat /\ rate \in Nat /\ surplus \in Nat
    /\ lastRefill \in 0..now /\ wake \in Nat

Working == pc \in States \ {"none", "waiting", "done"}

\* The load that the scenario gives to the worker's Deployment in a phase, times
\* rateScale.den, in thousandths; and what one worker may lack of its share.
Authored(i) ==
    spec.rateScale.num *
        (IF deployment.kind = "ingest"
         THEN LET stream == CHOOSE s \in ToSet(scenario.streams) : s.name = deployment.name
              IN  stream.ingest[scenario.phases[i].name] * MilliPerOp
         ELSE scenario.phases[i].mqps)

Workers ==
    IF deployment.kind = "ingest" THEN deployment.replicas ELSE TotalQueryReplicas(spec)

Unit == IF deployment.kind = "ingest" THEN MilliPerOp ELSE 1

\* In every phase it has been told of, the workers of a Deployment have together the
\* rate that the author of a validated scenario gave to that phase, scaled: they
\* lack less than one unit each, and exceed it by the rounding at most.
RateFollowsPhase ==
    Working /\ ~edited =>
        LET den   == spec.rateScale.den
            fleet == Workers * rate * den
        IN  /\ 2 * fleet <= 2 * Authored(seen) + Unit * den
            /\ 2 * fleet > 2 * Authored(seen) - 2 * Workers * Unit * den - Unit * den

\* evaluate_validity (json_report.rs:421-452) rejects a run that reaches less than
\* 90 % of its baseline.  A stream of a validated scenario with at least ten events/s
\* for each of its workers is deployed with enough.
BaselineReachable ==
    stage = "Running" /\ ~edited =>
        \A i \in DOMAIN plan.ingest :
            LET workers == plan.ingest[i].replicas
                target  == Rounded(scenario.streams[i].ingest["baseline"], spec.rateScale)
            IN  target >= 10 * workers =>
                    10 * workers * RateIn(plan.ingest[i].table, "baseline") >= 9 * target

\* The controller waits for as many workers as the Deployments have pods, whether
\* the scenario was edited or not.  When a validated scenario has queries, each query
\* worker has some to execute, and a session executes each in one category.
PlanIsConsistent ==
    stage = "Running" =>
        /\ plan.controller.expectedIngest = SumOver(plan.ingest, LAMBDA d : d.replicas)
        /\ plan.controller.expectedQuery = SumOver(plan.query, LAMBDA d : d.replicas)
        /\ ~edited /\ scenario.queries # << >> =>
               \A i \in DOMAIN plan.query : CanStart(plan.query[i])
        /\ plan.session # << >> /\ scenario.session = << >> =>
               \A q \in ToSet(scenario.queries) :
                   Cardinality({i \in DOMAIN plan.session :
                                    q \in ToSet(plan.session[i].queries)}) = 1

MaxBurst == Max({Burst(RateOf(Phases[i])) : i \in DOMAIN Phases})

\* A worker executes more than its rates only by the burst of a second, and once more
\* that much for every change of rate: what is earned before it counts at the new
\* rate.  Late polls, slow operations and quiet phases add no more than one operation.
PaceBounded == Working => surplus <= seen * MaxBurst + Cost
=============================================================================
