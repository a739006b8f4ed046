------------------------------ MODULE LoadPlan ------------------------------
(***************************************************************************)
(* The load a run is to put on its target, and how the operator divides it *)
(* over workers: validation and scaling of a scenario, the rate tables of  *)
(* incidentbench-common/src/scenario.rs, and the configuration that        *)
(* build_worker_configmaps and the Deployments of incidentbench-operator/  *)
(* src/resources.rs give to the pods.                                      *)
(*                                                                         *)
(* A scenario is a record:                                                 *)
(*   declared  data_streams is present                                     *)
(*   streams   of [name, index, fields, timestamp, replicas, ingest], where *)
(*             ingest maps the phases it has an entry for to events/s      *)
(*   phases    of [name, duration, mqps], mqps = target_qps * MilliPerOp   *)
(*   queries   of [name, index, category], category "" when there is none  *)
(*   grouped   query_groups is present                                     *)
(*   groups    of [name, weight, overridden, override]                     *)
(*   session   the categories of query_session, << >> when it is absent    *)
(* A spec (of the resource) has replicas, grouped, groups (of [name,       *)
(* replicas]) and the two scales, quotients [num, den].                    *)
(***************************************************************************)
EXTENDS Integers, Sequences, FiniteSets, SequencesExt

CONSTANTS
    ExpectedPhases,  \* the six phase names, in order (scenario.rs:449-456)
    MinDuration,     \* 30 s in the code
    MilliPerOp,      \* thousandths of an operation: 1000 in the code
    Whole,           \* weights that sum to 1.0 sum to this
    WeightSlack      \* 0.01 of it

ASSUME LoadPlanAssumption ==
    /\ ExpectedPhases \in Seq(STRING) /\ "baseline" \in ToSet(ExpectedPhases)
    /\ MinDuration \in Nat
    /\ MilliPerOp \in Nat \ {0}
    /\ Whole \in Nat /\ WeightSlack \in Nat /\ WeightSlack < Whole

\* What a scenario and a resource can hold, validated or not.  A target_qps below zero
\* is converted to zero where the load is computed from it.
Phase == [name : STRING, duration : Nat, mqps : Nat]

QueryDef == [name : STRING, index : STRING, category : STRING]

IsStream(stream) ==
    /\ stream \in [name : STRING, index : STRING, fields : SUBSET STRING,
                   timestamp : STRING, replicas : Nat, ingest : {stream.ingest}]
    /\ stream.ingest \in [DOMAIN stream.ingest -> Nat]

IsScenario(scenario) ==
    /\ scenario \in [declared : BOOLEAN, streams : Seq(ToSet(scenario.streams)),
                     phases : Seq(Phase), queries : Seq(QueryDef),
                     grouped : BOOLEAN, groups : Seq(ToSet(scenario.groups)),
                     session : {scenario.session}]
    /\ ~scenario.declared => scenario.streams = << >>
    /\ \A i \in DOMAIN scenario.streams : IsStream(scenario.streams[i])

Scale == [num : Nat, den : Nat \ {0}]

Resource == [dryRun : BOOLEAN, replicas : Nat, grouped : BOOLEAN,
             groups : Seq([name : STRING, replicas : Nat]),
             durationScale : Scale, rateScale : Scale]

-----------------------------------------------------------------------------
(* Validation *)

NamesOf(seq) == {seq[i].name : i \in DOMAIN seq}

NamesDiffer(seq) == Cardinality(NamesOf(seq)) = Len(seq)

SumOf(numbers) ==
    LET sum[n \in 0..Len(numbers)] == IF n = 0 THEN 0 ELSE sum[n - 1] + numbers[n]
    IN  sum[Len(numbers)]

SumOver(seq, Value(_)) == SumOf([i \in DOMAIN seq |-> Value(seq[i])])

Close(sum) == sum - Whole \in -WeightSlack..WeightSlack

HasIngest(scenario) == scenario.declared /\ scenario.streams # << >>

IsSessionMode(scenario) ==
    \/ scenario.session # << >>
    \/ /\ scenario.queries # << >>
       /\ \A i \in DOMAIN scenario.queries : scenario.queries[i].category # ""

IndexNames(scenario) == {scenario.streams[i].index : i \in DOMAIN scenario.streams}

StreamsValid(scenario) ==
    scenario.declared =>
        /\ scenario.streams # << >>
        /\ NamesDiffer(scenario.streams)
        /\ Cardinality(IndexNames(scenario)) = Len(scenario.streams)
        /\ \A i \in DOMAIN scenario.streams :
               LET stream == scenario.streams[i]
               IN  /\ stream.timestamp \in stream.fields
                   /\ stream.replicas > 0
                   /\ NamesOf(scenario.phases) \subseteq DOMAIN stream.ingest

\* The six names are required only of a scenario with ingest; without, phases may
\* even share a name.
TimelineValid(scenario) ==
    /\ scenario.phases # << >>
    /\ HasIngest(scenario) =>
           [i \in DOMAIN scenario.phases |-> scenario.phases[i].name] = ExpectedPhases
    /\ \A i \in DOMAIN scenario.phases : scenario.phases[i].duration >= MinDuration

QueriesValid(scenario) ==
    HasIngest(scenario) =>
        \A i \in DOMAIN scenario.queries :
            scenario.queries[i].index \in IndexNames(scenario)

OverrideValid(scenario, group) ==
    group.overridden =>
        /\ DOMAIN group.override \subseteq NamesOf(scenario.queries)
        /\ Close(FoldFunction(LAMBDA a, b : a + b, 0, group.override))

GroupsValid(scenario) ==
    scenario.grouped =>
        /\ scenario.groups # << >>
        /\ Close(SumOver(scenario.groups, LAMBDA g : g.weight))
        /\ NamesDiffer(scenario.groups)
        /\ \A i \in DOMAIN scenario.groups :
               /\ scenario.groups[i].weight > 0
               /\ OverrideValid(scenario, scenario.groups[i])

Valid(scenario) ==
    /\ StreamsValid(scenario) /\ TimelineValid(scenario)
    /\ QueriesValid(scenario) /\ GroupsValid(scenario)

-----------------------------------------------------------------------------
(* Scaling *)

\* f64::round of a number that is not negative.
Rounded(n, scale) == (2 * n * scale.num + scale.den) \div (2 * scale.den)

\* `as u64` drops the fraction.
Truncated(n, scale) == (n * scale.num) \div scale.den

AtLeastOne(n) == IF n = 0 THEN 1 ELSE n

ScaledDuration(duration, scale) == AtLeastOne(Rounded(duration, scale))

\* target_qps stays exact and is truncated only where it is turned into mqps: the
\* phases of a scaled scenario carry the truncated value.
ScaledPhase(phase, spec) ==
    [phase EXCEPT !.duration = ScaledDuration(@, spec.durationScale),
                  !.mqps     = Truncated(@, spec.rateScale)]

ScaledStream(stream, spec) ==
    [stream EXCEPT !.ingest = [p \in DOMAIN @ |-> Rounded(@[p], spec.rateScale)]]

Scaled(scenario, spec) ==
    [scenario EXCEPT
        !.phases  = [i \in DOMAIN @ |-> ScaledPhase(@[i], spec)],
        !.streams = [i \in DOMAIN @ |-> ScaledStream(@[i], spec)]]

-----------------------------------------------------------------------------
(* Rate tables *)

\* The part of a total that worker `index` executes; the last one has the remainder.
Share(total, workers, index) ==
    LET n == AtLeastOne(workers)
    IN  total \div n + (IF index = n - 1 THEN total % n ELSE 0)

TargetOf(stream, phase) ==
    IF phase \in DOMAIN stream.ingest THEN stream.ingest[phase] ELSE 0

\* Mutated form: a stream is divided over the workers of all streams.
IngestRateTableOfAll(scenario, stream, index) ==
    [i \in DOMAIN scenario.phases |->
        [name |-> scenario.phases[i].name,
         rate |-> Share(TargetOf(stream, scenario.phases[i].name),
                        SumOver(scenario.streams, LAMBDA s : s.replicas), index)]]

IngestRateTable(scenario, stream, index) ==
    [i \in DOMAIN scenario.phases |->
        [name |-> scenario.phases[i].name,
         rate |-> Share(TargetOf(stream, scenario.phases[i].name), stream.replicas, index)]]

QueryRateTable(scenario, workers, index) ==
    [i \in DOMAIN scenario.phases |->
        [name |-> scenario.phases[i].name,
         rate |-> Share(scenario.phases[i].mqps, workers, index)]]

\* An ingest worker looks its phase up by name: the first one counts, 0 if none.
RateIn(table, phase) ==
    LET found == {i \in DOMAIN table : table[i].name = phase}
    IN  IF found = {} THEN 0 ELSE table[Min(found)].rate

-----------------------------------------------------------------------------
(* What is deployed *)

TotalIngestReplicas(scenario) ==
    SumOver(scenario.streams, LAMBDA s : s.replicas)

\* Mutated form: the groups of the resource are forgotten.
TotalQueryReplicasUngrouped(spec) == spec.replicas

TotalQueryReplicas(spec) ==
    IF spec.grouped THEN SumOver(spec.groups, LAMBDA g : g.replicas) ELSE spec.replicas

ControllerConfig(scenario, spec) ==
    LET workers == TotalQueryReplicas(spec)
    IN  [expectedIngest |-> TotalIngestReplicas(scenario),
         expectedQuery  |-> workers,
         phases         |-> [i \in DOMAIN scenario.phases |->
             [name     |-> scenario.phases[i].name,
              duration |-> scenario.phases[i].duration,
              mqps     |-> scenario.phases[i].mqps \div AtLeastOne(workers)]]]

\* The pods of a Deployment share one ConfigMap: its worker_index is 0 for all.
SharedIndex == 0

IngestDeployments(scenario) ==
    [i \in DOMAIN scenario.streams |->
        [name     |-> scenario.streams[i].name,
         kind     |-> "ingest",
         replicas |-> scenario.streams[i].replicas,
         table    |-> IngestRateTable(scenario, scenario.streams[i], SharedIndex),
         mix      |-> {}]]

\* The queries a group of the resource executes: those that the group of that name
\* of the scenario overrides, the whole mix without one.
GroupMix(scenario, name) ==
    LET named == {i \in DOMAIN scenario.groups : scenario.groups[i].name = name}
        group == scenario.groups[Min(named)]
    IN  IF ~scenario.grouped \/ named = {} \/ ~group.overridden
        THEN NamesOf(scenario.queries)
        ELSE NamesOf(scenario.queries) \cap DOMAIN group.override

QueryDeployments(scenario, spec) ==
    IF spec.grouped
    THEN [i \in DOMAIN spec.groups |->
             [name     |-> spec.groups[i].name,
              kind     |-> "query",
              replicas |-> spec.groups[i].replicas,
              table    |-> QueryRateTable(scenario, spec.groups[i].replicas, SharedIndex),
              mix      |-> GroupMix(scenario, spec.groups[i].name)]]
    ELSE <<[name     |-> "query",
            kind     |-> "query",
            replicas |-> spec.replicas,
            table    |-> QueryRateTable(scenario, spec.replicas, SharedIndex),
            mix      |-> NamesOf(scenario.queries)]>>

\* A query joins its category, or opens it behind the others.
AddQuery(session, query) ==
    IF \E k \in DOMAIN session : session[k].name = query.category
    THEN [k \in DOMAIN session |->
             IF session[k].name = query.category
             THEN [session[k] EXCEPT !.queries = Append(@, query)]
             ELSE session[k]]
    ELSE Append(session, [name |-> query.category, queries |-> <<query>>])

GroupedByCategory(queries) ==
    LET session[n \in 0..Len(queries)] ==
            IF n = 0 THEN << >> ELSE AddQuery(session[n - 1], queries[n])
    IN  session[Len(queries)]

\* An explicit session is used as it is; otherwise a mix with categories makes one.
DerivedSession(scenario) ==
    IF scenario.session # << >> THEN scenario.session
    ELSE IF IsSessionMode(scenario) THEN GroupedByCategory(scenario.queries)
    ELSE << >>

\* handle_initializing: the scenario is scaled, and is not validated again.
Plan(scenario, spec) ==
    LET scaled == Scaled(scenario, spec)
    IN  [controller |-> ControllerConfig(scaled, spec),
         ingest     |-> IF HasIngest(scaled) THEN IngestDeployments(scaled) ELSE << >>,
         query      |-> QueryDeployments(scaled, spec),
         session    |-> DerivedSession(scaled)]

NoPlan ==
    [controller |-> [expectedIngest |-> 0, expectedQuery |-> 0, phases |-> << >>],
     ingest |-> << >>, query |-> << >>, session |-> << >>]
=============================================================================
