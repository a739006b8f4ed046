------------------------- MODULE PacedWorkerProofs -------------------------
(***************************************************************************)
(* Theorems about PacedWorker for any scenarios, resources and edits, any  *)
(* resolution of the clock and any length of the run: the worker has the   *)
(* rate that the author gave to its phase, and does not run ahead of it.   *)
(***************************************************************************)
EXTENDS PacedWorker, FiniteSetTheorems, SequenceTheorems, NaturalsInduction,
        WellFoundedInduction, TLAPS

-----------------------------------------------------------------------------
(* Numbers *)

LEMMA LeastNumber ==
    ASSUME NEW T, T \subseteq Nat, T # {}
    PROVE  \E n \in T : \A m \in T : n <= m
<1> DEFINE Less == OpToRel(<, Nat)
<1>1. IsWellFoundedOn(Less, Nat)
  BY NatLessThanWellFounded
<1>2. \A m, n \in Nat : m < n => <<m, n>> \in Less
  <2>1. Less = {ss \in Nat \X Nat : ss[1] < ss[2]}
    BY Zenon DEF OpToRel
  <2> HIDE DEF Less
  <2>2. QED
    BY <2>1
<1> HIDE DEF Less
<1>3. PICK n \in T : \A m \in T : <<m, n>> \notin Less
  BY <1>1, WFMin
<1>4. \A m \in T : ~(m < n)
  BY <1>2, <1>3
<1>5. QED
  BY <1>4

\* Induction for a set of numbers.
LEMMA NumbersFrom ==
    ASSUME NEW T, 0 \in T, \A n \in Nat : n \in T => n + 1 \in T
    PROVE  \A n \in Nat : n \in T
<1> SUFFICES ASSUME Nat \ T # {}
             PROVE  FALSE
  OBVIOUS
<1>1. PICK n \in Nat \ T : \A m \in Nat \ T : n <= m
  BY LeastNumber
<1>2. n # 0 /\ n - 1 \in Nat /\ n - 1 \notin Nat \ T
  BY <1>1
<1>3. QED
  BY <1>1, <1>2

LEMMA Division ==
    ASSUME NEW a \in Nat, NEW d \in Nat \ {0}
    PROVE  a \div d \in Nat /\ d * (a \div d) <= a /\ a < d * (a \div d) + d
OBVIOUS

\* The sums of the numbers up to each place.
AreSums(sum, numbers, bound) ==
    sum = [n \in 0..bound |-> IF n = 0 THEN 0 ELSE sum[n - 1] + numbers[n]]

LEMMA SumsExist ==
    ASSUME NEW numbers \in Seq(Nat)
    PROVE  \E sum : AreSums(sum, numbers, Len(numbers))
<1> DEFINE T == {n \in Nat : n <= Len(numbers) => \E sum : AreSums(sum, numbers, n)}
<1>1. 0 \in T
  <2> DEFINE sum == [n \in 0..0 |-> 0]
  <2>1. AreSums(sum, numbers, 0)
    BY DEF AreSums
  <2>2. QED
    BY <2>1
<1>2. ASSUME NEW n \in Nat, n \in T
      PROVE  n + 1 \in T
  <2> SUFFICES ASSUME n + 1 <= Len(numbers)
               PROVE  \E sum : AreSums(sum, numbers, n + 1)
    OBVIOUS
  <2>1. PICK sum : AreSums(sum, numbers, n)
    BY <1>2
  <2> DEFINE next == [k \in 0..(n + 1) |->
                         IF k = n + 1 THEN sum[n] + numbers[n + 1] ELSE sum[k]]
  <2>2. \A k \in 0..n : sum[k] = IF k = 0 THEN 0 ELSE sum[k - 1] + numbers[k]
    BY <2>1 DEF AreSums
  <2>3. \A k \in 0..(n + 1) : next[k] = IF k = 0 THEN 0 ELSE next[k - 1] + numbers[k]
    BY <2>2
  <2>4. next = [k \in 0..(n + 1) |-> IF k = 0 THEN 0 ELSE next[k - 1] + numbers[k]]
    BY <2>3
  <2>5. QED
    BY <2>4 DEF AreSums
<1> HIDE DEF T
<1>3. \A n \in Nat : n \in T
  BY <1>1, <1>2, NumbersFrom
<1>4. Len(numbers) \in Nat
  BY LenProperties
<1>5. QED
  BY <1>3, <1>4 DEF T

\* A sum of numbers is a number, and none of them exceeds it.
LEMMA SumOfNumbers ==
    ASSUME NEW numbers \in Seq(Nat)
    PROVE  /\ SumOf(numbers) \in Nat
           /\ \A i \in 1..Len(numbers) : numbers[i] <= SumOf(numbers)
<1> DEFINE g == CHOOSE sum : AreSums(sum, numbers, Len(numbers))
           T == {n \in Nat : n <= Len(numbers) =>
                    g[n] \in Nat /\ \A i \in 1..n : numbers[i] <= g[n]}
<1>1. AreSums(g, numbers, Len(numbers))
  BY SumsExist
<1>2. SumOf(numbers) = g[Len(numbers)]
  BY DEF SumOf, AreSums
<1>3. Len(numbers) \in Nat
  BY LenProperties
<1> HIDE DEF g
<1>4. \A n \in 0..Len(numbers) : g[n] = IF n = 0 THEN 0 ELSE g[n - 1] + numbers[n]
  BY <1>1, <1>3 DEF AreSums
<1>5. 0 \in T
  BY <1>3, <1>4
<1>6. ASSUME NEW n \in Nat, n \in T
      PROVE  n + 1 \in T
  <2> SUFFICES ASSUME n + 1 <= Len(numbers)
               PROVE  g[n + 1] \in Nat /\ \A i \in 1..(n + 1) : numbers[i] <= g[n + 1]
    OBVIOUS
  <2>1. g[n] \in Nat /\ \A i \in 1..n : numbers[i] <= g[n]
    BY <1>3, <1>6
  <2>2. g[n + 1] = g[n] + numbers[n + 1]
    BY <1>3, <1>4
  <2>3. \A i \in 1..Len(numbers) : numbers[i] \in Nat
    BY ElementOfSeq
  <2>4. numbers[n + 1] \in Nat
    BY <1>3, <2>3
  <2>5. QED
    BY <1>3, <2>1, <2>2, <2>3, <2>4
<1> HIDE DEF T
<1>7. \A n \in Nat : n \in T
  BY <1>5, <1>6, NumbersFrom
<1>8. QED
  BY <1>2, <1>3, <1>7 DEF T


-----------------------------------------------------------------------------
(* The plan of a scenario *)

Row == [name : STRING, rate : Nat]

LEMMA AtLeastOneType == \A n \in Nat : AtLeastOne(n) \in Nat \ {0}
BY DEF AtLeastOne

LEMMA ScalingType ==
    ASSUME NEW n \in Nat, NEW scale \in Scale
    PROVE  Rounded(n, scale) \in Nat /\ Truncated(n, scale) \in Nat
<1>1. scale.num \in Nat /\ scale.den \in Nat \ {0}
  BY DEF Scale
<1>2. /\ 2 * n * scale.num + scale.den \in Nat /\ 2 * scale.den \in Nat \ {0}
      /\ n * scale.num \in Nat
  BY <1>1
<1>3. QED
  BY <1>1, <1>2, Division DEF Rounded, Truncated

\* All pods of a Deployment take the share of the first worker.
LEMMA FirstShare ==
    ASSUME NEW total \in Nat, NEW workers \in Nat
    PROVE  /\ Share(total, workers, SharedIndex) = total \div AtLeastOne(workers)
           /\ Share(total, workers, SharedIndex) \in Nat
<1> DEFINE n == AtLeastOne(workers)
<1>1. n \in Nat \ {0}
  BY AtLeastOneType
<1>2. total \div n \in Nat
  BY <1>1, Division
<1>3. Share(total, workers, SharedIndex) = total \div n + (IF 0 = n - 1 THEN total % n ELSE 0)
  BY DEF Share, SharedIndex
<1>4. n = 1 => total % n = 0
  OBVIOUS
<1> HIDE DEF n
<1>5. (IF 0 = n - 1 THEN total % n ELSE 0) = 0
  BY <1>1, <1>4
<1>6. Share(total, workers, SharedIndex) = total \div n
  BY <1>2, <1>3, <1>5
<1>7. QED
  BY <1>2, <1>6 DEF n

\* A phase is looked up in a table of any rows; there may be none of its name.
LEMMA RateFound ==
    ASSUME NEW table \in Seq(Row), NEW phase
    PROVE  /\ RateIn(table, phase) \in Nat
           /\ \A i \in DOMAIN table : table[i].name = phase =>
                 \E k \in DOMAIN table :
                    table[k].name = phase /\ RateIn(table, phase) = table[k].rate
<1> DEFINE found == {i \in DOMAIN table : table[i].name = phase}
<1>1. found \subseteq Nat
  OBVIOUS
<1>2. \A k \in DOMAIN table : table[k].rate \in Nat
  <2> TAKE k \in DOMAIN table
  <2>1. DOMAIN table = 1..Len(table)
    OBVIOUS
  <2>2. table[k] \in Row
    BY <2>1, ElementOfSeq
  <2>3. QED
    BY <2>2 DEF Row
<1>3. CASE found = {}
  <2>1. RateIn(table, phase) = 0
    BY <1>3 DEF RateIn
  <2>2. QED
    BY <1>3, <2>1
<1>4. CASE found # {}
  <2>1. PICK least \in found : \A m \in found : least <= m
    BY <1>1, <1>4, LeastNumber
  <2>2. Min(found) \in found
    BY <2>1 DEF Min
  <2>3. RateIn(table, phase) = table[Min(found)].rate
    BY <1>4 DEF RateIn
  <2>4. QED
    BY <1>2, <2>2, <2>3
<1>5. QED
  BY <1>3, <1>4

LEMMA ScenarioParts ==
    ASSUME NEW s \in Scenarios
    PROVE  /\ s.phases \in Seq(Phase) /\ s.streams \in Seq(ToSet(s.streams))
           /\ s.queries \in Seq(QueryDef) /\ s.groups \in Seq(ToSet(s.groups))
           /\ s.declared \in BOOLEAN /\ (~s.declared => s.streams = << >>)
           /\ \A i \in DOMAIN s.streams : IsStream(s.streams[i])
BY PacedWorkerAssumption DEF IsScenario

LEMMA ScaledParts ==
    ASSUME NEW s \in Scenarios, NEW spc \in Specs
    PROVE  /\ Scaled(s, spc).phases = [i \in DOMAIN s.phases |-> ScaledPhase(s.phases[i], spc)]
           /\ Scaled(s, spc).streams = [i \in DOMAIN s.streams |-> ScaledStream(s.streams[i], spc)]
           /\ Scaled(s, spc).declared = s.declared /\ Scaled(s, spc).queries = s.queries
           /\ Scaled(s, spc).grouped = s.grouped /\ Scaled(s, spc).groups = s.groups
           /\ Scaled(s, spc).session = s.session
<1>1. s \in [declared : BOOLEAN, streams : Seq(ToSet(s.streams)),
             phases : Seq(Phase), queries : Seq(QueryDef),
             grouped : BOOLEAN, groups : Seq(ToSet(s.groups)), session : {s.session}]
  BY PacedWorkerAssumption DEF IsScenario
<1> DEFINE phases == [i \in DOMAIN s.phases |-> ScaledPhase(s.phases[i], spc)]
           streams == [i \in DOMAIN s.streams |-> ScaledStream(s.streams[i], spc)]
<1>2. Scaled(s, spc) = [s EXCEPT !.phases = phases, !.streams = streams]
  BY <1>1 DEF Scaled
<1> HIDE DEF phases, streams
<1>3. /\ Scaled(s, spc).phases = phases /\ Scaled(s, spc).streams = streams
      /\ Scaled(s, spc).declared = s.declared /\ Scaled(s, spc).queries = s.queries
      /\ Scaled(s, spc).grouped = s.grouped /\ Scaled(s, spc).groups = s.groups
      /\ Scaled(s, spc).session = s.session
  BY <1>1, <1>2
<1>4. QED
  BY <1>3 DEF phases, streams

LEMMA ScaledPhaseType ==
    ASSUME NEW phase \in Phase, NEW spc \in Specs
    PROVE  /\ ScaledPhase(phase, spc) \in Phase
           /\ ScaledPhase(phase, spc).name = phase.name
           /\ ScaledPhase(phase, spc).mqps = Truncated(phase.mqps, spc.rateScale)
<1>1. spc.durationScale \in Scale /\ spc.rateScale \in Scale
  BY PacedWorkerAssumption DEF Resource
<1>2. phase.duration \in Nat /\ phase.mqps \in Nat
  BY DEF Phase
<1>3. /\ ScaledDuration(phase.duration, spc.durationScale) \in Nat
      /\ Truncated(phase.mqps, spc.rateScale) \in Nat
  BY <1>1, <1>2, ScalingType, AtLeastOneType DEF ScaledDuration
<1>4. QED
  BY <1>3 DEF ScaledPhase, Phase

LEMMA ScaledStreamType ==
    ASSUME NEW stream, IsStream(stream), NEW spc \in Specs
    PROVE  /\ IsStream(ScaledStream(stream, spc))
           /\ ScaledStream(stream, spc).name = stream.name
           /\ ScaledStream(stream, spc).replicas = stream.replicas
           /\ DOMAIN ScaledStream(stream, spc).ingest = DOMAIN stream.ingest
           /\ \A p \in DOMAIN stream.ingest :
                 ScaledStream(stream, spc).ingest[p] = Rounded(stream.ingest[p], spc.rateScale)
<1> DEFINE ingest == [p \in DOMAIN stream.ingest |-> Rounded(stream.ingest[p], spc.rateScale)]
           scaled == ScaledStream(stream, spc)
<1>1. spc.rateScale \in Scale
  BY PacedWorkerAssumption DEF Resource
<1>2. stream.ingest \in [DOMAIN stream.ingest -> Nat]
  BY DEF IsStream
<1>3. ingest \in [DOMAIN stream.ingest -> Nat]
  BY <1>1, <1>2, ScalingType
<1>4. scaled = [stream EXCEPT !.ingest = ingest]
  BY DEF ScaledStream
<1>5. DOMAIN ingest = DOMAIN stream.ingest
  OBVIOUS
<1>6. \A p \in DOMAIN stream.ingest : ingest[p] = Rounded(stream.ingest[p], spc.rateScale)
  OBVIOUS
<1> HIDE DEF ingest, scaled
<1>7. /\ scaled \in [name : STRING, index : STRING, fields : SUBSET STRING,
                      timestamp : STRING, replicas : Nat, ingest : {ingest}]
      /\ scaled.ingest = ingest /\ scaled.name = stream.name
      /\ scaled.replicas = stream.replicas
  BY <1>4 DEF IsStream
<1>8. IsStream(scaled)
  BY <1>3, <1>5, <1>7 DEF IsStream
<1>9. QED
  BY <1>5, <1>6, <1>7, <1>8 DEF scaled

\* The query workers of a resource; no Deployment has more than all together.
LEMMA QueryWorkers ==
    ASSUME NEW spc \in Specs
    PROVE  /\ TotalQueryReplicas(spc) \in Nat
           /\ ~spc.grouped => TotalQueryReplicas(spc) = spc.replicas
           /\ spc.grouped => \A i \in DOMAIN spc.groups :
                 spc.groups[i].replicas <= TotalQueryReplicas(spc)
<1> DEFINE replicas == [i \in DOMAIN spc.groups |-> spc.groups[i].replicas]
<1>1. /\ spc.replicas \in Nat /\ spc.grouped \in BOOLEAN
      /\ spc.groups \in Seq([name : STRING, replicas : Nat])
  BY PacedWorkerAssumption DEF Resource
<1>2. \A i \in DOMAIN spc.groups : spc.groups[i].replicas \in Nat
  <2> TAKE i \in DOMAIN spc.groups
  <2>1. DOMAIN spc.groups = 1..Len(spc.groups)
    BY <1>1
  <2>2. spc.groups[i] \in [name : STRING, replicas : Nat]
    BY <1>1, <2>1, ElementOfSeq
  <2>3. QED
    BY <2>2
<1>3. replicas \in Seq(Nat) /\ DOMAIN replicas = 1..Len(replicas)
  BY <1>1, <1>2
<1>4. spc.grouped => TotalQueryReplicas(spc) = SumOf(replicas)
  BY DEF TotalQueryReplicas, SumOver
<1>5. ~spc.grouped => TotalQueryReplicas(spc) = spc.replicas
  BY DEF TotalQueryReplicas
<1>6. \A i \in DOMAIN spc.groups : i \in DOMAIN replicas /\ replicas[i] = spc.groups[i].replicas
  OBVIOUS
<1> HIDE DEF replicas
<1>7. SumOf(replicas) \in Nat /\ \A i \in DOMAIN replicas : replicas[i] <= SumOf(replicas)
  BY <1>3, SumOfNumbers
<1>8. QED
  BY <1>1, <1>4, <1>5, <1>6, <1>7

\* The timeline of the controller has the phases of the scenario, each with the share of
\* one query worker.
LEMMA PlannedPhases ==
    ASSUME NEW s \in Scenarios, NEW spc \in Specs
    PROVE  LET phases == Plan(s, spc).controller.phases
           IN  /\ phases \in Seq(Phase) /\ DOMAIN phases = DOMAIN s.phases
               /\ \A i \in DOMAIN s.phases :
                     /\ phases[i].name = s.phases[i].name
                     /\ phases[i].mqps = Truncated(s.phases[i].mqps, spc.rateScale)
                                            \div AtLeastOne(TotalQueryReplicas(spc))
<1> DEFINE workers == AtLeastOne(TotalQueryReplicas(spc))
           scaled == Scaled(s, spc).phases
           Planned(phase) ==
               [name |-> phase.name, duration |-> phase.duration, mqps |-> phase.mqps \div workers]
           phases == [i \in DOMAIN scaled |-> Planned(scaled[i])]
<1>1. Plan(s, spc).controller.phases = phases
  BY DEF Plan, ControllerConfig
<1>2. workers \in Nat \ {0}
  BY QueryWorkers, AtLeastOneType
<1>3. s.phases \in Seq(Phase)
  BY ScenarioParts
<1>4. scaled = [i \in DOMAIN s.phases |-> ScaledPhase(s.phases[i], spc)]
  BY ScaledParts
<1> HIDE DEF workers, scaled
<1>5. \A phase \in Phase : Planned(phase) \in Phase
  BY <1>2, Division DEF Phase
<1>6. ASSUME NEW i \in DOMAIN s.phases
      PROVE  /\ phases[i] \in Phase /\ phases[i].name = s.phases[i].name
             /\ phases[i].mqps = Truncated(s.phases[i].mqps, spc.rateScale) \div workers
  <2>1. s.phases[i] \in Phase
    BY <1>3
  <2>2. /\ scaled[i] \in Phase /\ scaled[i].name = s.phases[i].name
        /\ scaled[i].mqps = Truncated(s.phases[i].mqps, spc.rateScale)
    BY <1>4, <2>1, ScaledPhaseType
  <2>3. phases[i] = Planned(scaled[i])
    BY <1>4
  <2>4. QED
    BY <1>5, <2>2, <2>3
<1>7. DOMAIN phases = DOMAIN s.phases /\ DOMAIN s.phases = 1..Len(s.phases)
  BY <1>3, <1>4
<1>8. phases \in [1..Len(s.phases) -> Phase]
  BY <1>6, <1>7
<1> HIDE DEF phases
<1>9. phases \in Seq(Phase)
  BY <1>3, <1>8, LenProperties, SeqDef
<1>10. QED
  BY <1>1, <1>6, <1>7, <1>9 DEF workers

\* A stream's workers have a table with the share of one of them in each phase.
LEMMA PlannedIngest ==
    ASSUME NEW s \in Scenarios, NEW spc \in Specs, NEW i \in DOMAIN Plan(s, spc).ingest
    PROVE  LET planned == Plan(s, spc).ingest[i]
               scaled  == ScaledStream(s.streams[i], spc)
           IN  /\ HasIngest(s) /\ i \in DOMAIN s.streams
               /\ planned.kind = "ingest" /\ planned.name = s.streams[i].name
               /\ planned.replicas = s.streams[i].replicas
               /\ planned.table \in Seq(Row) /\ DOMAIN planned.table = DOMAIN s.phases
               /\ \A j \in DOMAIN s.phases :
                     /\ planned.table[j].name = s.phases[j].name
                     /\ planned.table[j].rate
                           = TargetOf(scaled, s.phases[j].name) \div AtLeastOne(s.streams[i].replicas)
<1> DEFINE whole == Scaled(s, spc)
           scaled == ScaledStream(s.streams[i], spc)
           table == IngestRateTable(whole, scaled, SharedIndex)
           planned == Plan(s, spc).ingest[i]
<1>1. /\ whole.phases = [j \in DOMAIN s.phases |-> ScaledPhase(s.phases[j], spc)]
      /\ whole.streams = [j \in DOMAIN s.streams |-> ScaledStream(s.streams[j], spc)]
      /\ whole.declared = s.declared
  BY ScaledParts
<1>2. Plan(s, spc).ingest = IF HasIngest(whole) THEN IngestDeployments(whole) ELSE << >>
  BY DEF Plan
<1>3. HasIngest(whole) /\ i \in DOMAIN s.streams
  BY <1>1, <1>2 DEF IngestDeployments
<1>4. planned = [name |-> scaled.name, kind |-> "ingest", replicas |-> scaled.replicas,
                 table |-> table, mix |-> {}]
  BY <1>1, <1>2, <1>3 DEF IngestDeployments
<1>5. HasIngest(s)
  <2>1. s.streams \in Seq(ToSet(s.streams))
    BY ScenarioParts
  <2>2. s.streams # << >>
    BY <1>3, <2>1
  <2>3. QED
    BY <1>1, <1>3, <2>2 DEF HasIngest
<1>6. IsStream(s.streams[i])
  BY <1>3, ScenarioParts
<1>7. /\ scaled.name = s.streams[i].name /\ scaled.replicas = s.streams[i].replicas
      /\ IsStream(scaled)
  BY <1>6, ScaledStreamType
<1>8. s.phases \in Seq(Phase) /\ DOMAIN s.phases = 1..Len(s.phases) /\ Len(s.phases) \in Nat
  BY ScenarioParts, LenProperties
<1>9. ASSUME NEW j \in DOMAIN s.phases
      PROVE  whole.phases[j].name = s.phases[j].name /\ s.phases[j].name \in STRING
  <2>1. s.phases[j] \in Phase
    BY <1>8
  <2>2. QED
    BY <1>1, <2>1, ScaledPhaseType DEF Phase
<1>10. scaled.replicas \in Nat /\ scaled.ingest \in [DOMAIN scaled.ingest -> Nat]
  BY <1>7 DEF IsStream
<1> HIDE DEF scaled, whole
<1>11. \A phase : TargetOf(scaled, phase) \in Nat
  BY <1>10 DEF TargetOf
<1>12. ASSUME NEW j \in DOMAIN s.phases
       PROVE  /\ table[j] \in Row /\ table[j].name = s.phases[j].name
              /\ table[j].rate
                    = TargetOf(scaled, s.phases[j].name) \div AtLeastOne(scaled.replicas)
  <2>1. DOMAIN whole.phases = DOMAIN s.phases
    BY <1>1
  <2>2. table[j] = [name |-> s.phases[j].name,
                    rate |-> Share(TargetOf(scaled, s.phases[j].name),
                                   scaled.replicas, SharedIndex)]
    BY <1>9, <2>1 DEF IngestRateTable
  <2>3. /\ Share(TargetOf(scaled, s.phases[j].name), scaled.replicas, SharedIndex)
              = TargetOf(scaled, s.phases[j].name) \div AtLeastOne(scaled.replicas)
        /\ Share(TargetOf(scaled, s.phases[j].name), scaled.replicas, SharedIndex) \in Nat
    BY <1>10, <1>11, FirstShare
  <2>4. QED
    BY <1>9, <2>2, <2>3 DEF Row
<1>13. DOMAIN table = DOMAIN s.phases /\ table = [j \in DOMAIN s.phases |-> table[j]]
  BY <1>1 DEF IngestRateTable
<1>14. table \in [1..Len(s.phases) -> Row]
  BY <1>8, <1>12, <1>13
<1> HIDE DEF table
<1>15. table \in Seq(Row)
  BY <1>8, <1>14, SeqDef
<1>16. /\ planned.kind = "ingest" /\ planned.name = scaled.name
       /\ planned.replicas = scaled.replicas /\ planned.table = table
  BY <1>4
<1> HIDE DEF planned
<1>17. /\ planned.kind = "ingest" /\ planned.name = s.streams[i].name
       /\ planned.replicas = s.streams[i].replicas
       /\ planned.table \in Seq(Row) /\ DOMAIN planned.table = DOMAIN s.phases
  BY <1>7, <1>13, <1>15, <1>16
<1>18. \A j \in DOMAIN s.phases :
          /\ planned.table[j].name = s.phases[j].name
          /\ planned.table[j].rate
                = TargetOf(scaled, s.phases[j].name) \div AtLeastOne(s.streams[i].replicas)
  BY <1>7, <1>12, <1>16
<1>19. QED
  BY <1>3, <1>5, <1>17, <1>18 DEF planned, scaled

\* A query worker is one of those that the resource asks for.
LEMMA PlannedQuery ==
    ASSUME NEW s \in Scenarios, NEW spc \in Specs, NEW i \in DOMAIN Plan(s, spc).query
    PROVE  /\ Plan(s, spc).query[i].kind = "query"
           /\ Plan(s, spc).query[i].replicas \in Nat
           /\ Plan(s, spc).query[i].replicas <= TotalQueryReplicas(spc)
<1> DEFINE planned == QueryDeployments(Scaled(s, spc), spc)
<1>1. Plan(s, spc).query = planned
  BY DEF Plan
<1>2. /\ spc.replicas \in Nat /\ spc.grouped \in BOOLEAN
      /\ spc.groups \in Seq([name : STRING, replicas : Nat])
  BY PacedWorkerAssumption DEF Resource
<1>3. CASE spc.grouped
  <2>1. /\ i \in DOMAIN spc.groups
        /\ planned[i].kind = "query" /\ planned[i].replicas = spc.groups[i].replicas
    BY <1>1, <1>3 DEF QueryDeployments
  <2>2. DOMAIN spc.groups = 1..Len(spc.groups)
    BY <1>2
  <2>3. spc.groups[i] \in [name : STRING, replicas : Nat]
    BY <1>2, <2>1, <2>2, ElementOfSeq
  <2>4. spc.groups[i].replicas \in Nat
    BY <2>3
  <2>5. QED
    BY <1>1, <1>3, <2>1, <2>4, QueryWorkers
<1>4. CASE ~spc.grouped
  <2>1. i = 1 /\ planned[i].kind = "query" /\ planned[i].replicas = spc.replicas
    BY <1>1, <1>4 DEF QueryDeployments
  <2>2. QED
    BY <1>1, <1>2, <1>4, <2>1, QueryWorkers
<1>5. QED
  BY <1>3, <1>4

-----------------------------------------------------------------------------
(* Types *)

PlanInv ==
    /\ Phases \in Seq(Phase)
    /\ \A i \in DOMAIN plan.ingest : plan.ingest[i].table \in Seq(Row)
    /\ \A i \in DOMAIN plan.query : plan.query[i].kind = "query"
    /\ deployment.kind = "ingest" => deployment.table \in Seq(Row)

\* A worker at work has the rate of the last phase it has taken.
ProgressInv ==
    /\ stage # "Running" => pc = "none"
    /\ pc = "none" => announced = 0
    /\ pc \in {"none", "waiting"} => seen = 0 /\ surplus = 0
    /\ Working => seen >= 1 /\ rate = RateOf(Phases[seen])

\* Whoever sleeps for a token has earned it when he wakes.
WaitInv ==
    pc = "short" =>
        rate > 0 /\ lastRefill <= wake /\ Cost <= tokens + (wake - lastRefill) * rate

TypeInv == TypeOK /\ PlanInv /\ ProgressInv /\ WaitInv

LEMMA CostType == MilliPerOp \in Nat \ {0} /\ Ticks \in Nat \ {0} /\ Cost \in Nat \ {0}
BY LoadPlanAssumption, PacedWorkerAssumption DEF Cost

LEMMA BurstType ==
    ASSUME NEW r \in Nat
    PROVE  Burst(r) \in Nat /\ Cost <= Burst(r) /\ r <= Burst(r)
<1>1. /\ MilliPerOp \in Nat \ {0} /\ Ticks \in Nat \ {0}
  BY CostType
<1> DEFINE most == IF r > MilliPerOp THEN r ELSE MilliPerOp
<1>2. most \in Nat /\ MilliPerOp <= most /\ r <= most
  BY <1>1
<1>3. Burst(r) = most * Ticks
  BY DEF Burst
<1> HIDE DEF most
<1>4. most * Ticks \in Nat /\ MilliPerOp * Ticks <= most * Ticks /\ most <= most * Ticks
  BY <1>1, <1>2
<1>5. QED
  BY <1>2, <1>3, <1>4 DEF Cost

\* The longer the wait, the more is earned.
LEMMA Earnings ==
    ASSUME NEW r \in Nat, NEW a \in Nat, NEW b \in Nat, NEW c \in Nat, a <= b, b <= c
    PROVE  /\ (b - a) * r \in Nat /\ (c - a) * r \in Nat
           /\ (b - a) * r <= (c - a) * r
OBVIOUS

LEMMA RefilledType ==
    ASSUME TypeOK
    PROVE  /\ Refilled \in Nat /\ Refilled <= Burst(rate)
           /\ Refilled <= tokens + (now - lastRefill) * rate
           /\ Refilled \in {Burst(rate), tokens + (now - lastRefill) * rate}
<1>1. tokens \in Nat /\ rate \in Nat /\ now \in Nat /\ lastRefill \in Nat /\ lastRefill <= now
  BY PacedWorkerAssumption DEF TypeOK
<1>2. (now - lastRefill) * rate \in Nat
  BY <1>1, Earnings
<1>3. Burst(rate) \in Nat
  BY <1>1, BurstType
<1>4. QED
  BY <1>1, <1>2, <1>3 DEF Refilled, AtMost

\* Rounded up, the wait is long enough.
LEMMA WaitLength ==
    ASSUME NEW a \in Nat, NEW r \in Nat \ {0}
    PROVE  (a + r - 1) \div r \in Nat /\ a <= ((a + r - 1) \div r) * r
OBVIOUS

LEMMA RateOfType ==
    ASSUME NEW phase \in Phase, deployment.kind = "ingest" => deployment.table \in Seq(Row)
    PROVE  RateOf(phase) \in Nat
<1>1. CASE deployment.kind = "ingest"
  <2>1. RateIn(deployment.table, phase.name) \in Nat
    BY <1>1, RateFound
  <2>2. QED
    BY <1>1, <2>1, CostType DEF RateOf
<1>2. CASE deployment.kind # "ingest"
  BY <1>2 DEF RateOf, Phase
<1>3. QED
  BY <1>1, <1>2

LEMMA InitType == Init => TypeInv
<1> SUFFICES ASSUME Init
             PROVE  TypeInv
  OBVIOUS
<1>1. Phases = << >> /\ plan.ingest = << >> /\ plan.query = << >>
  BY DEF Init, NoPlan, Phases
<1>2. deployment.kind = ""
  BY DEF Init, NoDeployment
<1>3. TypeOK
  <2>1. Len(Phases) = 0
    BY <1>1
  <2>2. /\ now \in 0..MaxTime /\ since \in 0..now /\ lastRefill \in 0..now
        /\ announced \in 0..(Len(Phases) + 1) /\ seen \in 0..Len(Phases)
        /\ tokens \in Nat /\ rate \in Nat /\ surplus \in Nat /\ wake \in Nat
    BY <2>1, PacedWorkerAssumption DEF Init
  <2>3. /\ scenario \in Scenarios /\ spec \in Specs
        /\ edited \in BOOLEAN /\ stage \in Stages /\ pc \in States
    BY DEF Init, Stages, States
  <2>4. QED
    BY <2>2, <2>3 DEF TypeOK
<1>4. PlanInv
  <2>1. << >> \in Seq(Phase) /\ DOMAIN << >> = {}
    OBVIOUS
  <2>2. QED
    BY <1>1, <1>2, <2>1 DEF PlanInv
<1>5. ProgressInv /\ WaitInv
  BY DEF Init, ProgressInv, WaitInv, Working
<1>6. QED
  BY <1>3, <1>4, <1>5 DEF TypeInv

LEMMA SamePlan ==
    ASSUME PlanInv, UNCHANGED <<plan, deployment>>
    PROVE  /\ PlanInv' /\ Phases' = Phases
           /\ \A k : RateOf(Phases[k])' = RateOf(Phases[k])
BY DEF PlanInv, Phases, RateOf

\* The operator's steps come before any worker's.
LEMMA OperatorType ==
    ASSUME TypeInv, Operator
    PROVE  TypeInv'
<1> USE DEF clockVars, workerVars, bucketVars
<1>0. TypeOK /\ PlanInv /\ ProgressInv /\ WaitInv
  BY DEF TypeInv
<1>1. /\ stage # "Running" /\ UNCHANGED <<spec, now, clockVars, workerVars>>
      /\ scenario' \in Scenarios /\ edited' \in BOOLEAN /\ stage' \in Stages
  BY <1>0, PacedWorkerAssumption DEF Operator, Validate, EditScenario, Deploy, TypeOK, Stages
<1>2. pc = "none" /\ announced = 0 /\ seen = 0 /\ surplus = 0
  BY <1>0, <1>1 DEF ProgressInv
<1>3. PlanInv'
  <2>1. CASE Deploy
    <3>1. scenario \in Scenarios /\ spec \in Specs /\ plan' = Plan(scenario, spec)
      BY <1>0, <2>1 DEF TypeOK, Deploy
    <3>2. Phases' \in Seq(Phase)
      BY <3>1, PlannedPhases DEF Phases
    <3>3. \A i \in DOMAIN plan'.ingest : plan'.ingest[i].table \in Seq(Row)
      BY <3>1, PlannedIngest
    <3>4. \A i \in DOMAIN plan'.query : plan'.query[i].kind = "query"
      BY <3>1, PlannedQuery
    <3>5. deployment'.kind = "ingest" => deployment'.table \in Seq(Row)
      BY <1>0, <1>1 DEF PlanInv
    <3>6. QED
      BY <3>2, <3>3, <3>4, <3>5 DEF PlanInv
  <2>2. CASE UNCHANGED plan
    BY <1>0, <1>1, <2>2, SamePlan
  <2>3. QED
    BY <2>1, <2>2 DEF Operator, Validate, EditScenario
<1>4. Len(Phases') \in Nat
  BY <1>3, LenProperties DEF PlanInv
<1>5. TypeOK'
  <2>1. announced' \in 0..(Len(Phases') + 1) /\ seen' \in 0..Len(Phases')
    BY <1>1, <1>2, <1>4
  <2>2. QED
    BY <1>0, <1>1, <2>1 DEF TypeOK
<1>6. ProgressInv' /\ WaitInv'
  BY <1>1, <1>2 DEF ProgressInv, WaitInv, Working
<1>7. QED
  BY <1>3, <1>5, <1>6 DEF TypeInv

LEMMA ClockType ==
    ASSUME TypeInv, Announce \/ Tick
    PROVE  TypeInv'
<1> USE DEF runVars, clockVars, workerVars, bucketVars
<1>0. TypeOK /\ PlanInv /\ ProgressInv /\ WaitInv
  BY DEF TypeInv
<1>1. /\ UNCHANGED <<runVars, deployment, pc, seen, bucketVars, wake>>
      /\ pc # "none"
  BY DEF Announce, Tick
<1>2. /\ PlanInv' /\ Phases' = Phases
      /\ \A k : RateOf(Phases[k])' = RateOf(Phases[k])
  BY <1>0, <1>1, SamePlan
<1>3. Len(Phases) \in Nat
  BY <1>0, LenProperties DEF PlanInv
<1>4. /\ now \in 0..MaxTime /\ since \in 0..now /\ lastRefill \in 0..now
      /\ announced \in 0..(Len(Phases) + 1) /\ surplus \in Nat /\ rate \in Nat
      /\ MaxTime \in Nat
  BY <1>0, PacedWorkerAssumption DEF TypeOK
<1>5. CASE Announce
  <2>1. announced <= Len(Phases) /\ announced' = announced + 1 /\ since' = now
        /\ now' = now /\ surplus' = surplus
    BY <1>5 DEF Announce
  <2>2. /\ now' \in 0..MaxTime /\ since' \in 0..now' /\ lastRefill' \in 0..now'
        /\ announced' \in 0..(Len(Phases') + 1) /\ surplus' \in Nat
    BY <1>1, <1>2, <1>3, <1>4, <2>1
  <2>3. TypeOK'
    BY <1>0, <1>1, <1>2, <2>2 DEF TypeOK
  <2>4. ProgressInv' /\ WaitInv'
    BY <1>0, <1>1, <1>2, <2>1 DEF ProgressInv, WaitInv, Working
  <2>5. QED
    BY <1>2, <2>3, <2>4 DEF TypeInv
<1>6. CASE Tick
  <2>1. now < MaxTime /\ now' = now + 1 /\ UNCHANGED clockVars
        /\ surplus' = IF surplus > Pace THEN surplus - Pace ELSE 0
    BY <1>6 DEF Tick
  <2>2. Pace \in Nat
    BY <1>4, CostType DEF Pace
  <2>3. surplus' \in Nat /\ (surplus = 0 => surplus' = 0)
    BY <1>4, <2>1, <2>2
  <2>4. /\ now' \in 0..MaxTime /\ since' \in 0..now' /\ lastRefill' \in 0..now'
        /\ announced' \in 0..(Len(Phases') + 1)
    BY <1>1, <1>2, <1>4, <2>1
  <2>5. TypeOK'
    BY <1>0, <1>1, <1>2, <2>3, <2>4 DEF TypeOK
  <2>6. ProgressInv' /\ WaitInv'
    BY <1>0, <1>1, <1>2, <2>1, <2>3 DEF ProgressInv, WaitInv, Working
  <2>7. QED
    BY <1>2, <2>5, <2>6 DEF TypeInv
<1>7. QED
  BY <1>5, <1>6

\* A pod starts, and is in its first phase.
LEMMA StartType ==
    ASSUME TypeInv, StartWorker \/ FirstPhase
    PROVE  TypeInv'
<1> USE DEF runVars, clockVars, bucketVars
<1>0. TypeOK /\ PlanInv /\ ProgressInv /\ WaitInv
  BY DEF TypeInv
<1>1. CASE StartWorker
  <2>1. /\ UNCHANGED <<runVars, now, clockVars, seen, bucketVars, wake, surplus>>
        /\ stage = "Running" /\ pc = "none" /\ pc' = "waiting"
        /\ \/ \E i \in DOMAIN plan.ingest : deployment' = plan.ingest[i]
           \/ \E i \in DOMAIN plan.query : deployment' = plan.query[i]
    BY <1>1 DEF StartWorker
  <2>2. deployment'.kind = "ingest" => deployment'.table \in Seq(Row)
    BY <1>0, <2>1 DEF PlanInv
  <2>3. PlanInv' /\ Phases' = Phases
    BY <1>0, <2>1, <2>2 DEF PlanInv, Phases
  <2>4. TypeOK'
    BY <1>0, <2>1, <2>3 DEF TypeOK, States
  <2>5. ProgressInv' /\ WaitInv'
    BY <1>0, <2>1 DEF ProgressInv, WaitInv, Working
  <2>6. QED
    BY <2>3, <2>4, <2>5 DEF TypeInv
<1>2. CASE FirstPhase
  <2>1. /\ UNCHANGED <<runVars, now, clockVars, deployment, wake, surplus>>
        /\ pc = "waiting" /\ pc' = "poll" /\ Phases # << >> /\ seen' = 1
        /\ rate' = RateOf(Phases[1]) /\ tokens' = Burst(rate') /\ lastRefill' = now
    BY <1>2 DEF FirstPhase
  <2>2. PlanInv' /\ Phases' = Phases /\ \A k : RateOf(Phases[k])' = RateOf(Phases[k])
    BY <1>0, <2>1, SamePlan
  <2>3. Phases[1] \in Phase /\ 1 \in 0..Len(Phases)
    BY <1>0, <2>1 DEF PlanInv
  <2>4. rate' \in Nat
    BY <1>0, <2>1, <2>3, RateOfType DEF PlanInv
  <2>5. tokens' \in Nat
    BY <2>1, <2>4, BurstType
  <2>6. lastRefill' \in 0..now'
    BY <1>0, <2>1, PacedWorkerAssumption DEF TypeOK
  <2>7. TypeOK'
    BY <1>0, <2>1, <2>2, <2>3, <2>4, <2>5, <2>6 DEF TypeOK, States
  <2>8. ProgressInv' /\ WaitInv'
    BY <1>0, <2>1, <2>2 DEF ProgressInv, WaitInv, Working
  <2>9. QED
    BY <2>2, <2>7, <2>8 DEF TypeInv
<1>3. QED
  BY <1>1, <1>2

\* The bucket never owes a token: none is taken that is not there.
LEMMA BucketType ==
    ASSUME TypeInv, TakeToken \/ WaitOutQuiet \/ WaitForToken \/ QuietOver \/ TokenEarned
    PROVE  TypeInv'
<1> USE DEF runVars, clockVars, bucketVars
<1>0. TypeOK /\ PlanInv /\ ProgressInv /\ WaitInv
  BY DEF TypeInv
<1>1. /\ UNCHANGED <<runVars, now, clockVars, deployment, seen, rate, surplus>>
      /\ pc \in {"acquire", "quiet", "short"} /\ pc' \in {"execute", "quiet", "short"}
  BY DEF TakeToken, WaitOutQuiet, WaitForToken, QuietOver, TokenEarned, Refill, Sleep
<1>2. /\ PlanInv' /\ Phases' = Phases
      /\ \A k : RateOf(Phases[k])' = RateOf(Phases[k])
  BY <1>0, <1>1, SamePlan
<1>3. ProgressInv'
  BY <1>0, <1>1, <1>2 DEF ProgressInv, Working, States
<1>4. /\ Refilled \in Nat /\ Refilled <= Burst(rate) /\ Burst(rate) \in Nat
      /\ Refilled \in {Burst(rate), tokens + (now - lastRefill) * rate}
      /\ Cost \in Nat \ {0} /\ Cost <= Burst(rate)
      /\ tokens \in Nat /\ rate \in Nat /\ wake \in Nat /\ Ticks \in Nat
      /\ now \in Nat /\ lastRefill \in Nat /\ lastRefill <= now
  BY <1>0, RefilledType, BurstType, CostType, PacedWorkerAssumption DEF TypeOK
<1>5. /\ tokens' \in Nat /\ lastRefill' \in {lastRefill, now} /\ wake' \in Nat
      /\ WaitInv'
  <2>1. CASE TakeToken
    <3>1. /\ Cost <= Refilled /\ tokens' = Refilled - Cost /\ lastRefill' = now
          /\ wake' = wake /\ pc' # "short"
      BY <1>4, <2>1 DEF TakeToken, Refill
    <3>2. QED
      BY <1>4, <3>1 DEF WaitInv
  <2>2. CASE WaitOutQuiet
    <3>1. /\ tokens' = Refilled /\ lastRefill' = now /\ wake' = now + Ticks /\ pc' # "short"
      BY <2>2 DEF WaitOutQuiet, Refill, Sleep
    <3>2. QED
      BY <1>4, <3>1 DEF WaitInv
  <2>3. CASE WaitForToken
    <3> DEFINE missing == Cost - Refilled
               ticks == (missing + rate - 1) \div rate
    <3>1. /\ Refilled < Cost /\ rate > 0 /\ tokens' = Refilled /\ lastRefill' = now
          /\ wake' = now + (Cost - Refilled + rate - 1) \div rate /\ rate' = rate
      BY <2>3 DEF WaitForToken, Refill, Sleep
    <3>2. missing \in Nat /\ rate \in Nat \ {0}
      BY <1>4, <3>1
    <3>3. wake' = now + ticks
      BY <3>1
    <3> HIDE DEF missing
    <3>4. ticks \in Nat /\ missing <= ticks * rate
      BY <3>2, WaitLength
    <3> HIDE DEF ticks
    <3>5. wake' \in Nat /\ now <= wake' /\ wake' - now = ticks
      BY <1>4, <3>3, <3>4
    <3>6. Cost <= Refilled + ticks * rate
      <4>1. ticks * rate \in Nat
        BY <3>2, <3>4
      <4>2. QED
        BY <1>4, <3>4, <4>1 DEF missing
    <3>7. WaitInv'
      BY <3>1, <3>5, <3>6 DEF WaitInv, Cost
    <3>8. QED
      BY <1>4, <3>1, <3>5, <3>7
  <2>4. CASE QuietOver
    BY <1>4, <2>4 DEF QuietOver, WaitInv
  <2>5. CASE TokenEarned
    <3>1. /\ pc = "short" /\ now >= wake /\ tokens' = Refilled - Cost /\ lastRefill' = now
          /\ wake' = wake /\ pc' # "short"
      BY <2>5 DEF TokenEarned, Refill, TokensAfterWait
    <3>2. lastRefill <= wake /\ Cost <= tokens + (wake - lastRefill) * rate
      BY <1>0, <3>1 DEF WaitInv
    <3>3. /\ (wake - lastRefill) * rate \in Nat /\ (now - lastRefill) * rate \in Nat
          /\ (wake - lastRefill) * rate <= (now - lastRefill) * rate
      BY <1>4, <3>1, <3>2, Earnings
    <3>4. Cost <= tokens + (now - lastRefill) * rate
      BY <1>4, <3>2, <3>3
    <3>5. Cost <= Refilled
      BY <1>4, <3>4
    <3>6. QED
      BY <1>4, <3>1, <3>5 DEF WaitInv
  <2>6. QED
    BY <2>1, <2>2, <2>3, <2>4, <2>5
<1>6. lastRefill' \in 0..now'
  BY <1>1, <1>4, <1>5
<1>7. TypeOK'
  BY <1>0, <1>1, <1>2, <1>5, <1>6 DEF TypeOK, States
<1>8. QED
  BY <1>2, <1>3, <1>5, <1>7 DEF TypeInv

LEMMA LoopType ==
    ASSUME TypeInv, TakeTransition \/ TakeRunComplete \/ NoEvent \/ Execute
    PROVE  TypeInv'
<1> USE DEF runVars, clockVars, bucketVars
<1>0. TypeOK /\ PlanInv /\ ProgressInv /\ WaitInv
  BY DEF TypeInv
<1>1. /\ UNCHANGED <<runVars, now, clockVars, deployment, tokens, lastRefill, wake>>
      /\ pc \in {"waiting", "poll", "execute"} /\ pc' \in {"acquire", "poll", "done"}
  BY DEF TakeTransition, TakeRunComplete, NoEvent, Execute
<1>2. /\ PlanInv' /\ Phases' = Phases
      /\ \A k : RateOf(Phases[k])' = RateOf(Phases[k])
  BY <1>0, <1>1, SamePlan
<1>3. WaitInv'
  BY <1>1 DEF WaitInv
<1>4. CASE TakeTransition
  <2>1. /\ seen < Len(Phases) /\ seen' = seen + 1 /\ rate' = RateOf(Phases[seen + 1])
        /\ surplus' = surplus /\ pc = "poll" /\ pc' = "acquire"
    BY <1>4 DEF TakeTransition, SetRate
  <2>2. Len(Phases) \in Nat /\ seen \in 0..Len(Phases)
    BY <1>0, LenProperties DEF PlanInv, TypeOK
  <2>3. seen' \in 0..Len(Phases') /\ seen' \in 1..Len(Phases)
    BY <1>2, <2>1, <2>2
  <2>4. Phases[seen'] \in Phase
    BY <1>0, <2>3, ElementOfSeq DEF PlanInv
  <2>5. rate' = RateOf(Phases[seen']) /\ rate' \in Nat
    BY <1>0, <2>1, <2>4, RateOfType DEF PlanInv
  <2>6. TypeOK'
    BY <1>0, <1>1, <1>2, <2>1, <2>3, <2>5 DEF TypeOK, States
  <2>7. ProgressInv'
    <3>1. RateOf(Phases[seen])' = rate'
      BY <1>1, <2>5 DEF RateOf, Phases
    <3>2. QED
      BY <1>0, <1>1, <2>1, <2>3, <3>1 DEF ProgressInv
  <2>8. QED
    BY <1>2, <1>3, <2>6, <2>7 DEF TypeInv
<1>5. CASE TakeRunComplete \/ NoEvent \/ Execute
  <2>1. /\ UNCHANGED <<seen, rate>> /\ (surplus' = surplus \/ surplus' = surplus + Cost)
        /\ pc = "waiting" => pc' = "done"
    BY <1>5 DEF TakeRunComplete, NoEvent, Execute
  <2>2. surplus' \in Nat
    BY <1>0, <2>1, CostType DEF TypeOK
  <2>3. TypeOK'
    BY <1>0, <1>1, <1>2, <2>1, <2>2 DEF TypeOK, States
  <2>4. ProgressInv'
    <3>1. Working' => Working
      BY <1>1, <2>1 DEF Working, States
    <3>2. QED
      BY <1>0, <1>1, <1>2, <2>1, <3>1 DEF ProgressInv
  <2>5. QED
    BY <1>2, <1>3, <2>3, <2>4 DEF TypeInv
<1>6. QED
  BY <1>4, <1>5

LEMMA NextType == TypeInv /\ [Next]_vars => TypeInv'
<1> SUFFICES ASSUME TypeInv, [Next]_vars
             PROVE  TypeInv'
  OBVIOUS
<1>1. CASE Operator
  BY <1>1, OperatorType
<1>2. CASE Announce \/ Tick
  BY <1>2, ClockType
<1>3. CASE Worker
  BY <1>3, StartType, BucketType, LoopType DEF Worker
<1>4. CASE UNCHANGED vars
  <2>1. PlanInv' /\ Phases' = Phases /\ \A k : RateOf(Phases[k])' = RateOf(Phases[k])
    BY <1>4, SamePlan DEF TypeInv, vars, runVars, workerVars
  <2>2. QED
    BY <1>4, <2>1 DEF TypeInv, TypeOK, ProgressInv, WaitInv, Working,
                      vars, runVars, clockVars, workerVars, bucketVars
<1>5. QED
  BY <1>1, <1>2, <1>3, <1>4 DEF Next

\* Type correctness.  The bucket never owes tokens (TokenBucketRateLimiter::acquire
\* subtracts after a wait without looking), for any rates and any resolution of the clock.
THEOREM TypeCorrect == Spec => []TypeOK
<1>1. TypeInv => TypeOK
  BY DEF TypeInv
<1>2. QED
  BY <1>1, InitType, NextType, PTL DEF Spec

-----------------------------------------------------------------------------
(* The pace *)

\* One of a sequence of numbers is the greatest.
LEMMA GreatestNumber ==
    ASSUME NEW numbers \in Seq(Nat), numbers # << >>
    PROVE  \E m \in 1..Len(numbers) : \A i \in 1..Len(numbers) : numbers[i] <= numbers[m]
<1> DEFINE T == {n \in Nat : n + 1 <= Len(numbers) =>
                    \E m \in 1..(n + 1) : \A i \in 1..(n + 1) : numbers[i] <= numbers[m]}
<1>1. Len(numbers) \in Nat \ {0} /\ \A i \in 1..Len(numbers) : numbers[i] \in Nat
  BY ElementOfSeq
<1>2. 0 \in T
  BY <1>1
<1>3. ASSUME NEW n \in Nat, n \in T
      PROVE  n + 1 \in T
  <2> SUFFICES ASSUME n + 2 <= Len(numbers)
               PROVE  \E m \in 1..(n + 2) : \A i \in 1..(n + 2) : numbers[i] <= numbers[m]
    OBVIOUS
  <2>1. PICK m \in 1..(n + 1) : \A i \in 1..(n + 1) : numbers[i] <= numbers[m]
    BY <1>1, <1>3
  <2>2. CASE numbers[n + 2] <= numbers[m]
    <3>1. \A i \in 1..(n + 2) : numbers[i] <= numbers[m]
      BY <2>1, <2>2
    <3>2. QED
      BY <3>1
  <2>3. CASE ~(numbers[n + 2] <= numbers[m])
    <3>1. \A i \in 1..(n + 2) : numbers[i] <= numbers[n + 2]
      BY <1>1, <2>1, <2>3
    <3>2. QED
      BY <3>1
  <2>4. QED
    BY <2>2, <2>3
<1> HIDE DEF T
<1>4. \A n \in Nat : n \in T
  BY <1>2, <1>3, NumbersFrom
<1>5. PICK n \in Nat : n + 1 = Len(numbers)
  <2>1. Len(numbers) - 1 \in Nat /\ (Len(numbers) - 1) + 1 = Len(numbers)
    BY <1>1
  <2>2. QED
    BY <2>1
<1>6. n + 1 <= Len(numbers) => \E m \in 1..(n + 1) : \A i \in 1..(n + 1) : numbers[i] <= numbers[m]
  BY <1>4 DEF T
<1>7. n + 1 <= Len(numbers)
  BY <1>1, <1>5
<1>8. \E m \in 1..(n + 1) : \A i \in 1..(n + 1) : numbers[i] <= numbers[m]
  BY <1>6, <1>7, Zenon
<1>9. QED
  BY <1>5, <1>8, Zenon

LEMMA GreatestBurst ==
    ASSUME PlanInv, Phases # << >>
    PROVE  /\ MaxBurst \in Nat /\ Cost <= MaxBurst
           /\ \A i \in DOMAIN Phases : Burst(RateOf(Phases[i])) <= MaxBurst
<1> DEFINE bursts == [i \in DOMAIN Phases |-> Burst(RateOf(Phases[i]))]
           all == {Burst(RateOf(Phases[i])) : i \in DOMAIN Phases}
<1>1. /\ Phases \in Seq(Phase) /\ DOMAIN Phases = 1..Len(Phases)
      /\ Len(Phases) \in Nat \ {0}
  BY DEF PlanInv
<1>2. ASSUME NEW i \in DOMAIN Phases
      PROVE  bursts[i] \in Nat /\ Cost <= bursts[i] /\ bursts[i] = Burst(RateOf(Phases[i]))
  <2>1. Phases[i] \in Phase
    BY <1>1, ElementOfSeq
  <2>2. RateOf(Phases[i]) \in Nat
    BY <2>1, RateOfType DEF PlanInv
  <2>3. QED
    BY <2>2, BurstType
<1>3. all = {bursts[i] : i \in DOMAIN Phases}
  OBVIOUS
<1>4. bursts = [i \in 1..Len(Phases) |-> bursts[i]]
  BY <1>1
<1> HIDE DEF bursts
<1>5. bursts \in Seq(Nat) /\ Len(bursts) = Len(Phases) /\ bursts # << >>
  BY <1>1, <1>2, <1>4
<1>6. PICK m \in 1..Len(bursts) : \A i \in 1..Len(bursts) : bursts[i] <= bursts[m]
  BY <1>5, GreatestNumber
<1>7. bursts[m] \in all /\ \A b \in all : bursts[m] >= b
  BY <1>1, <1>2, <1>3, <1>5, <1>6
<1>8. MaxBurst \in all /\ \A b \in all : MaxBurst >= b
  <2>1. MaxBurst = CHOOSE x \in all : \A y \in all : x >= y
    BY DEF MaxBurst, Max
  <2> HIDE DEF all
  <2>2. QED
    BY <1>7, <2>1
<1>9. \A i \in DOMAIN Phases : bursts[i] <= MaxBurst
  BY <1>1, <1>2, <1>3, <1>8
<1>10. PICK k \in DOMAIN Phases : MaxBurst = bursts[k]
  BY <1>3, <1>8
<1>11. QED
  BY <1>2, <1>9, <1>10

LEMMA SameBurst ==
    ASSUME UNCHANGED <<plan, deployment>>
    PROVE  MaxBurst' = MaxBurst
BY DEF MaxBurst, RateOf, Phases

\* What a worker is ahead of its rates and what it could execute at once are together
\* no more than a burst for every phase it has taken, and the operation at hand.  While
\* it waits out a quiet second, it pays for the operation that it will execute without
\* a token.
Owed == IF pc = "execute" THEN Cost ELSE 0

StillQuiet == IF wake > now THEN (wake - now) * MilliPerOp ELSE 0

PaceInv ==
    Working =>
        /\ pc # "quiet" => surplus + Refilled + Owed <= seen * MaxBurst + Cost
        /\ pc = "quiet" =>
              /\ rate = 0 /\ Refilled < Cost /\ wake - now <= Ticks
              /\ surplus + Refilled <= seen * MaxBurst + StillQuiet

\* The numbers of a worker at work.
LEMMA WorkingNumbers ==
    ASSUME TypeInv, Working
    PROVE  /\ seen \in 1..Len(Phases) /\ Phases # << >>
           /\ MaxBurst \in Nat /\ Cost <= MaxBurst /\ Burst(rate) <= MaxBurst
           /\ MaxBurst <= seen * MaxBurst /\ seen * MaxBurst \in Nat
           /\ Refilled \in Nat /\ Refilled <= Burst(rate) /\ Burst(rate) \in Nat
           /\ surplus \in Nat /\ tokens \in Nat /\ rate \in Nat /\ wake \in Nat
           /\ now \in Nat /\ lastRefill \in Nat /\ lastRefill <= now
           /\ Cost \in Nat \ {0} /\ Ticks \in Nat \ {0} /\ MilliPerOp \in Nat \ {0}
<1>0. TypeOK /\ PlanInv /\ ProgressInv
  BY DEF TypeInv
<1>1. Phases \in Seq(Phase) /\ Len(Phases) \in Nat /\ DOMAIN Phases = 1..Len(Phases)
  BY <1>0, LenProperties DEF PlanInv
<1>2. seen \in 1..Len(Phases) /\ rate = RateOf(Phases[seen])
  BY <1>0, <1>1 DEF TypeOK, ProgressInv
<1>3. Phases # << >>
  BY <1>1, <1>2
<1>4. MaxBurst \in Nat /\ Cost <= MaxBurst /\ Burst(rate) <= MaxBurst
  BY <1>0, <1>1, <1>2, <1>3, GreatestBurst
<1>5. MaxBurst <= seen * MaxBurst /\ seen * MaxBurst \in Nat
  BY <1>1, <1>2, <1>4
<1>6. /\ surplus \in Nat /\ tokens \in Nat /\ rate \in Nat /\ wake \in Nat
      /\ now \in Nat /\ lastRefill \in Nat /\ lastRefill <= now
  BY <1>0, PacedWorkerAssumption DEF TypeOK
<1>7. QED
  BY <1>0, <1>2, <1>3, <1>4, <1>5, <1>6, RefilledType, BurstType, CostType

\* A bucket that is refilled now holds what is left in it.
LEMMA RefilledNow ==
    ASSUME TypeInv, Working, NEW left \in Nat, left <= Refilled, Refill(left), now' = now
    PROVE  Refilled' = left
<1>1. /\ Refilled \in Nat /\ Refilled <= Burst(rate) /\ Burst(rate) \in Nat
      /\ rate \in Nat /\ now \in Nat
  BY WorkingNumbers
<1>2. tokens' = left /\ lastRefill' = now /\ rate' = rate
  BY DEF Refill
<1>3. Refilled' = AtMost(left + (now - now) * rate, Burst(rate))
  BY <1>2 DEF Refilled
<1>4. (now - now) * rate = 0
  BY <1>1
<1>5. QED
  BY <1>1, <1>3, <1>4 DEF AtMost

LEMMA SameBucket ==
    ASSUME UNCHANGED <<tokens, rate, lastRefill, now>>
    PROVE  Refilled' = Refilled
BY DEF Refilled

\* A tick earns no more than the rate, and nothing at rate 0.
LEMMA TickEarns ==
    ASSUME TypeInv, Working, UNCHANGED bucketVars, now' = now + 1
    PROVE  /\ Refilled' <= Refilled + rate
           /\ rate = 0 => Refilled' = Refilled
           /\ Refilled' <= Burst(rate) /\ Refilled' \in Nat
<1>1. /\ tokens \in Nat /\ rate \in Nat /\ Burst(rate) \in Nat
      /\ now \in Nat /\ lastRefill \in Nat /\ lastRefill <= now
  BY WorkingNumbers
<1> DEFINE before == (now - lastRefill) * rate
           after == ((now + 1) - lastRefill) * rate
<1>2. before \in Nat /\ after = before + rate
  BY <1>1
<1>3. Refilled = AtMost(tokens + before, Burst(rate))
  BY DEF Refilled
<1>4. Refilled' = AtMost(tokens + after, Burst(rate))
  BY DEF Refilled, bucketVars
<1> HIDE DEF before, after
<1>5. QED
  BY <1>1, <1>2, <1>3, <1>4 DEF AtMost

LEMMA Balance ==
    \A s, r, o, b, c \in Nat :
        (s + r <= b /\ o = c) \/ (s + r <= b + c /\ o = 0) => s + r + o <= b + c
OBVIOUS

LEMMA BucketPace ==
    ASSUME TypeInv, PaceInv,
           TakeToken \/ WaitOutQuiet \/ WaitForToken \/ QuietOver \/ TokenEarned
    PROVE  PaceInv'
<1>1. /\ UNCHANGED <<plan, now, deployment, seen, rate, surplus>>
      /\ pc \in {"acquire", "quiet", "short"} /\ pc' \in {"execute", "quiet", "short"}
  BY DEF TakeToken, WaitOutQuiet, WaitForToken, QuietOver, TokenEarned, Refill, Sleep,
         runVars, bucketVars
<1>2. Working /\ MaxBurst' = MaxBurst
  BY <1>1, SameBurst DEF Working, States
<1> DEFINE bound == seen * MaxBurst
<1>3. bound' = bound
  BY <1>1, <1>2
<1>4. /\ surplus \in Nat /\ Refilled \in Nat /\ bound \in Nat /\ MaxBurst \in Nat
      /\ Cost \in Nat \ {0} /\ Ticks \in Nat /\ MilliPerOp \in Nat
      /\ now \in Nat /\ wake \in Nat
  BY <1>2, WorkingNumbers
<1>5. pc # "quiet" => surplus + Refilled <= bound + Cost
  <2>1. pc # "quiet" => Owed = 0
    BY <1>1 DEF Owed
  <2>2. QED
    BY <1>2, <1>4, <2>1 DEF PaceInv
<1>6. pc = "quiet" => rate = 0 /\ surplus + Refilled <= bound + StillQuiet
  BY <1>2 DEF PaceInv
<1> HIDE DEF bound
<1>7. /\ Refilled' \in Nat
      /\ \/ pc' = "execute" /\ surplus' + Refilled' <= bound
         \/ pc' = "short" /\ surplus' + Refilled' <= bound + Cost
         \/ /\ pc' = "quiet" /\ rate' = 0 /\ Refilled' < Cost /\ wake' - now' <= Ticks
            /\ surplus' + Refilled' <= bound + StillQuiet'
  <2>1. CASE TakeToken
    <3>1. /\ Cost <= Refilled /\ Refill(Refilled - Cost)
          /\ pc = "acquire" /\ pc' = "execute"
      BY <1>4, <2>1 DEF TakeToken
    <3>2. Refilled' = Refilled - Cost
      BY <1>1, <1>2, <1>4, <3>1, RefilledNow
    <3>3. QED
      BY <1>1, <1>4, <1>5, <3>1, <3>2
  <2>2. CASE WaitOutQuiet
    <3>1. /\ Refilled < Cost /\ rate = 0 /\ Refill(Refilled)
          /\ pc = "acquire" /\ pc' = "quiet" /\ wake' = now + Ticks
      BY <2>2 DEF WaitOutQuiet, Sleep
    <3>2. Refilled' = Refilled
      BY <1>1, <1>2, <1>4, <3>1, RefilledNow
    <3>3. StillQuiet' = Cost
      <4>1. wake' - now' = Ticks /\ (Ticks > 0 => wake' > now') /\ Ticks > 0
        BY <1>1, <1>4, <3>1, CostType
      <4>2. StillQuiet' = Ticks * MilliPerOp
        BY <4>1 DEF StillQuiet
      <4>3. QED
        BY <1>4, <4>2 DEF Cost
    <3>4. QED
      BY <1>1, <1>4, <1>5, <3>1, <3>2, <3>3
  <2>3. CASE WaitForToken
    <3>1. Refill(Refilled) /\ pc = "acquire" /\ pc' = "short"
      BY <2>3 DEF WaitForToken, Sleep
    <3>2. Refilled' = Refilled
      BY <1>1, <1>2, <1>4, <3>1, RefilledNow
    <3>3. QED
      BY <1>1, <1>4, <1>5, <3>1, <3>2
  <2>4. CASE QuietOver
    <3>1. pc = "quiet" /\ now >= wake /\ pc' = "execute" /\ UNCHANGED bucketVars
      BY <2>4 DEF QuietOver
    <3>2. Refilled' = Refilled
      BY <1>1, <3>1, SameBucket DEF bucketVars
    <3>3. StillQuiet = 0
      BY <1>4, <3>1 DEF StillQuiet
    <3>4. QED
      BY <1>1, <1>4, <1>6, <3>1, <3>2, <3>3
  <2>5. CASE TokenEarned
    <3>1. Refill(Refilled - Cost) /\ pc = "short" /\ pc' = "execute"
      BY <2>5 DEF TokenEarned, TokensAfterWait
    <3>2. Refilled - Cost \in Nat
      <4>1. TypeInv'
        BY <2>5, BucketType
      <4>2. QED
        BY <3>1, <4>1 DEF Refill, TypeInv, TypeOK
    <3>3. Refilled' = Refilled - Cost
      BY <1>1, <1>2, <1>4, <3>1, <3>2, RefilledNow
    <3>4. QED
      BY <1>1, <1>4, <1>5, <3>1, <3>2, <3>3
  <2>6. QED
    BY <2>1, <2>2, <2>3, <2>4, <2>5
<1>8. Owed' = IF pc' = "execute" THEN Cost ELSE 0
  BY DEF Owed, Cost
<1>9. /\ pc' # "quiet" => surplus' + Refilled' + Owed' <= bound' + Cost
      /\ pc' = "quiet" =>
            /\ rate' = 0 /\ Refilled' < Cost /\ wake' - now' <= Ticks
            /\ surplus' + Refilled' <= bound' + StillQuiet'
  <2>1. surplus' \in Nat /\ Refilled' \in Nat /\ bound' \in Nat /\ Owed' \in Nat /\ Cost \in Nat
    BY <1>1, <1>3, <1>4, <1>7, <1>8
  <2>2. pc' # "quiet" =>
           \/ surplus' + Refilled' <= bound' /\ Owed' = Cost
           \/ surplus' + Refilled' <= bound' + Cost /\ Owed' = 0
    BY <1>1, <1>3, <1>7, <1>8
  <2>3. pc' # "quiet" => surplus' + Refilled' + Owed' <= bound' + Cost
    BY <2>1, <2>2, Balance
  <2>4. QED
    BY <1>3, <1>7, <2>3
<1>10. QED
  BY <1>9 DEF PaceInv, bound, Cost

LEMMA LoopPace ==
    ASSUME TypeInv, PaceInv, TakeTransition \/ TakeRunComplete \/ NoEvent \/ Execute
    PROVE  PaceInv'
<1>1. /\ UNCHANGED <<plan, now, deployment, tokens, lastRefill>>
      /\ pc \in {"waiting", "poll", "execute"} /\ pc' \in {"acquire", "poll", "done"}
  BY DEF TakeTransition, TakeRunComplete, NoEvent, Execute, runVars, bucketVars
<1>2. CASE TakeRunComplete
  BY <1>2 DEF TakeRunComplete, PaceInv, Working
<1>3. MaxBurst' = MaxBurst
  BY <1>1, SameBurst
<1>4. CASE TakeTransition
  <2>1. /\ pc = "poll" /\ pc' = "acquire" /\ seen' = seen + 1 /\ surplus' = surplus
    BY <1>4 DEF TakeTransition
  <2>2. Working
    BY <2>1 DEF Working, States
  <2>3. /\ surplus \in Nat /\ Refilled \in Nat /\ MaxBurst \in Nat /\ seen \in Nat
        /\ seen * MaxBurst \in Nat /\ Cost \in Nat
    BY <2>2, WorkingNumbers
  <2>4. surplus + Refilled <= seen * MaxBurst + Cost
    BY <2>1, <2>2, <2>3 DEF PaceInv, Owed
  <2>5. (seen + 1) * MaxBurst = seen * MaxBurst + MaxBurst
    BY <2>3
  <2>6. Refilled' \in Nat /\ Refilled' <= MaxBurst
    <3>1. TypeInv'
      BY <1>4, LoopType
    <3>2. /\ tokens \in Nat /\ now \in Nat /\ lastRefill \in Nat /\ lastRefill <= now
      BY <2>2, WorkingNumbers
    <3>3. rate' \in Nat /\ seen' \in 1..Len(Phases) /\ rate' = RateOf(Phases[seen'])
      <4>1. Working'
        BY <2>1 DEF Working, States
      <4>2. Phases' = Phases /\ \A k : RateOf(Phases[k])' = RateOf(Phases[k])
        BY <1>1, SamePlan DEF TypeInv
      <4>3. rate' \in Nat /\ seen' \in 0..Len(Phases') /\ seen' >= 1
        BY <3>1, <4>1 DEF TypeInv, TypeOK, ProgressInv
      <4>4. rate' = RateOf(Phases[seen'])
        BY <1>4, <2>1 DEF TakeTransition, SetRate
      <4>5. Len(Phases) \in Nat
        BY LenProperties DEF TypeInv, PlanInv
      <4>6. QED
        BY <4>2, <4>3, <4>4, <4>5
    <3>4. Burst(rate') \in Nat /\ Burst(rate') <= MaxBurst
      <4>1. DOMAIN Phases = 1..Len(Phases) /\ Phases # << >>
        BY <3>3 DEF TypeInv, PlanInv
      <4>2. QED
        BY <3>3, <4>1, BurstType, GreatestBurst DEF TypeInv
    <3>5. (now - lastRefill) * rate' \in Nat
      BY <3>2, <3>3, Earnings
    <3>6. Refilled' = AtMost(tokens + (now - lastRefill) * rate', Burst(rate'))
      BY <1>1 DEF Refilled
    <3>7. QED
      BY <2>3, <3>2, <3>4, <3>5, <3>6 DEF AtMost
  <2>7. surplus' + Refilled' <= seen' * MaxBurst' + Cost
    <3>1. seen' * MaxBurst' = seen * MaxBurst + MaxBurst
      BY <1>3, <2>1, <2>5
    <3>2. QED
      BY <2>1, <2>3, <2>4, <2>6, <3>1
  <2>8. Owed' = 0
    BY <2>1 DEF Owed
  <2>9. QED
    BY <2>1, <2>3, <2>6, <2>7, <2>8 DEF PaceInv, Cost
<1>5. CASE NoEvent \/ Execute
  <2>1. /\ pc' # "quiet" /\ pc' # "execute" /\ UNCHANGED <<seen, rate>>
        /\ pc \in {"poll", "execute"}
    BY <1>5 DEF NoEvent, Execute, bucketVars
  <2>2. Working
    BY <2>1 DEF Working, States
  <2>3. /\ surplus \in Nat /\ Refilled \in Nat /\ Owed \in Nat
        /\ seen * MaxBurst \in Nat /\ Cost \in Nat
    BY <2>2, WorkingNumbers DEF Owed
  <2>4. surplus' = surplus + Owed
    <3>1. CASE NoEvent
      BY <2>3, <3>1 DEF NoEvent, Owed
    <3>2. CASE Execute
      BY <3>2 DEF Execute, Owed
    <3>3. QED
      BY <1>5, <3>1, <3>2
  <2>5. surplus + Refilled + Owed <= seen * MaxBurst + Cost
    BY <2>1, <2>2 DEF PaceInv
  <2>6. Refilled' = Refilled
    BY <1>1, <2>1, SameBucket
  <2>7. Owed' = 0
    BY <2>1 DEF Owed
  <2>8. surplus' + Refilled' + Owed' <= seen' * MaxBurst' + Cost
    <3>1. seen' * MaxBurst' = seen * MaxBurst
      BY <1>3, <2>1
    <3>2. QED
      BY <2>3, <2>5, <2>6, <2>7, <2>4, <3>1
  <2>9. QED
    BY <2>1, <2>8 DEF PaceInv, Cost
<1>6. QED
  BY <1>2, <1>4, <1>5

\* With every tick the worker falls back by its pace, and earns at most its rate.
LEMMA TickPace ==
    ASSUME TypeInv, PaceInv, Tick
    PROVE  PaceInv'
<1> SUFFICES ASSUME Working
             PROVE  PaceInv'
  <2>1. pc' = pc
    BY DEF Tick
  <2>2. QED
    BY <2>1 DEF PaceInv, Working
<1>1. /\ UNCHANGED <<plan, deployment, pc, seen, bucketVars, rate, wake>>
      /\ now' = now + 1
      /\ surplus' = IF surplus > Pace THEN surplus - Pace ELSE 0
  BY DEF Tick, runVars, bucketVars
<1>2. MaxBurst' = MaxBurst
  BY <1>1, SameBurst
<1> DEFINE bound == seen * MaxBurst
           filled == Refilled'
           still == StillQuiet'
<1>3. bound' = bound
  BY <1>1, <1>2
<1>4. /\ surplus \in Nat /\ Refilled \in Nat /\ bound \in Nat /\ MaxBurst \in Nat
      /\ Cost \in Nat \ {0} /\ MilliPerOp \in Nat \ {0} /\ rate \in Nat
      /\ Cost <= bound /\ Burst(rate) <= bound /\ Burst(rate) \in Nat
      /\ now \in Nat /\ wake \in Nat /\ Ticks \in Nat
  BY WorkingNumbers
<1>5. /\ filled <= Refilled + rate /\ (rate = 0 => filled = Refilled)
      /\ filled <= Burst(rate) /\ filled \in Nat
  BY <1>1, TickEarns
<1>6. Owed' = Owed /\ Owed \in {0, Cost}
  BY <1>1 DEF Owed, Cost
<1>7. Pace = (IF rate = 0 THEN MilliPerOp ELSE rate)
  BY DEF Pace
<1>8. /\ pc # "quiet" => surplus + Refilled + Owed <= bound + Cost
      /\ pc = "quiet" => /\ rate = 0 /\ Refilled < Cost /\ wake - now <= Ticks
                         /\ surplus + Refilled <= bound + StillQuiet
  BY DEF PaceInv
<1> HIDE DEF bound, filled, still
<1>9. CASE pc # "quiet"
  <2>1. surplus' + filled + Owed <= bound + Cost
    <3>1. CASE surplus > Pace
      <4>1. surplus' = surplus - Pace
        BY <1>1, <3>1
      <4>2. filled <= Refilled + Pace
        BY <1>4, <1>5, <1>7
      <4>3. Pace \in Nat /\ Owed \in Nat
        BY <1>4, <1>6, <1>7
      <4>4. QED
        BY <1>4, <1>5, <1>8, <1>9, <4>1, <4>2, <4>3
    <3>2. CASE ~(surplus > Pace)
      <4>1. surplus' = 0
        BY <1>1, <3>2
      <4>2. QED
        BY <1>4, <1>5, <1>6, <4>1
    <3>3. QED
      BY <3>1, <3>2
  <2>2. surplus' + Refilled' + Owed' <= seen' * MaxBurst' + Cost
    BY <1>3, <1>6, <2>1 DEF filled, bound
  <2>3. QED
    BY <1>1, <1>9, <2>2 DEF PaceInv, Cost
<1>10. CASE pc = "quiet"
  <2>1. filled = Refilled /\ Pace = MilliPerOp
    BY <1>5, <1>7, <1>8, <1>10
  <2>2. still \in Nat /\ StillQuiet <= still + MilliPerOp
    <3>1. StillQuiet = IF wake > now THEN (wake - now) * MilliPerOp ELSE 0
      BY DEF StillQuiet
    <3>2. still = IF wake > now + 1 THEN (wake - (now + 1)) * MilliPerOp ELSE 0
      BY <1>1 DEF still, StillQuiet
    <3>3. CASE wake > now + 1
      <4>1. /\ (wake - (now + 1)) * MilliPerOp \in Nat
            /\ (wake - now) * MilliPerOp = (wake - (now + 1)) * MilliPerOp + MilliPerOp
        BY <1>4, <3>3
      <4>2. QED
        BY <1>4, <3>1, <3>2, <3>3, <4>1
    <3>4. CASE ~(wake > now + 1)
      <4>1. still = 0
        BY <3>2, <3>4
      <4>2. wake > now => wake - now = 1
        BY <1>4, <3>4
      <4>3. StillQuiet \in {0, MilliPerOp}
        BY <1>4, <3>1, <4>2
      <4>4. QED
        BY <1>4, <4>1, <4>3
    <3>5. QED
      BY <3>3, <3>4
  <2>3. surplus' + filled <= bound + still
    <3>1. surplus + Refilled <= bound + StillQuiet /\ Refilled < Cost
      BY <1>8, <1>10
    <3>2. StillQuiet \in Nat
      BY <1>4 DEF StillQuiet
    <3>3. CASE surplus > Pace
      <4>1. surplus' = surplus - MilliPerOp
        BY <1>1, <2>1, <3>3
      <4>2. QED
        BY <1>4, <2>1, <2>2, <3>1, <3>2, <4>1
    <3>4. CASE ~(surplus > Pace)
      <4>1. surplus' = 0
        BY <1>1, <3>4
      <4>2. QED
        BY <1>4, <2>1, <2>2, <3>1, <4>1
    <3>5. QED
      BY <3>3, <3>4
  <2>4. surplus' + Refilled' <= seen' * MaxBurst' + StillQuiet'
    BY <1>3, <2>3 DEF filled, bound, still
  <2>5. rate' = 0 /\ Refilled' < Cost /\ wake' - now' <= Ticks
    <3>1. wake - (now + 1) <= Ticks
      BY <1>4, <1>8, <1>10
    <3>2. QED
      BY <1>1, <1>8, <1>10, <2>1, <3>1 DEF filled
  <2>6. QED
    BY <1>1, <1>10, <2>4, <2>5 DEF PaceInv, Cost
<1>11. QED
  BY <1>9, <1>10

LEMMA NothingYet == \A n, r \in Nat : (n - n) * r = 0
OBVIOUS

LEMMA StartPace ==
    ASSUME TypeInv, PaceInv, StartWorker \/ FirstPhase
    PROVE  PaceInv'
<1>1. CASE StartWorker
  BY <1>1 DEF StartWorker, PaceInv, Working
<1>2. CASE FirstPhase
  <2>1. /\ UNCHANGED <<plan, now, deployment, surplus>> /\ pc = "waiting" /\ pc' = "poll"
        /\ Phases # << >> /\ seen' = 1 /\ surplus = 0
        /\ rate' = RateOf(Phases[1]) /\ tokens' = Burst(rate') /\ lastRefill' = now
    BY <1>2 DEF FirstPhase, TypeInv, ProgressInv, runVars
  <2>2. MaxBurst' = MaxBurst
    BY <2>1, SameBurst
  <2>3. 1 \in DOMAIN Phases /\ Phases[1] \in Phase
    BY <2>1 DEF TypeInv, PlanInv
  <2>4. rate' \in Nat
    BY <2>1, <2>3, RateOfType DEF TypeInv, PlanInv
  <2>5. /\ MaxBurst \in Nat /\ Burst(rate') <= MaxBurst /\ Burst(rate') \in Nat
        /\ Cost \in Nat /\ now \in Nat
    BY <2>1, <2>3, <2>4, GreatestBurst, BurstType, CostType, PacedWorkerAssumption
       DEF TypeInv, TypeOK
  <2>6. Refilled' = AtMost(Burst(rate') + (now - now) * rate', Burst(rate'))
    BY <2>1 DEF Refilled
  <2>7. (now - now) * rate' = 0
    BY <2>4, <2>5, NothingYet
  <2>8. Refilled' = Burst(rate')
    BY <2>5, <2>6, <2>7 DEF AtMost
  <2>9. surplus' + Refilled' + Owed' <= seen' * MaxBurst' + Cost
    <3>1. surplus' = 0 /\ Owed' = 0 /\ seen' * MaxBurst' = MaxBurst
      BY <2>1, <2>2, <2>5 DEF Owed
    <3>2. QED
      BY <2>5, <2>8, <3>1
  <2>10. QED
    BY <2>1, <2>9 DEF PaceInv, Cost
<1>3. QED
  BY <1>1, <1>2

\* A step that moves neither the worker nor the clock.
LEMMA SamePace ==
    ASSUME PaceInv, UNCHANGED <<plan, deployment, pc, seen, bucketVars, wake, surplus, now>>
    PROVE  PaceInv'
<1>1. MaxBurst' = MaxBurst
  BY SameBurst
<1>2. Refilled' = Refilled /\ Owed' = Owed /\ StillQuiet' = StillQuiet
  BY DEF Refilled, Owed, StillQuiet, bucketVars
<1>3. QED
  BY <1>1, <1>2 DEF PaceInv, Working, bucketVars

LEMMA InitPace == Init => PaceInv
BY DEF Init, PaceInv, Working

LEMMA NextPace == TypeInv /\ PaceInv /\ [Next]_vars => PaceInv'
<1> SUFFICES ASSUME TypeInv, PaceInv, [Next]_vars
             PROVE  PaceInv'
  OBVIOUS
<1>1. CASE Operator
  <2>1. pc = "none" /\ pc' = pc
    BY <1>1 DEF Operator, Validate, EditScenario, Deploy, workerVars, TypeInv, ProgressInv
  <2>2. QED
    BY <2>1 DEF PaceInv, Working
<1>2. CASE Announce
  BY <1>2, SamePace DEF Announce, runVars, workerVars
<1>3. CASE Tick
  BY <1>3, TickPace
<1>4. CASE Worker
  BY <1>4, StartPace, BucketPace, LoopPace DEF Worker
<1>5. CASE UNCHANGED vars
  BY <1>5, SamePace DEF vars, runVars, workerVars
<1>6. QED
  BY <1>1, <1>2, <1>3, <1>4, <1>5 DEF Next

\* A worker executes more than its rates only by the burst of a second for each phase
\* (TokenBucketRateLimiter: what is earned at one rate is kept at the next), whatever
\* the rates, however late it polls and however long its operations take.
THEOREM PaceAlwaysBounded == Spec => []PaceBounded
<1>1. TypeInv /\ PaceInv => PaceBounded
  <2> SUFFICES ASSUME TypeInv, PaceInv, Working
               PROVE  surplus <= seen * MaxBurst + Cost
    BY DEF PaceBounded
  <2>1. /\ surplus \in Nat /\ Refilled \in Nat /\ seen * MaxBurst \in Nat /\ Cost \in Nat
        /\ Ticks \in Nat /\ MilliPerOp \in Nat /\ wake \in Nat /\ now \in Nat
    BY WorkingNumbers
  <2>2. CASE pc # "quiet"
    <3>1. surplus + Refilled + Owed <= seen * MaxBurst + Cost /\ Owed \in Nat
      BY <2>1, <2>2 DEF PaceInv, Owed
    <3>2. QED
      BY <2>1, <3>1
  <2>3. CASE pc = "quiet"
    <3>1. surplus + Refilled <= seen * MaxBurst + StillQuiet /\ wake - now <= Ticks
      BY <2>3 DEF PaceInv
    <3>2. StillQuiet \in Nat /\ StillQuiet <= Cost
      BY <2>1, <3>1 DEF StillQuiet, Cost
    <3>3. QED
      BY <2>1, <3>1, <3>2
  <2>4. QED
    BY <2>2, <2>3
<1>2. QED
  BY <1>1, InitType, NextType, InitPace, NextPace, PTL DEF Spec


-----------------------------------------------------------------------------
(* The rate that the author of a scenario gave to a phase *)

LEMMA Times ==
    \A k, x, y \in Nat : /\ k * x \in Nat
                         /\ x <= y => k * x <= k * y
                         /\ k > 0 /\ x < y => k * x < k * y
OBVIOUS

\* A total that is scaled, rounded and divided over workers in whole operations: what
\* they do together differs from it by the rounding and by what is left over.
LEMMA RoundedFleet ==
    ASSUME NEW a \in Nat, NEW scale \in Scale, NEW w \in Nat \ {0}, NEW unit \in Nat \ {0}
    PROVE  LET part  == (Rounded(a, scale) \div w) * unit
               fleet == w * part * scale.den
               whole == scale.num * (a * unit)
           IN  /\ 2 * fleet <= 2 * whole + unit * scale.den
               /\ 2 * fleet > 2 * whole - 2 * w * unit * scale.den - unit * scale.den
<1> DEFINE all == Rounded(a, scale)
           each == all \div w
<1>1. PICK num \in Nat, den \in Nat \ {0} : num = scale.num /\ den = scale.den
  BY DEF Scale
<1> DEFINE exact == 2 * a * num + den
<1>2. a * num \in Nat /\ exact \in Nat /\ 2 * den \in Nat \ {0} /\ exact = 2 * (a * num) + den
  BY <1>1, Times
<1>3. /\ all \in Nat /\ (2 * den) * all <= exact /\ exact < (2 * den) * all + 2 * den
  BY <1>1, <1>2, Division DEF Rounded
<1> HIDE DEF all
<1>4. each \in Nat /\ w * each <= all /\ all < w * each + w
  BY <1>3, Division
<1>5. w * each \in Nat
  BY <1>4, Times
<1> HIDE DEF each, exact
<1> DEFINE step == 2 * den
<1>6. step \in Nat \ {0} /\ step * (all + 1) = step * all + step
  BY <1>1, <1>3
<1>7. step * all <= exact /\ exact < step * (all + 1)
  BY <1>3, <1>6
<1> HIDE DEF step
<1>8. step * (w * each) <= exact
  <2>1. step * (w * each) <= step * all /\ step * (w * each) \in Nat /\ step * all \in Nat
    BY <1>3, <1>4, <1>5, <1>6, Times
  <2>2. QED
    BY <1>2, <1>7, <2>1
<1>9. exact < step * (w * each + w)
  <2>1. all + 1 <= w * each + w /\ w * each + w \in Nat /\ all + 1 \in Nat
    BY <1>3, <1>4, <1>5
  <2>2. /\ step * (all + 1) <= step * (w * each + w)
        /\ step * (all + 1) \in Nat /\ step * (w * each + w) \in Nat
    BY <1>6, <2>1, Times
  <2>3. QED
    BY <1>2, <1>7, <2>2
<1>10. unit * (step * (w * each)) <= unit * exact
  <2>1. step * (w * each) \in Nat
    BY <1>5, <1>6, Times
  <2>2. QED
    BY <1>2, <1>8, <2>1, Times
<1>11. unit * exact < unit * (step * (w * each + w))
  <2>1. step * (w * each + w) \in Nat
    BY <1>5, <1>6, Times
  <2>2. QED
    BY <1>2, <1>9, <2>1, Times
<1>12. unit * exact = 2 * (num * (a * unit)) + unit * den
  BY <1>1 DEF exact
<1>13. unit * (step * (w * each)) = 2 * (w * (each * unit) * den)
  BY <1>1, <1>4 DEF step
<1>14. unit * (step * (w * each + w)) = 2 * (w * (each * unit) * den) + 2 * w * unit * den
  BY <1>1, <1>4 DEF step
<1>15. /\ num * (a * unit) \in Nat /\ unit * den \in Nat
       /\ w * (each * unit) * den \in Nat /\ 2 * w * unit * den \in Nat
  BY <1>1, <1>4, Times
<1>16. /\ 2 * (w * (each * unit) * den) <= 2 * (num * (a * unit)) + unit * den
       /\ 2 * (w * (each * unit) * den)
             > 2 * (num * (a * unit)) - 2 * w * unit * den - unit * den
  BY <1>10, <1>11, <1>12, <1>13, <1>14, <1>15
<1>17. QED
  BY <1>1, <1>16 DEF each, all

\* The same for a total that is truncated, in thousandths.
LEMMA TruncatedFleet ==
    ASSUME NEW a \in Nat, NEW scale \in Scale, NEW w \in Nat \ {0}
    PROVE  LET part  == Truncated(a, scale) \div w
               fleet == w * part * scale.den
               whole == scale.num * a
           IN  fleet <= whole /\ whole < fleet + w * scale.den
<1> DEFINE all == Truncated(a, scale)
           each == all \div w
<1>1. PICK num \in Nat, den \in Nat \ {0} : num = scale.num /\ den = scale.den
  BY DEF Scale
<1>2. a * num \in Nat
  BY <1>1, Times
<1>3. all \in Nat /\ den * all <= a * num /\ a * num < den * all + den
  BY <1>1, <1>2, Division DEF Truncated
<1> HIDE DEF all
<1>4. each \in Nat /\ w * each <= all /\ all < w * each + w
  BY <1>3, Division
<1>5. w * each \in Nat
  BY <1>4, Times
<1> HIDE DEF each
<1>6. den * (w * each) <= den * all /\ den * (all + 1) <= den * (w * each + w)
  <2>1. all + 1 <= w * each + w /\ w * each + w \in Nat /\ all + 1 \in Nat
    BY <1>3, <1>4, <1>5
  <2>2. QED
    BY <1>1, <1>3, <1>4, <1>5, <2>1, Times
<1>7. /\ den * (all + 1) = den * all + den
      /\ den * (w * each + w) = w * each * den + w * den
      /\ den * (w * each) = w * each * den
      /\ a * num = num * a
  BY <1>1, <1>3, <1>4
<1>8. /\ den * all \in Nat /\ w * each * den \in Nat /\ w * den \in Nat /\ num * a \in Nat
  BY <1>1, <1>3, <1>5, Times
<1>9. w * each * den <= num * a /\ num * a < w * each * den + w * den
  BY <1>2, <1>3, <1>6, <1>7, <1>8
<1>10. QED
  BY <1>1, <1>9 DEF each, all


\* The names of a valid scenario's streams tell its streams apart.
LEMMA StreamsDiffer ==
    ASSUME NEW s \in Scenarios, Valid(s), HasIngest(s),
           NEW i \in DOMAIN s.streams, NEW j \in DOMAIN s.streams,
           s.streams[i].name = s.streams[j].name
    PROVE  i = j
<1> DEFINE places == 1..Len(s.streams)
           names == NamesOf(s.streams)
           nameOf == [k \in places |-> s.streams[k].name]
<1>1. DOMAIN s.streams = places /\ Len(s.streams) \in Nat
  BY ScenarioParts, LenProperties
<1>2. Cardinality(names) = Len(s.streams)
  BY DEF Valid, StreamsValid, HasIngest, NamesDiffer
<1>3. IsFiniteSet(places) /\ Cardinality(places) = Len(s.streams)
  BY <1>1, FS_Interval
<1>4. nameOf \in Surjection(places, names)
  BY <1>1 DEF Surjection, NamesOf
<1> HIDE DEF names
<1>5. nameOf \in Injection(places, names)
  BY <1>2, <1>3, <1>4, FS_Surjection
<1>6. QED
  BY <1>1, <1>5 DEF Injection, IsInjective

\* A worker of a stream of a valid scenario finds, for each phase, its part of the
\* rounded target that the author gave to the stream in that phase.
LEMMA StreamRate ==
    ASSUME NEW s \in Scenarios, NEW spc \in Specs, Valid(s),
           NEW i \in DOMAIN Plan(s, spc).ingest, NEW j \in DOMAIN s.phases
    PROVE  LET planned == Plan(s, spc).ingest[i]
               name    == s.phases[j].name
               target  == s.streams[i].ingest[name]
           IN  /\ i \in DOMAIN s.streams /\ planned.replicas = s.streams[i].replicas
               /\ planned.replicas \in Nat \ {0} /\ target \in Nat
               /\ (CHOOSE t \in ToSet(s.streams) : t.name = planned.name) = s.streams[i]
               /\ RateIn(planned.table, name)
                     = Rounded(target, spc.rateScale) \div planned.replicas
<1> DEFINE planned == Plan(s, spc).ingest[i]
           name == s.phases[j].name
           stream == s.streams[i]
           scaled == ScaledStream(stream, spc)
<1>1. /\ HasIngest(s) /\ i \in DOMAIN s.streams
      /\ planned.name = stream.name /\ planned.replicas = stream.replicas
      /\ planned.table \in Seq(Row) /\ DOMAIN planned.table = DOMAIN s.phases
      /\ \A k \in DOMAIN s.phases :
            /\ planned.table[k].name = s.phases[k].name
            /\ planned.table[k].rate
                  = TargetOf(scaled, s.phases[k].name) \div AtLeastOne(stream.replicas)
  BY PlannedIngest
<1> HIDE DEF planned
<1>2. IsStream(stream)
  BY <1>1, ScenarioParts
<1>3. stream.replicas > 0 /\ name \in DOMAIN stream.ingest
  BY <1>1 DEF Valid, StreamsValid, HasIngest, NamesOf
<1>4. stream.replicas \in Nat \ {0} /\ stream.ingest[name] \in Nat
  BY <1>2, <1>3 DEF IsStream
<1>5. (CHOOSE t \in ToSet(s.streams) : t.name = planned.name) = stream
  <2>1. stream \in ToSet(s.streams)
    BY <1>1 DEF ToSet
  <2>2. \A t \in ToSet(s.streams) : t.name = stream.name => t = stream
    BY <1>1, StreamsDiffer DEF ToSet
  <2>3. QED
    BY <1>1, <2>1, <2>2
<1>6. RateIn(planned.table, name) = Rounded(stream.ingest[name], spc.rateScale) \div stream.replicas
  <2>1. PICK k \in DOMAIN s.phases :
           s.phases[k].name = name
           /\ RateIn(planned.table, name)
                 = TargetOf(scaled, name) \div AtLeastOne(stream.replicas)
    BY <1>1, RateFound
  <2>2. TargetOf(scaled, name) = Rounded(stream.ingest[name], spc.rateScale)
    BY <1>2, <1>3, ScaledStreamType DEF TargetOf
  <2>3. AtLeastOne(stream.replicas) = stream.replicas
    BY <1>4 DEF AtLeastOne
  <2>4. QED
    BY <2>1, <2>2, <2>3
<1>7. QED
  BY <1>1, <1>4, <1>5, <1>6 DEF planned

\* What is deployed is the plan of the resource as it is; the scenario is valid unless
\* it was edited before; and a worker is a pod of the plan.
PlannedInv ==
    /\ ~edited /\ stage \in {"Validated", "Running"} => Valid(scenario)
    /\ stage = "Running" => plan = Plan(scenario, spec)
    /\ pc # "none" =>
          /\ deployment.replicas > 0
          /\ \/ \E i \in DOMAIN plan.ingest : deployment = plan.ingest[i]
             \/ \E i \in DOMAIN plan.query : deployment = plan.query[i]

LEMMA InitPlanned == Init => PlannedInv
BY DEF Init, PlannedInv

LEMMA NextPlanned == TypeInv /\ PlannedInv /\ [Next]_vars => PlannedInv'
<1> SUFFICES ASSUME TypeInv, PlannedInv, [Next]_vars
             PROVE  PlannedInv'
  OBVIOUS
<1>1. ASSUME Operator
      PROVE  PlannedInv'
  <2>1. pc = "none" /\ pc' = pc
    BY <1>1 DEF Operator, Validate, EditScenario, Deploy, workerVars, TypeInv, ProgressInv
  <2>2. CASE Validate
    BY <2>1, <2>2 DEF Validate, PlannedInv
  <2>3. CASE EditScenario
    BY <2>1, <2>3 DEF EditScenario, PlannedInv
  <2>4. CASE Deploy
    BY <2>1, <2>4 DEF Deploy, PlannedInv
  <2>5. QED
    BY <1>1, <2>2, <2>3, <2>4 DEF Operator
<1>2. ASSUME UNCHANGED runVars, UNCHANGED deployment, pc = "none" => pc' = "none"
      PROVE  PlannedInv'
  BY <1>2 DEF PlannedInv, runVars
<1>3. CASE StartWorker
  <2>1. /\ UNCHANGED runVars /\ deployment'.replicas > 0
        /\ \/ \E i \in DOMAIN plan.ingest : deployment' = plan.ingest[i]
           \/ \E i \in DOMAIN plan.query : deployment' = plan.query[i]
    BY <1>3 DEF StartWorker
  <2>2. QED
    BY <2>1 DEF PlannedInv, runVars
<1>4. CASE Worker /\ ~StartWorker
  BY <1>2, <1>4 DEF Worker, FirstPhase, TakeTransition, TakeRunComplete, NoEvent, TakeToken,
        WaitOutQuiet, WaitForToken, QuietOver, TokenEarned, Execute, Sleep
<1>5. CASE Announce \/ Tick \/ UNCHANGED vars
  BY <1>2, <1>5 DEF Announce, Tick, workerVars, vars
<1>6. QED
  BY <1>1, <1>3, <1>4, <1>5 DEF Next

\* The workers of a Deployment have together the rate that the author of a validated
\* scenario gave to their phase (IngestRateTable::new of scenario.rs, and the target of
\* the phases in resources.rs), up to the rounding and the remainder of the division.
THEOREM RateAlwaysFollows == Spec => []RateFollowsPhase
<1>1. TypeInv /\ PlannedInv => RateFollowsPhase
  <2> SUFFICES ASSUME TypeInv, PlannedInv, Working, ~edited
               PROVE  LET den   == spec.rateScale.den
                          fleet == Workers * rate * den
                      IN  /\ 2 * fleet <= 2 * Authored(seen) + Unit * den
                          /\ 2 * fleet > 2 * Authored(seen) - 2 * Workers * Unit * den
                                         - Unit * den
    BY DEF RateFollowsPhase
  <2>1. scenario \in Scenarios /\ spec \in Specs
    BY DEF TypeInv, TypeOK
  <2>2. pc # "none" /\ stage = "Running"
    BY DEF TypeInv, ProgressInv, Working
  <2>3. Valid(scenario) /\ plan = Plan(scenario, spec)
    BY <2>2 DEF PlannedInv
  <2>4. seen \in DOMAIN scenario.phases /\ rate = RateOf(Phases[seen])
    <3>1. seen \in 1..Len(Phases)
      BY DEF TypeInv, TypeOK, ProgressInv
    <3>2. DOMAIN Phases = 1..Len(Phases) /\ DOMAIN Phases = DOMAIN scenario.phases
      BY <2>1, <2>3, PlannedPhases DEF Phases
    <3>3. QED
      BY <3>1, <3>2 DEF TypeInv, ProgressInv
  <2>5. /\ Phases[seen].name = scenario.phases[seen].name
        /\ Phases[seen].mqps = Truncated(scenario.phases[seen].mqps, spec.rateScale)
                                  \div AtLeastOne(TotalQueryReplicas(spec))
    BY <2>1, <2>3, <2>4, PlannedPhases DEF Phases
  <2>6. spec.rateScale \in Scale
    BY <2>1, PacedWorkerAssumption DEF Resource
  <2>7. ASSUME NEW i \in DOMAIN plan.ingest, deployment = plan.ingest[i]
        PROVE  LET den   == spec.rateScale.den
                   fleet == Workers * rate * den
               IN  /\ 2 * fleet <= 2 * Authored(seen) + Unit * den
                   /\ 2 * fleet > 2 * Authored(seen) - 2 * Workers * Unit * den - Unit * den
    <3> DEFINE w == deployment.replicas
               target == scenario.streams[i].ingest[scenario.phases[seen].name]
    <3>1. deployment.kind = "ingest"
      BY <2>1, <2>3, <2>7, PlannedIngest
    <3>2. /\ w \in Nat \ {0} /\ target \in Nat
          /\ (CHOOSE t \in ToSet(scenario.streams) : t.name = deployment.name)
                = scenario.streams[i]
          /\ RateIn(deployment.table, scenario.phases[seen].name)
                = Rounded(target, spec.rateScale) \div w
      BY <2>1, <2>3, <2>4, <2>7, StreamRate
    <3>3. rate = (Rounded(target, spec.rateScale) \div w) * MilliPerOp
      BY <2>4, <2>5, <3>1, <3>2 DEF RateOf
    <3>4. Authored(seen) = spec.rateScale.num * (target * MilliPerOp)
      BY <3>1, <3>2 DEF Authored
    <3>5. Workers = w /\ Unit = MilliPerOp
      BY <3>1 DEF Workers, Unit
    <3> HIDE DEF w, target
    <3>6. QED
      BY <2>6, <3>2, <3>3, <3>4, <3>5, RoundedFleet, CostType
  <2>8. ASSUME NEW i \in DOMAIN plan.query, deployment = plan.query[i]
        PROVE  LET den   == spec.rateScale.den
                   fleet == Workers * rate * den
               IN  /\ 2 * fleet <= 2 * Authored(seen) + Unit * den
                   /\ 2 * fleet > 2 * Authored(seen) - 2 * Workers * Unit * den - Unit * den
    <3> DEFINE w == TotalQueryReplicas(spec)
               target == scenario.phases[seen].mqps
    <3>1. deployment.kind = "query"
      BY <2>1, <2>3, <2>8, PlannedQuery
    <3>2. w \in Nat \ {0} /\ AtLeastOne(w) = w
      <4>1. w \in Nat /\ deployment.replicas \in Nat /\ deployment.replicas <= w
        BY <2>1, <2>3, <2>8, PlannedQuery, QueryWorkers
      <4>2. deployment.replicas > 0
        BY <2>2 DEF PlannedInv
      <4>3. QED
        BY <4>1, <4>2 DEF AtLeastOne
    <3>3. target \in Nat
      <4>1. scenario.phases[seen] \in Phase
        BY <2>1, <2>4, ScenarioParts
      <4>2. QED
        BY <4>1 DEF Phase
    <3>4. rate = Truncated(target, spec.rateScale) \div w
      BY <2>4, <2>5, <3>1, <3>2 DEF RateOf
    <3>5. Authored(seen) = spec.rateScale.num * target
      BY <3>1 DEF Authored
    <3>6. Workers = w /\ Unit = 1
      BY <3>1 DEF Workers, Unit
    <3> HIDE DEF w, target
    <3> DEFINE den == spec.rateScale.den
               fleet == w * rate * den
               whole == spec.rateScale.num * target
    <3>7. fleet <= whole /\ whole < fleet + w * den
      BY <2>6, <3>2, <3>3, <3>4, TruncatedFleet
    <3>8. fleet \in Nat /\ whole \in Nat /\ w * den \in Nat /\ den \in Nat
      <4>1. den \in Nat /\ spec.rateScale.num \in Nat
        BY <2>6 DEF Scale
      <4>2. rate \in Nat
        BY DEF TypeInv, TypeOK
      <4>3. QED
        BY <3>2, <3>3, <4>1, <4>2, Times
    <3>9. 2 * w * 1 * den = 2 * (w * den)
      BY <3>2, <3>8
    <3> HIDE DEF fleet, whole
    <3>10. 2 * fleet <= 2 * whole + 1 * den /\ 2 * fleet > 2 * whole - 2 * w * 1 * den - 1 * den
      BY <3>7, <3>8, <3>9
    <3>11. QED
      BY <3>5, <3>6, <3>10 DEF fleet, whole
  <2>9. QED
    BY <2>2, <2>7, <2>8 DEF PlannedInv
<1>2. QED
  BY InitType, NextType, InitPlanned, NextPlanned, <1>1, PTL DEF Spec


\* A part of ten at least lacks less than a tenth.
LEMMA MostOfIt ==
    ASSUME NEW total \in Nat, NEW w \in Nat \ {0}, total >= 10 * w
    PROVE  10 * w * (total \div w) >= 9 * total
<1> DEFINE each == total \div w
<1>1. each \in Nat /\ total < w * each + w
  BY Division
<1> HIDE DEF each
<1>2. w * each \in Nat /\ 10 * w * each = 10 * (w * each)
  BY <1>1, Times
<1>3. 10 * w * each >= 9 * total
  BY <1>1, <1>2
<1>4. QED
  BY <1>3 DEF each

\* What a stream's workers lack of their target by the division (the same share for all
\* pods of a Deployment, build_worker_configmaps) cannot alone fail the baseline check
\* of the report, for any valid scenario whose targets are not below ten per worker.
THEOREM BaselineAlwaysReachable == Spec => []BaselineReachable
<1>1. TypeInv /\ PlannedInv => BaselineReachable
  <2> SUFFICES ASSUME TypeInv, PlannedInv, stage = "Running", ~edited,
                      NEW i \in DOMAIN plan.ingest,
                      Rounded(scenario.streams[i].ingest["baseline"], spec.rateScale)
                         >= 10 * plan.ingest[i].replicas
               PROVE  10 * plan.ingest[i].replicas * RateIn(plan.ingest[i].table, "baseline")
                         >= 9 * Rounded(scenario.streams[i].ingest["baseline"], spec.rateScale)
    BY DEF BaselineReachable
  <2>1. scenario \in Scenarios /\ spec \in Specs /\ spec.rateScale \in Scale
    BY PacedWorkerAssumption DEF TypeInv, TypeOK, Resource
  <2>2. Valid(scenario) /\ plan = Plan(scenario, spec)
    BY DEF PlannedInv
  <2>3. HasIngest(scenario)
    BY <2>1, <2>2, PlannedIngest
  <2>4. PICK j \in DOMAIN scenario.phases : scenario.phases[j].name = "baseline"
    <3>1. [j \in DOMAIN scenario.phases |-> scenario.phases[j].name] = ExpectedPhases
      BY <2>2, <2>3 DEF Valid, TimelineValid
    <3>2. PICK j \in DOMAIN ExpectedPhases : ExpectedPhases[j] = "baseline"
      BY LoadPlanAssumption DEF ToSet
    <3>3. QED
      BY <3>1, <3>2
  <2> DEFINE w == plan.ingest[i].replicas
             total == Rounded(scenario.streams[i].ingest["baseline"], spec.rateScale)
  <2>5. /\ w \in Nat \ {0} /\ scenario.streams[i].ingest["baseline"] \in Nat
        /\ RateIn(plan.ingest[i].table, "baseline") = total \div w
    BY <2>1, <2>2, <2>4, StreamRate
  <2>6. total \in Nat
    BY <2>1, <2>5, ScalingType
  <2>7. total >= 10 * w
    OBVIOUS
  <2> HIDE DEF w, total
  <2>8. 10 * w * (total \div w) >= 9 * total
    BY <2>5, <2>6, <2>7, MostOfIt
  <2>9. QED
    BY <2>5, <2>8 DEF w, total
<1>2. QED
  BY InitType, NextType, InitPlanned, NextPlanned, <1>1, PTL DEF Spec


-----------------------------------------------------------------------------
(* Everybody is waited for and has something to do *)

LEMMA SumOfNone == SumOf(<< >>) = 0
<1> DEFINE numbers == << >>
           g == CHOOSE sum : AreSums(sum, numbers, Len(numbers))
<1>1. numbers \in Seq(Nat) /\ Len(numbers) = 0
  OBVIOUS
<1>2. SumOf(numbers) = g[Len(numbers)]
  BY DEF SumOf, AreSums
<1>3. AreSums(g, numbers, Len(numbers))
  BY <1>1, SumsExist
<1> HIDE DEF g, numbers
<1>4. g[0] = 0
  BY <1>1, <1>3 DEF AreSums
<1>5. QED
  BY <1>1, <1>2, <1>4 DEF numbers

LEMMA SumOfOne ==
    ASSUME NEW r \in Nat
    PROVE  SumOf(<<r>>) = r
<1> DEFINE numbers == <<r>>
           g == CHOOSE sum : AreSums(sum, numbers, Len(numbers))
<1>1. numbers \in Seq(Nat) /\ Len(numbers) = 1 /\ numbers[1] = r
  OBVIOUS
<1>2. SumOf(numbers) = g[Len(numbers)]
  BY DEF SumOf, AreSums
<1>3. AreSums(g, numbers, Len(numbers))
  BY <1>1, SumsExist
<1> HIDE DEF g, numbers
<1>4. g[0] = 0 /\ g[1] = g[0] + numbers[1]
  BY <1>1, <1>3 DEF AreSums
<1>5. QED
  BY <1>1, <1>2, <1>4 DEF numbers

\* The controller expects a worker for each pod of the ingest Deployments.
LEMMA IngestExpected ==
    ASSUME NEW s \in Scenarios, NEW spc \in Specs
    PROVE  Plan(s, spc).controller.expectedIngest = SumOver(Plan(s, spc).ingest, LAMBDA d : d.replicas)
<1> DEFINE whole == Scaled(s, spc)
           ingest == Plan(s, spc).ingest
<1>1. Plan(s, spc).controller.expectedIngest = SumOf([i \in DOMAIN whole.streams |-> whole.streams[i].replicas])
  BY DEF Plan, ControllerConfig, TotalIngestReplicas, SumOver
<1>2. SumOver(ingest, LAMBDA d : d.replicas) = SumOf([i \in DOMAIN ingest |-> ingest[i].replicas])
  BY DEF SumOver
<1>3. ingest = IF HasIngest(whole) THEN IngestDeployments(whole) ELSE << >>
  BY DEF Plan
<1>4. DOMAIN ingest = DOMAIN whole.streams
      /\ \A i \in DOMAIN ingest : ingest[i].replicas = whole.streams[i].replicas
  <2>1. CASE HasIngest(whole)
    BY <1>3, <2>1 DEF IngestDeployments
  <2>2. CASE ~HasIngest(whole)
    <3>1. DOMAIN whole.streams = DOMAIN s.streams /\ whole.declared = s.declared
      BY ScaledParts
    <3>2. ~s.declared => s.streams = << >>
      BY ScenarioParts
    <3>3. DOMAIN whole.streams = {}
      BY <2>2, <3>1, <3>2 DEF HasIngest
    <3>4. QED
      BY <1>3, <2>2, <3>3
  <2>3. QED
    BY <2>1, <2>2
<1> HIDE DEF whole, ingest
<1>5. [i \in DOMAIN whole.streams |-> whole.streams[i].replicas]
         = [i \in DOMAIN ingest |-> ingest[i].replicas]
  BY <1>4
<1>6. QED
  BY <1>1, <1>2, <1>5 DEF ingest

\* And one for each pod of the query Deployments.
LEMMA QueryExpected ==
    ASSUME NEW s \in Scenarios, NEW spc \in Specs
    PROVE  Plan(s, spc).controller.expectedQuery = SumOver(Plan(s, spc).query, LAMBDA d : d.replicas)
<1> DEFINE query == Plan(s, spc).query
<1>1. Plan(s, spc).controller.expectedQuery = TotalQueryReplicas(spc)
  BY DEF Plan, ControllerConfig
<1>2. SumOver(query, LAMBDA d : d.replicas) = SumOf([i \in DOMAIN query |-> query[i].replicas])
  BY DEF SumOver
<1>3. query = QueryDeployments(Scaled(s, spc), spc)
  BY DEF Plan
<1>4. spc.replicas \in Nat /\ spc.grouped \in BOOLEAN
  BY PacedWorkerAssumption DEF Resource
<1> HIDE DEF query
<1>5. CASE spc.grouped
  <2>1. DOMAIN query = DOMAIN spc.groups
        /\ \A i \in DOMAIN query : query[i].replicas = spc.groups[i].replicas
    BY <1>3, <1>5 DEF QueryDeployments
  <2>2. [i \in DOMAIN query |-> query[i].replicas]
           = [i \in DOMAIN spc.groups |-> spc.groups[i].replicas]
    BY <2>1
  <2>3. TotalQueryReplicas(spc) = SumOf([i \in DOMAIN spc.groups |-> spc.groups[i].replicas])
    BY <1>5 DEF TotalQueryReplicas, SumOver
  <2>4. QED
    BY <1>1, <1>2, <2>2, <2>3 DEF query
<1>6. CASE ~spc.grouped
  <2>1. Len(query) = 1 /\ DOMAIN query = {1} /\ query[1].replicas = spc.replicas
    BY <1>3, <1>6 DEF QueryDeployments
  <2>2. [i \in DOMAIN query |-> query[i].replicas] = <<spc.replicas>>
    <3>1. DOMAIN <<spc.replicas>> = {1} /\ <<spc.replicas>>[1] = spc.replicas
      OBVIOUS
    <3>2. [i \in DOMAIN query |-> query[i].replicas] = [i \in {1} |-> spc.replicas]
      BY <2>1
    <3>3. QED
      BY <3>1, <3>2
  <2>3. TotalQueryReplicas(spc) = spc.replicas
    BY <1>6 DEF TotalQueryReplicas
  <2>4. QED
    BY <1>1, <1>2, <1>4, <2>2, <2>3, SumOfOne DEF query
<1>7. QED
  BY <1>4, <1>5, <1>6

\* Weights of which there are none do not sum to the whole.
LEMMA NoWeights ==
    ASSUME NEW override, DOMAIN override = {}
    PROVE  ~Close(FoldFunction(LAMBDA a, b : a + b, 0, override))
<1>1. FoldFunction(LAMBDA a, b : a + b, 0, override) = 0
  BY DEF FoldFunction, FoldFunctionOnSet, MapThenFoldSet
<1>2. Whole \in Nat /\ WeightSlack \in Nat /\ WeightSlack < Whole
  BY LoadPlanAssumption
<1>3. ~Close(0)
  BY <1>2 DEF Close
<1>4. QED
  BY <1>1, <1>3, Zenon

\* Each query worker of a valid scenario with queries has some to execute.
LEMMA WorkersCanStart ==
    ASSUME NEW s \in Scenarios, NEW spc \in Specs, Valid(s), s.queries # << >>,
           NEW i \in DOMAIN Plan(s, spc).query
    PROVE  CanStart(Plan(s, spc).query[i])
<1> DEFINE whole == Scaled(s, spc)
           query == Plan(s, spc).query
<1>1. query = QueryDeployments(whole, spc)
  BY DEF Plan
<1>2. /\ whole.queries = s.queries /\ whole.grouped = s.grouped /\ whole.groups = s.groups
  BY ScaledParts
<1>3. NamesOf(whole.queries) = NamesOf(s.queries) /\ NamesOf(s.queries) # {}
  <2>1. 1 \in DOMAIN s.queries
    BY ScenarioParts
  <2>2. QED
    BY <1>2, <2>1 DEF NamesOf
<1> HIDE DEF whole
<1>4. ASSUME NEW name
      PROVE  GroupMix(whole, name) # {}
  <2> DEFINE named == {k \in DOMAIN whole.groups : whole.groups[k].name = name}
             group == whole.groups[Min(named)]
  <2>1. CASE ~whole.grouped \/ named = {} \/ ~group.overridden
    BY <1>3, <2>1 DEF GroupMix
  <2>2. CASE whole.grouped /\ named # {} /\ group.overridden
    <3>1. named \subseteq Nat
      BY <1>2, ScenarioParts
    <3>2. PICK least \in named : \A m \in named : least <= m
      BY <2>2, <3>1, LeastNumber
    <3>3. Min(named) \in DOMAIN s.groups
      BY <1>2, <3>2 DEF Min
    <3>4. OverrideValid(s, group)
      BY <1>2, <2>2, <3>3 DEF Valid, GroupsValid
    <3>5. /\ DOMAIN group.override \subseteq NamesOf(s.queries)
          /\ Close(FoldFunction(LAMBDA a, b : a + b, 0, group.override))
      BY <2>2, <3>4 DEF OverrideValid
    <3>6. DOMAIN group.override # {}
      BY <3>5, NoWeights
    <3>7. GroupMix(whole, name) = NamesOf(whole.queries) \cap DOMAIN group.override
      BY <2>2 DEF GroupMix
    <3>8. QED
      BY <1>3, <3>5, <3>6, <3>7
  <2>3. QED
    BY <2>1, <2>2
<1>5. CASE spc.grouped
  <2>1. query[i].mix = GroupMix(whole, spc.groups[i].name)
    BY <1>1, <1>5 DEF QueryDeployments
  <2>2. QED
    BY <1>4, <2>1 DEF CanStart
<1>6. CASE ~spc.grouped
  <2>1. query[i].mix = NamesOf(whole.queries)
    BY <1>1, <1>6 DEF QueryDeployments
  <2>2. QED
    BY <1>3, <2>1 DEF CanStart
<1>7. QED
  BY <1>5, <1>6


-----------------------------------------------------------------------------
(* A session made from the categories of the queries *)

Category == [name : STRING, queries : Seq(QueryDef)]

\* The session has the first n queries, each in the category of its name, and no
\* category twice.
Holds(session, queries, n) ==
    /\ session \in Seq(Category)
    /\ \A j, k \in DOMAIN session : session[j].name = session[k].name => j = k
    /\ \A k \in DOMAIN session : \A q \in ToSet(session[k].queries) :
          q.category = session[k].name
    /\ \A m \in 1..n : \E k \in DOMAIN session : queries[m] \in ToSet(session[k].queries)

LEMMA Appended ==
    ASSUME NEW T, NEW seq \in Seq(T), NEW e \in T
    PROVE  /\ Append(seq, e) \in Seq(T) /\ ToSet(Append(seq, e)) = ToSet(seq) \cup {e}
           /\ DOMAIN Append(seq, e) = DOMAIN seq \cup {Len(seq) + 1}
           /\ Len(seq) + 1 \notin DOMAIN seq
           /\ Append(seq, e)[Len(seq) + 1] = e
           /\ \A i \in DOMAIN seq : Append(seq, e)[i] = seq[i]
<1>1. /\ Append(seq, e) \in Seq(T) /\ Len(seq) \in Nat
      /\ DOMAIN seq = 1..Len(seq) /\ DOMAIN Append(seq, e) = 1..(Len(seq) + 1)
      /\ Append(seq, e)[Len(seq) + 1] = e
      /\ \A i \in 1..Len(seq) : Append(seq, e)[i] = seq[i]
  OBVIOUS
<1>2. /\ DOMAIN Append(seq, e) = DOMAIN seq \cup {Len(seq) + 1}
      /\ Len(seq) + 1 \notin DOMAIN seq
  BY <1>1
<1>3. ToSet(Append(seq, e)) = ToSet(seq) \cup {e}
  <2>1. ToSet(Append(seq, e)) \subseteq ToSet(seq) \cup {e}
    BY <1>1, <1>2 DEF ToSet
  <2>2. ToSet(seq) \subseteq ToSet(Append(seq, e)) /\ e \in ToSet(Append(seq, e))
    BY <1>1, <1>2 DEF ToSet
  <2>3. QED
    BY <2>1, <2>2
<1>4. QED
  BY <1>1, <1>2, <1>3

LEMMA QueryAdded ==
    ASSUME NEW queries \in Seq(QueryDef), NEW n \in Nat, n + 1 <= Len(queries),
           NEW session, Holds(session, queries, n)
    PROVE  Holds(AddQuery(session, queries[n + 1]), queries, n + 1)
<1> DEFINE query == queries[n + 1]
           next == AddQuery(session, query)
<1>1. query \in QueryDef /\ query.category \in STRING
  <2>1. n + 1 \in 1..Len(queries)
    BY LenProperties
  <2>2. query \in QueryDef
    BY <2>1, ElementOfSeq
  <2>3. QED
    BY <2>2 DEF QueryDef
<1>2. session \in Seq(Category) /\ DOMAIN session = 1..Len(session) /\ Len(session) \in Nat
  BY DEF Holds
<1>3. \A k \in DOMAIN session : /\ session[k] \in Category /\ session[k].name \in STRING
                                /\ session[k].queries \in Seq(QueryDef)
  <2> TAKE k \in DOMAIN session
  <2>1. session[k] \in Category
    BY <1>2, ElementOfSeq
  <2>2. QED
    BY <2>1 DEF Category
<1> HIDE DEF query
\* What the steps below establish of the next session.
<1>4. ASSUME next \in Seq(Category),
             \A j, k \in DOMAIN next : next[j].name = next[k].name => j = k,
             \A k \in DOMAIN next : \A q \in ToSet(next[k].queries) : q.category = next[k].name,
             DOMAIN session \subseteq DOMAIN next,
             \A k \in DOMAIN session : ToSet(session[k].queries) \subseteq ToSet(next[k].queries),
             \E k \in DOMAIN next : query \in ToSet(next[k].queries)
      PROVE  Holds(next, queries, n + 1)
  <2>1. \A m \in 1..n : \E k \in DOMAIN session : queries[m] \in ToSet(session[k].queries)
    BY DEF Holds
  <2>2. \A m \in 1..(n + 1) : m \in 1..n \/ queries[m] = query
    BY DEF query
  <2> HIDE DEF next
  <2>3. \A m \in 1..(n + 1) : \E k \in DOMAIN next : queries[m] \in ToSet(next[k].queries)
    <3> TAKE m \in 1..(n + 1)
    <3>1. CASE m \in 1..n
      <4>1. PICK k \in DOMAIN session : queries[m] \in ToSet(session[k].queries)
        BY <2>1, <3>1
      <4>2. QED
        BY <1>4, <4>1
    <3>2. CASE queries[m] = query
      BY <1>4, <3>2
    <3>3. QED
      BY <2>2, <3>1, <3>2
  <2>4. QED
    BY <1>4, <2>3 DEF Holds
<1>5. CASE \E k \in DOMAIN session : session[k].name = query.category
  <2> DEFINE Joined(category) ==
                 IF category.name = query.category
                 THEN [category EXCEPT !.queries = Append(@, query)]
                 ELSE category
  <2>1. next = [k \in DOMAIN session |-> Joined(session[k])]
    BY <1>5 DEF AddQuery
  <2>2. ASSUME NEW k \in DOMAIN session
        PROVE  /\ next[k] \in Category /\ next[k].name = session[k].name
               /\ ToSet(next[k].queries)
                     = IF session[k].name = query.category
                       THEN ToSet(session[k].queries) \cup {query} ELSE ToSet(session[k].queries)
    <3>1. CASE session[k].name = query.category
      <4>1. next[k] = [session[k] EXCEPT !.queries = Append(session[k].queries, query)]
        BY <2>1, <3>1
      <4>2. /\ Append(session[k].queries, query) \in Seq(QueryDef)
            /\ ToSet(Append(session[k].queries, query)) = ToSet(session[k].queries) \cup {query}
        BY <1>1, <1>3, Appended
      <4>3. /\ next[k] \in Category /\ next[k].name = session[k].name
            /\ next[k].queries = Append(session[k].queries, query)
        BY <1>3, <4>1, <4>2 DEF Category
      <4>4. QED
        BY <3>1, <4>2, <4>3
    <3>2. CASE session[k].name # query.category
      BY <1>3, <2>1, <3>2
    <3>3. QED
      BY <3>1, <3>2
  <2>3. DOMAIN next = DOMAIN session /\ DOMAIN session = 1..Len(session)
    BY <1>2, <2>1
  <2>4. next \in [1..Len(session) -> Category]
    BY <2>1, <2>2, <2>3
  <2> HIDE DEF next
  <2>5. next \in Seq(Category)
    BY <1>2, <2>4, SeqDef
  <2>6. \A j, k \in DOMAIN next : next[j].name = next[k].name => j = k
    BY <2>2, <2>3 DEF Holds
  <2>7. \A k \in DOMAIN next : \A q \in ToSet(next[k].queries) : q.category = next[k].name
    <3> TAKE k \in DOMAIN next
    <3>1. \A q \in ToSet(session[k].queries) : q.category = session[k].name
      BY <2>3 DEF Holds
    <3>2. QED
      BY <2>2, <2>3, <3>1
  <2>8. \A k \in DOMAIN session : ToSet(session[k].queries) \subseteq ToSet(next[k].queries)
    BY <2>2
  <2>9. \E k \in DOMAIN next : query \in ToSet(next[k].queries)
    BY <1>5, <2>2, <2>3
  <2>10. QED
    BY <1>4, <2>3, <2>5, <2>6, <2>7, <2>8, <2>9 DEF next, query
<1>6. CASE ~\E k \in DOMAIN session : session[k].name = query.category
  <2> DEFINE opened == [name |-> query.category, queries |-> <<query>>]
             last == Len(session) + 1
  <2>1. next = Append(session, opened)
    BY <1>6 DEF AddQuery
  <2>2. ToSet(<<query>>) = {query} /\ <<query>> \in Seq(QueryDef)
    BY <1>1 DEF ToSet
  <2>3. /\ opened \in Category /\ opened.name = query.category
        /\ opened.queries = <<query>>
    BY <1>1, <2>2 DEF Category
  <2> HIDE DEF next, opened
  <2>4. /\ next \in Seq(Category) /\ DOMAIN next = DOMAIN session \cup {last}
        /\ last \notin DOMAIN session /\ next[last] = opened
        /\ \A k \in DOMAIN session : next[k] = session[k]
    BY <1>2, <2>1, <2>3, Appended
  <2> HIDE DEF last
  <2>5. \A j, k \in DOMAIN next : next[j].name = next[k].name => j = k
    <3>1. \A j, k \in DOMAIN session : session[j].name = session[k].name => j = k
      BY DEF Holds
    <3>2. QED
      BY <1>6, <2>3, <2>4, <3>1
  <2>6. \A k \in DOMAIN next : \A q \in ToSet(next[k].queries) : q.category = next[k].name
    <3>1. \A k \in DOMAIN session : \A q \in ToSet(session[k].queries) :
             q.category = session[k].name
      BY DEF Holds
    <3>2. \A q \in ToSet(next[last].queries) : q.category = next[last].name
      BY <2>2, <2>3, <2>4
    <3>3. QED
      BY <2>4, <3>1, <3>2
  <2>7. \A k \in DOMAIN session : ToSet(session[k].queries) \subseteq ToSet(next[k].queries)
    BY <2>4
  <2>8. \E k \in DOMAIN next : query \in ToSet(next[k].queries)
    BY <2>2, <2>3, <2>4
  <2>9. QED
    BY <1>4, <2>4, <2>5, <2>6, <2>7, <2>8 DEF next, query
<1>7. QED
  BY <1>5, <1>6 DEF query

\* The sessions made of the queries up to each place.
AreSessions(sessions, queries, bound) ==
    sessions = [n \in 0..bound |->
                   IF n = 0 THEN << >> ELSE AddQuery(sessions[n - 1], queries[n])]

LEMMA SessionsExist ==
    ASSUME NEW queries \in Seq(QueryDef)
    PROVE  \E sessions : AreSessions(sessions, queries, Len(queries))
<1> DEFINE T == {n \in Nat : \E sessions : AreSessions(sessions, queries, n)}
<1>1. 0 \in T
  <2> DEFINE sessions == [n \in 0..0 |-> << >>]
  <2>1. AreSessions(sessions, queries, 0)
    BY DEF AreSessions
  <2>2. QED
    BY <2>1
<1>2. ASSUME NEW n \in Nat, n \in T
      PROVE  n + 1 \in T
  <2>1. PICK sessions : AreSessions(sessions, queries, n)
    BY <1>2
  <2> DEFINE next == [k \in 0..(n + 1) |-> IF k = n + 1 THEN AddQuery(sessions[n], queries[n + 1])
                                           ELSE sessions[k]]
  <2>2. \A k \in 0..n : sessions[k] = IF k = 0 THEN << >> ELSE AddQuery(sessions[k - 1], queries[k])
    BY <2>1 DEF AreSessions
  <2>3. ASSUME NEW k \in 0..(n + 1)
        PROVE  next[k] = IF k = 0 THEN << >> ELSE AddQuery(next[k - 1], queries[k])
    <3>1. CASE k = n + 1
      <4>1. next[k] = AddQuery(sessions[n], queries[n + 1]) /\ next[k - 1] = sessions[n] /\ k # 0
        BY <3>1
      <4>2. QED
        BY <3>1, <4>1
    <3>2. CASE k \in 1..n
      <4>1. next[k] = sessions[k] /\ next[k - 1] = sessions[k - 1] /\ k # 0
        BY <3>2
      <4>2. QED
        BY <2>2, <3>2, <4>1
    <3>3. CASE k = 0
      <4>1. next[k] = sessions[k] /\ k \in 0..n
        BY <3>3
      <4>2. QED
        BY <2>2, <3>3, <4>1
    <3>4. QED
      BY <3>1, <3>2, <3>3
  <2>4. next = [k \in 0..(n + 1) |-> IF k = 0 THEN << >> ELSE AddQuery(next[k - 1], queries[k])]
    BY <2>3
  <2> HIDE DEF next
  <2>5. AreSessions(next, queries, n + 1)
    BY <2>4 DEF AreSessions
  <2>6. QED
    BY <2>5
<1> HIDE DEF T
<1>3. \A n \in Nat : n \in T
  BY <1>1, <1>2, NumbersFrom
<1>4. Len(queries) \in Nat
  BY LenProperties
<1>5. QED
  BY <1>3, <1>4 DEF T

LEMMA SessionHoldsAll ==
    ASSUME NEW queries \in Seq(QueryDef)
    PROVE  Holds(GroupedByCategory(queries), queries, Len(queries))
<1> DEFINE g == CHOOSE sessions : AreSessions(sessions, queries, Len(queries))
           T == {n \in Nat : n <= Len(queries) => Holds(g[n], queries, n)}
<1>1. AreSessions(g, queries, Len(queries))
  BY SessionsExist
<1>2. GroupedByCategory(queries) = g[Len(queries)]
  BY DEF GroupedByCategory, AreSessions
<1>3. Len(queries) \in Nat
  BY LenProperties
<1> HIDE DEF g
<1>4. \A n \in 0..Len(queries) :
         g[n] = IF n = 0 THEN << >> ELSE AddQuery(g[n - 1], queries[n])
  BY <1>1, <1>3 DEF AreSessions
<1>5. 0 \in T
  <2>1. g[0] = << >>
    BY <1>3, <1>4
  <2>2. << >> \in Seq(Category) /\ DOMAIN << >> = {}
    OBVIOUS
  <2>3. Holds(g[0], queries, 0)
    BY <2>1, <2>2 DEF Holds
  <2>4. QED
    BY <2>3
<1>6. ASSUME NEW n \in Nat, n \in T
      PROVE  n + 1 \in T
  <2> SUFFICES ASSUME n + 1 <= Len(queries)
               PROVE  Holds(g[n + 1], queries, n + 1)
    OBVIOUS
  <2>1. Holds(g[n], queries, n)
    BY <1>3, <1>6
  <2>2. g[n + 1] = AddQuery(g[n], queries[n + 1])
    BY <1>3, <1>4
  <2>3. QED
    BY <2>1, <2>2, QueryAdded
<1> HIDE DEF T
<1>7. \A n \in Nat : n \in T
  BY <1>5, <1>6, NumbersFrom
<1>8. Len(queries) \in T
  BY <1>3, <1>7
<1>9. QED
  BY <1>2, <1>3, <1>8 DEF T

\* The plan of a resource hangs together (build_worker_configmaps, derive_query_session):
\* the barrier's counts are those of the pods, whatever became of the scenario; each query
\* worker of a valid scenario with queries has some to execute; and a session made from
\* the categories has every query in one of them.
THEOREM PlanAlwaysConsistent == Spec => []PlanIsConsistent
<1>1. TypeInv /\ PlannedInv => PlanIsConsistent
  <2> SUFFICES ASSUME TypeInv, PlannedInv, stage = "Running"
               PROVE  /\ plan.controller.expectedIngest = SumOver(plan.ingest, LAMBDA d : d.replicas)
                      /\ plan.controller.expectedQuery = SumOver(plan.query, LAMBDA d : d.replicas)
                      /\ ~edited /\ scenario.queries # << >> =>
                            \A i \in DOMAIN plan.query : CanStart(plan.query[i])
                      /\ plan.session # << >> /\ scenario.session = << >> =>
                            \A q \in ToSet(scenario.queries) :
                                Cardinality({i \in DOMAIN plan.session :
                                                 q \in ToSet(plan.session[i].queries)}) = 1
    BY DEF PlanIsConsistent
  <2>1. scenario \in Scenarios /\ spec \in Specs /\ plan = Plan(scenario, spec)
    BY DEF TypeInv, TypeOK, PlannedInv
  <2>2. plan.controller.expectedIngest = SumOver(plan.ingest, LAMBDA d : d.replicas)
    BY <2>1, IngestExpected
  <2>3. plan.controller.expectedQuery = SumOver(plan.query, LAMBDA d : d.replicas)
    BY <2>1, QueryExpected
  <2>4. ASSUME ~edited, scenario.queries # << >>, NEW i \in DOMAIN plan.query
        PROVE  CanStart(plan.query[i])
    <3>1. Valid(scenario)
      BY <2>4 DEF PlannedInv
    <3>2. QED
      BY <2>1, <2>4, <3>1, WorkersCanStart
  <2>5. ASSUME plan.session # << >>, scenario.session = << >>, NEW q \in ToSet(scenario.queries)
        PROVE  Cardinality({i \in DOMAIN plan.session :
                                q \in ToSet(plan.session[i].queries)}) = 1
    <3> DEFINE session == plan.session
               places == {i \in DOMAIN session : q \in ToSet(session[i].queries)}
    <3>1. session = GroupedByCategory(scenario.queries)
      <4>1. /\ Scaled(scenario, spec).session = scenario.session
            /\ Scaled(scenario, spec).queries = scenario.queries
        BY <2>1, ScaledParts
      <4>2. plan.session = DerivedSession(Scaled(scenario, spec))
        BY <2>1 DEF Plan
      <4>3. QED
        BY <2>5, <4>1, <4>2 DEF DerivedSession
    <3>2. scenario.queries \in Seq(QueryDef)
      BY <2>1, ScenarioParts
    <3>3. Holds(session, scenario.queries, Len(scenario.queries))
      BY <3>1, <3>2, SessionHoldsAll
    <3> HIDE DEF session
    <3>4. PICK m \in 1..Len(scenario.queries) : q = scenario.queries[m]
      BY <2>5, <3>2 DEF ToSet
    <3>5. PICK k \in DOMAIN session : q \in ToSet(session[k].queries)
      BY <3>3, <3>4 DEF Holds
    <3>6. \A i \in places : i = k
      BY <3>3, <3>5 DEF Holds
    <3>7. places = {k}
      BY <3>5, <3>6
    <3>8. Cardinality(places) = 1
      BY <3>7, FS_Singleton
    <3>9. QED
      BY <3>8 DEF session
  <2>6. QED
    BY <2>2, <2>3, <2>4, <2>5
<1>2. QED
  BY InitType, NextType, InitPlanned, NextPlanned, <1>1, PTL DEF Spec

=============================================================================
