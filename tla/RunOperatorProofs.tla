------------------------- MODULE RunOperatorProofs -------------------------
(***************************************************************************)
(* Theorems about RunOperator for any number of operators, any scenario,   *)
(* any lag of the local stores and any number of failures of every kind.   *)
(***************************************************************************)
EXTENDS RunOperator, TLAPS

(***************************************************************************)
(* The versions of the resource that are anywhere: on the server, in a     *)
(* local store or on their way to one.                                     *)
(***************************************************************************)
VersionsIn(S) ==
    /\ cr \in S
    /\ \A o \in Operators : cache[o] \in S
    /\ \A o \in Operators : \A j \in 1..Len(watch[o]) : watch[o][j] \in S

StoresType ==
    /\ cr \in Resource
    /\ cache \in [Operators -> Resource]
    /\ watch \in [Operators -> Seq(Resource)]
    /\ \A o \in Operators : Len(watch[o]) <= MaxLag

\* What a write makes of the versions that are around.
LEMMA PublishType ==
    ASSUME StoresType, NEW new \in Resource, Publish(new)
    PROVE  StoresType'
<1>1. CASE new = cr
  BY <1>1 DEF Publish, crVars, StoresType
<1>2. CASE new # cr
  <2>1. ASSUME NEW o \in Operators
        PROVE  /\ Append(watch[o], new) \in Seq(Resource)
               /\ Len(Append(watch[o], new)) = Len(watch[o]) + 1
               /\ Head(Append(watch[o], new)) \in Resource
               /\ Tail(Append(watch[o], new)) \in Seq(Resource)
               /\ Len(Tail(Append(watch[o], new))) = Len(watch[o])
    <3>1. watch[o] \in Seq(Resource)
      BY DEF StoresType
    <3>2. /\ Append(watch[o], new) \in Seq(Resource)
          /\ Len(Append(watch[o], new)) = Len(watch[o]) + 1
      BY <3>1
    <3>3. Append(watch[o], new) # << >>
      BY <3>1, <3>2
    <3>4. QED
      BY <3>1, <3>2, <3>3
  <2>2. \A o \in Operators : Len(watch[o]) \in Nat
    BY DEF StoresType
  <2>3. /\ cr' = new
        /\ cache' = [o \in Operators |->
                        IF Len(watch[o]) < MaxLag THEN cache[o]
                        ELSE Head(Append(watch[o], new))]
        /\ watch' = [o \in Operators |->
                        IF Len(watch[o]) < MaxLag THEN Append(watch[o], new)
                        ELSE Tail(Append(watch[o], new))]
    BY <1>2 DEF Publish
  <2>4. cache' \in [Operators -> Resource]
    BY <2>1, <2>3 DEF StoresType
  <2>5. watch' \in [Operators -> Seq(Resource)]
    BY <2>1, <2>3 DEF StoresType
  <2>6. ASSUME NEW o \in Operators
        PROVE  Len(watch'[o]) <= MaxLag
    <3>1. CASE Len(watch[o]) < MaxLag
      BY <3>1, <2>1, <2>2, <2>3, LagAssumption DEF StoresType
    <3>2. CASE ~(Len(watch[o]) < MaxLag)
      BY <3>2, <2>1, <2>2, <2>3, LagAssumption DEF StoresType
    <3>3. QED
      BY <3>1, <3>2
  <2>7. QED
    BY <2>3, <2>4, <2>5, <2>6 DEF StoresType
<1>3. QED
  BY <1>1, <1>2

LEMMA PublishVersions ==
    ASSUME StoresType, NEW S \in SUBSET Resource, VersionsIn(S), NEW new \in S, Publish(new)
    PROVE  VersionsIn(S)'
<1>1. CASE new = cr
  BY <1>1 DEF Publish, crVars, VersionsIn
<1>2. CASE new # cr
  <2>1. ASSUME NEW o \in Operators
        PROVE  /\ Head(Append(watch[o], new)) \in S
               /\ \A j \in 1..Len(Append(watch[o], new)) : Append(watch[o], new)[j] \in S
               /\ \A j \in 1..Len(Tail(Append(watch[o], new))) :
                     Tail(Append(watch[o], new))[j] \in S
    <3> DEFINE q == watch[o]
    <3>1. q \in Seq(Resource) /\ \A j \in 1..Len(q) : q[j] \in S
      BY DEF StoresType, VersionsIn
    <3>2. /\ Len(Append(q, new)) = Len(q) + 1
          /\ Append(q, new)[Len(q) + 1] = new
          /\ \A j \in 1..Len(q) : Append(q, new)[j] = q[j]
      BY <3>1
    <3>3. \A j \in 1..Len(Append(q, new)) : Append(q, new)[j] \in S
      BY <3>1, <3>2
    <3>4. /\ Append(q, new) \in Seq(Resource)
          /\ Append(q, new) # << >>
          /\ Head(Append(q, new)) = Append(q, new)[1]
          /\ Len(Append(q, new)) \in Nat \ {0}
      <4>1. Append(q, new) \in Seq(Resource)
        BY <3>1
      <4>2. Len(Append(q, new)) \in Nat \ {0}
        BY <3>1, <3>2
      <4>3. Append(q, new) # << >>
        BY <4>1, <4>2
      <4>4. QED
        BY <4>1, <4>2, <4>3
    <3>5. \A j \in 1..Len(Tail(Append(q, new))) :
             Tail(Append(q, new))[j] = Append(q, new)[j + 1]
             /\ j + 1 \in 1..Len(Append(q, new))
      BY <3>1, <3>2, <3>4
    <3>6. Len(Tail(Append(q, new))) \in Nat
      BY <3>4
    <3>7. QED
      BY <3>3, <3>4, <3>5, <3>6
  <2>2. /\ cr' = new
        /\ cache' = [o \in Operators |->
                        IF Len(watch[o]) < MaxLag THEN cache[o]
                        ELSE Head(Append(watch[o], new))]
        /\ watch' = [o \in Operators |->
                        IF Len(watch[o]) < MaxLag THEN Append(watch[o], new)
                        ELSE Tail(Append(watch[o], new))]
    BY <1>2 DEF Publish
  <2>3. \A o \in Operators : cache'[o] \in S
    BY <2>1, <2>2 DEF VersionsIn
  <2>4. \A o \in Operators : \A j \in 1..Len(watch'[o]) : watch'[o][j] \in S
    BY <2>1, <2>2
  <2>5. QED
    BY <2>2, <2>3, <2>4 DEF VersionsIn
<1>3. QED
  BY <1>1, <1>2

-----------------------------------------------------------------------------
(* Type correctness *)

LocalType ==
    /\ view \in [Operators -> Resource]
    /\ pc \in [Operators -> Steps]
    /\ n \in [Operators -> 1..(Len(StreamSeq) + Len(DeployOrder) + 1)]
    /\ faults \in 0..MaxFaults

ClusterType ==
    /\ topics \subseteq StreamSet
    /\ platform \in BOOLEAN
    /\ prepareCM \in BOOLEAN
    /\ children \in [Children -> {"absent", "up", "zero"}]
    /\ job \in {"none", "active", "succeeded", "failed"}
    /\ timeline \in {"waiting", "complete"}
    /\ agg \in {"collecting", "complete"}
    /\ graceOver \in BOOLEAN
    /\ leaks \subseteq StreamSet \cup Children \cup {"platform", "prepareCM"}

LEMMA TypeParts == TypeOK <=> StoresType /\ LocalType /\ ClusterType
BY DEF TypeOK, StoresType, LocalType, ClusterType

\* Every version that is written is one of the resource.
LEMMA WrittenType ==
    ASSUME cr \in Resource
    PROVE  /\ \A p \in Phases : \A c \in {"none", "progress", "complete", "failed", "cleaned"} :
                 StatusPatch(p, c) \in Resource
           /\ FinalizerSet(cr) \in Resource
           /\ FinalizerDropped(cr) \in Resource
           /\ [cr EXCEPT !.since = TRUE] \in Resource
           /\ [cr EXCEPT !.phase = "Aggregating"] \in Resource
           /\ ReportingWith("metrics") \in Resource
           /\ ReportingWith("empty") \in Resource
           /\ [cr EXCEPT !.cond = "cleaned"] \in Resource
           /\ [cr EXCEPT !.deleting = TRUE, !.exists = cr.finalizer] \in Resource
<1> USE DEF Resource
<1>1. ASSUME NEW p \in Phases,
             NEW c \in {"none", "progress", "complete", "failed", "cleaned"}
      PROVE  StatusPatch(p, c) \in Resource
  BY <1>1 DEF StatusPatch
<1>2. FinalizerSet(cr) \in Resource
  BY DEF FinalizerSet
<1>3. FinalizerDropped(cr) \in Resource
  BY DEF FinalizerDropped
<1>4. [cr EXCEPT !.since = TRUE] \in Resource
  OBVIOUS
<1>5. [cr EXCEPT !.phase = "Aggregating"] \in Resource
  BY DEF Phases
<1>6. ReportingWith("metrics") \in Resource /\ ReportingWith("empty") \in Resource
  BY DEF ReportingWith, Phases
<1>7. [cr EXCEPT !.cond = "cleaned"] \in Resource
  OBVIOUS
<1>8. [cr EXCEPT !.deleting = TRUE, !.exists = cr.finalizer] \in Resource
  OBVIOUS
<1>9. QED
  BY <1>1, <1>2, <1>3, <1>4, <1>5, <1>6, <1>7, <1>8

LEMMA PatchType ==
    ASSUME StoresType, LocalType, NEW o \in Operators, NEW new \in Resource,
           NEW to \in Steps, Patch(o, new, to)
    PROVE  /\ StoresType'
           /\ pc' \in [Operators -> Steps]
           /\ faults' \in 0..MaxFaults
<1>1. StoresType'
  <2>1. CASE Publish(new)
    BY <2>1, PublishType
  <2>2. CASE UNCHANGED crVars
    BY <2>2 DEF StoresType, crVars
  <2>3. QED
    BY <2>1, <2>2 DEF Patch
<1>2. pc' \in [Operators -> Steps]
  <2>1. pc' = [pc EXCEPT ![o] = to] \/ pc' = [pc EXCEPT ![o] = "idle"]
    BY DEF Patch, GoTo
  <2>2. pc \in [Operators -> Steps] /\ "idle" \in Steps
    BY DEF LocalType, Steps
  <2>3. QED
    BY <2>1, <2>2
<1>3. faults' \in 0..MaxFaults
  <2>1. faults' = faults \/ (faults < MaxFaults /\ faults' = faults + 1)
    BY DEF Patch, Failure
  <2>2. QED
    BY <2>1, FailuresAssumption DEF LocalType
<1>4. QED
  BY <1>1, <1>2, <1>3

\* The loops of the handlers end within the bound that n is declared with.
LEMMA LoopLengths ==
    /\ Len(StreamSeq) \in Nat
    /\ Len(DeployOrder) = 4
    /\ Len(ScaleOrder) = 3
    /\ Len(DeleteOrder) = 4
    /\ \A j \in 1..4 : DeployOrder[j] \in Children /\ DeleteOrder[j] \in Children
    /\ \A j \in 1..3 : ScaleOrder[j] \in Children
    /\ \A j \in 1..Len(StreamSeq) : StreamSeq[j] \in StreamSet
BY StreamsAssumption DEF DeployOrder, ScaleOrder, DeleteOrder, Children, StreamSet

LEMMA NextEntryType ==
    ASSUME LocalType, NEW o \in Operators, NEW seq,
           Len(seq) \in 0..(Len(StreamSeq) + 4), InLoop(o, seq), NextEntry(o)
    PROVE  /\ n' \in [Operators -> 1..(Len(StreamSeq) + Len(DeployOrder) + 1)]
           /\ pc' \in [Operators -> Steps]
           /\ n[o] \in 1..Len(seq)
<1>1. n[o] \in 1..Len(seq)
  BY LoopLengths DEF LocalType, InLoop
<1>2. n[o] + 1 \in 1..(Len(StreamSeq) + Len(DeployOrder) + 1)
  BY <1>1, LoopLengths
<1>3. QED
  BY <1>1, <1>2 DEF NextEntry, LocalType

LEMMA GoToLoopType ==
    ASSUME LocalType, NEW o \in Operators, NEW to \in Steps, GoToLoop(o, to)
    PROVE  /\ n' \in [Operators -> 1..(Len(StreamSeq) + Len(DeployOrder) + 1)]
           /\ pc' \in [Operators -> Steps]
BY LoopLengths DEF GoToLoop, GoTo, LocalType

LEMMA FailureType ==
    ASSUME LocalType, NEW kind, Failure(kind)
    PROVE  faults' \in 0..MaxFaults
BY FailuresAssumption DEF Failure, LocalType

LEMMA InitType == Init => TypeOK
<1> SUFFICES ASSUME Init
             PROVE  TypeOK
  OBVIOUS
<1>1. cr \in Resource
  BY DEF Init, NewRun, Resource, Phases, Terminal
<1>2. << >> \in Seq(Resource) /\ Len(<< >>) = 0
  OBVIOUS
<1>3. StoresType
  BY <1>1, <1>2, LagAssumption DEF Init, StoresType
<1>4. LocalType
  BY <1>1, LoopLengths, FailuresAssumption DEF Init, LocalType, Steps
<1>5. ClusterType
  BY DEF Init, ClusterType
<1>6. QED
  BY <1>3, <1>4, <1>5, TypeParts

\* The calls that write the resource.
LEMMA WritesType ==
    ASSUME TypeOK, NEW o \in Operators,
           \/ MarkFailed(o)
           \/ FinishDryRun(o) \/ AddFinalizer(o) \/ ToPreparing(o)
           \/ ToInitializing(o) \/ ToRunning(o)
           \/ AnnotateSince(o) \/ ToAggregating(o)
           \/ FetchResults(o) \/ JobDone(o)
           \/ DropFinalizer(o) \/ MarkCleaned(o)
    PROVE  TypeOK'
<1> USE TypeParts
<1>0. StoresType /\ LocalType /\ ClusterType /\ cr \in Resource
  BY DEF StoresType
<1>1. /\ StoresType'
      /\ pc' \in [Operators -> Steps]
      /\ faults' \in 0..MaxFaults
  <2> USE <1>0, WrittenType, PatchType DEF Steps, Phases, Terminal
  <2>1. CASE MarkFailed(o)
    BY <2>1 DEF MarkFailed
  <2>2. CASE FinishDryRun(o)
    BY <2>2 DEF FinishDryRun
  <2>3. CASE AddFinalizer(o)
    <3>1. CASE view[o].finalizer
      BY <2>3, <3>1 DEF AddFinalizer, GoTo, LocalType, StoresType, crVars
    <3>2. CASE ~view[o].finalizer
      BY <2>3, <3>2 DEF AddFinalizer
    <3>3. QED
      BY <3>1, <3>2
  <2>4. CASE ToPreparing(o)
    BY <2>4 DEF ToPreparing
  <2>5. CASE ToInitializing(o)
    BY <2>5 DEF ToInitializing
  <2>6. CASE ToRunning(o)
    BY <2>6 DEF ToRunning
  <2>7. CASE AnnotateSince(o)
    BY <2>7 DEF AnnotateSince
  <2>8. CASE ToAggregating(o)
    BY <2>8 DEF ToAggregating
  <2>9. CASE FetchResults(o)
    BY <2>9 DEF FetchResults
  <2>10. CASE JobDone(o)
    BY <2>10 DEF JobDone
  <2>11. CASE DropFinalizer(o)
    BY <2>11 DEF DropFinalizer
  <2>12. CASE MarkCleaned(o)
    BY <2>12 DEF MarkCleaned
  <2>13. QED
    BY <2>1, <2>2, <2>3, <2>4, <2>5, <2>6, <2>7, <2>8, <2>9, <2>10, <2>11, <2>12
<1>2. view' = view /\ n' = n
  BY DEF MarkFailed, FinishDryRun, AddFinalizer, ToPreparing, ToInitializing,
         ToRunning, AnnotateSince, ToAggregating, FetchResults, JobDone,
         DropFinalizer, MarkCleaned
<1>3. /\ UNCHANGED <<infraVars, clusterVars, timeline, leaks>>
      /\ agg' \in {agg, "complete"}
      /\ graceOver' \in {graceOver, FALSE}
  BY DEF MarkFailed, FinishDryRun, AddFinalizer, ToPreparing, ToInitializing,
         ToRunning, AnnotateSince, ToAggregating, FetchResults, JobDone,
         DropFinalizer, MarkCleaned, benchVars
<1>4. LocalType'
  BY <1>0, <1>1, <1>2 DEF LocalType
<1>5. ClusterType'
  BY <1>0, <1>3 DEF ClusterType, infraVars, clusterVars
<1>6. QED
  BY <1>1, <1>4, <1>5 DEF TypeOK, StoresType, LocalType, ClusterType

\* The calls made once per stream or Deployment.
LEMMA LoopsType ==
    ASSUME TypeOK, NEW o \in Operators,
           \/ CreateTopic(o) \/ Deploy(o) \/ ScaleDown(o)
           \/ DeleteChild(o) \/ DeleteTopic(o)
    PROVE  TypeOK'
<1>0. StoresType /\ LocalType /\ ClusterType
  BY TypeParts
<1>1. UNCHANGED <<crVars, view, benchVars>>
  BY DEF CreateTopic, Deploy, ScaleDown, DeleteChild, DeleteTopic
<1>2. StoresType'
  BY <1>0, <1>1 DEF StoresType, crVars
<1>3. CASE CreateTopic(o)
  <2>1. CASE Failure("prepare") /\ GoTo(o, "fail") /\ UNCHANGED <<topics, n>>
    BY <1>0, <1>1, <1>2, <1>3, <2>1, FailureType
       DEF CreateTopic, GoTo, Steps, clusterVars, benchVars, TypeOK, StoresType,
           LocalType, ClusterType
  <2>2. CASE NextEntry(o) /\ UNCHANGED faults
    <3>1. InLoop(o, StreamSeq) /\ Len(StreamSeq) \in 0..(Len(StreamSeq) + 4)
      BY <1>3, LoopLengths DEF CreateTopic
    <3>2. /\ n' \in [Operators -> 1..(Len(StreamSeq) + Len(DeployOrder) + 1)]
          /\ pc' \in [Operators -> Steps]
          /\ n[o] \in 1..Len(StreamSeq)
      BY <1>0, <2>2, <3>1, NextEntryType
    <3>3. topics' \subseteq StreamSet
      BY <1>0, <1>3, <3>2, LoopLengths DEF CreateTopic, ClusterType
    <3>4. UNCHANGED <<platform, clusterVars, leaks>>
      BY <1>3 DEF CreateTopic
    <3>5. QED
      BY <1>0, <1>1, <1>2, <2>2, <3>2, <3>3, <3>4
         DEF clusterVars, benchVars, TypeOK, StoresType, LocalType, ClusterType
  <2>3. QED
    BY <1>3, <2>1, <2>2 DEF CreateTopic
<1>4. CASE Deploy(o) \/ ScaleDown(o)
  <2>1. PICK seq \in {DeployOrder, ScaleOrder} : InLoop(o, seq) /\ NextEntry(o)
    BY <1>4 DEF Deploy, ScaleDown
  <2>2. Len(seq) \in 0..(Len(StreamSeq) + 4)
    <3>1. CASE seq = DeployOrder
      BY <3>1, LoopLengths
    <3>2. CASE seq = ScaleOrder
      BY <3>2, LoopLengths
    <3>3. QED
      BY <2>1, <3>1, <3>2
  <2>3. /\ n' \in [Operators -> 1..(Len(StreamSeq) + Len(DeployOrder) + 1)]
        /\ pc' \in [Operators -> Steps]
    BY <1>0, <2>1, <2>2, NextEntryType
  <2>4. faults' \in 0..MaxFaults
    BY <1>0, <1>4, FailureType DEF Deploy, ScaleDown, LocalType
  <2>5. children' \in [Children -> {"absent", "up", "zero"}]
    BY <1>0, <1>4 DEF Deploy, ScaleDown, ClusterType
  <2>6. UNCHANGED <<infraVars, prepareCM, job, leaks>>
    BY <1>4 DEF Deploy, ScaleDown
  <2>7. QED
    BY <1>0, <1>1, <1>2, <2>3, <2>4, <2>5, <2>6
       DEF infraVars, benchVars, TypeOK, StoresType, LocalType, ClusterType
<1>5. CASE DeleteChild(o)
  <2>1. /\ InLoop(o, DeleteOrder) /\ NextEntry(o)
        /\ Len(DeleteOrder) \in 0..(Len(StreamSeq) + 4)
    BY <1>5, LoopLengths DEF DeleteChild
  <2>2. /\ n' \in [Operators -> 1..(Len(StreamSeq) + Len(DeployOrder) + 1)]
        /\ pc' \in [Operators -> Steps]
        /\ n[o] \in 1..Len(DeleteOrder)
    BY <1>0, <2>1, NextEntryType
  <2>3. faults' \in 0..MaxFaults
    BY <1>0, <1>5, FailureType DEF DeleteChild, LocalType
  <2>4. DeleteOrder[n[o]] \in Children
    BY <2>2, LoopLengths
  <2>5. /\ children' \in [Children -> {"absent", "up", "zero"}]
        /\ leaks' \subseteq StreamSet \cup Children \cup {"platform", "prepareCM"}
    BY <1>0, <1>5, <2>4 DEF DeleteChild, ClusterType
  <2>6. UNCHANGED <<infraVars, prepareCM, job>>
    BY <1>5 DEF DeleteChild
  <2>7. QED
    BY <1>0, <1>1, <1>2, <2>2, <2>3, <2>5, <2>6
       DEF infraVars, benchVars, TypeOK, StoresType, LocalType, ClusterType
<1>6. CASE DeleteTopic(o)
  <2>1. InLoop(o, StreamSeq) /\ NextEntry(o)
    BY <1>6 DEF DeleteTopic
  <2>2. /\ n' \in [Operators -> 1..(Len(StreamSeq) + Len(DeployOrder) + 1)]
        /\ pc' \in [Operators -> Steps]
        /\ n[o] \in 1..Len(StreamSeq)
    BY <1>0, <2>1, LoopLengths, NextEntryType
  <2>3. faults' \in 0..MaxFaults
    BY <1>0, <1>6, FailureType DEF DeleteTopic, LocalType
  <2>4. StreamSeq[n[o]] \in StreamSet
    BY <2>2, LoopLengths
  <2>5. /\ topics' \subseteq StreamSet
        /\ leaks' \subseteq StreamSet \cup Children \cup {"platform", "prepareCM"}
    BY <1>0, <1>6, <2>4 DEF DeleteTopic, ClusterType
  <2>6. UNCHANGED <<platform, clusterVars>>
    BY <1>6 DEF DeleteTopic
  <2>7. QED
    BY <1>0, <1>1, <1>2, <2>2, <2>3, <2>5, <2>6
       DEF clusterVars, benchVars, TypeOK, StoresType, LocalType, ClusterType
<1>7. QED
  BY <1>3, <1>4, <1>5, <1>6

\* The other calls of the handlers.
LEMMA CallsType ==
    ASSUME TypeOK, NEW o \in Operators,
           \/ Reconcile(o)
           \/ PrepareAdapter(o) \/ StorePrepare(o) \/ ReadPrepare(o)
           \/ CheckHealth(o) \/ Poll(o) \/ AskAggregator(o)
           \/ FindJob(o) \/ JobPending(o)
           \/ DeletePrepare(o) \/ CleanAdapter(o)
    PROVE  TypeOK'
<1>0. StoresType /\ LocalType /\ ClusterType
  BY TypeParts
<1>1. UNCHANGED <<crVars, benchVars>>
  BY DEF Reconcile, PrepareAdapter, StorePrepare, ReadPrepare, CheckHealth, Poll,
         AskAggregator, FindJob, JobPending, DeletePrepare, CleanAdapter
<1>2. StoresType'
  BY <1>0, <1>1 DEF StoresType, crVars
<1>3. view' \in [Operators -> Resource]
  BY <1>0 DEF Reconcile, PrepareAdapter, StorePrepare, ReadPrepare, CheckHealth,
         Poll, AskAggregator, FindJob, JobPending, DeletePrepare, CleanAdapter,
         LocalType, StoresType
<1>4. faults' \in 0..MaxFaults
  BY <1>0, FailureType
     DEF Reconcile, PrepareAdapter, StorePrepare, ReadPrepare, CheckHealth, Poll,
         AskAggregator, FindJob, JobPending, DeletePrepare, CleanAdapter, LocalType
<1>5. ClusterType'
  <2>1. /\ topics' \subseteq StreamSet
        /\ platform' \in BOOLEAN
        /\ prepareCM' \in BOOLEAN
    BY <1>0
       DEF Reconcile, PrepareAdapter, StorePrepare, ReadPrepare, CheckHealth, Poll,
           AskAggregator, FindJob, JobPending, DeletePrepare, CleanAdapter,
           infraVars, clusterVars, ClusterType
  <2>2. children' = children
    BY DEF Reconcile, PrepareAdapter, StorePrepare, ReadPrepare, CheckHealth, Poll,
           AskAggregator, FindJob, JobPending, DeletePrepare, CleanAdapter,
           clusterVars
  <2>3. job' \in {"none", "active", "succeeded", "failed"}
    BY <1>0
       DEF Reconcile, PrepareAdapter, StorePrepare, ReadPrepare, CheckHealth, Poll,
           AskAggregator, FindJob, JobPending, DeletePrepare, CleanAdapter,
           clusterVars, ClusterType
  <2>4. leaks' \subseteq StreamSet \cup Children \cup {"platform", "prepareCM"}
    BY <1>0
       DEF Reconcile, PrepareAdapter, StorePrepare, ReadPrepare, CheckHealth, Poll,
           AskAggregator, FindJob, JobPending, DeletePrepare, CleanAdapter,
           ClusterType
  <2>5. QED
    BY <1>0, <1>1, <2>1, <2>2, <2>3, <2>4 DEF ClusterType, benchVars
<1>6. /\ n' \in [Operators -> 1..(Len(StreamSeq) + Len(DeployOrder) + 1)]
      /\ pc' \in [Operators -> Steps]
  <2>1. CASE Reconcile(o)
    <3>1. cache[o] \in Resource
      BY <1>0 DEF StoresType
    <3>2. Handler(cache[o]) \in Steps
      BY <3>1 DEF Handler, Resource, Phases, Terminal, Steps
    <3>3. QED
      BY <1>0, <2>1, <3>2, GoToLoopType DEF Reconcile
  <2>2. CASE ReadPrepare(o) \/ Poll(o) \/ DeletePrepare(o) \/ CleanAdapter(o)
    <3>1. \E to \in Steps : GoToLoop(o, to)
      BY <2>2 DEF ReadPrepare, Poll, DeletePrepare, CleanAdapter, Steps
    <3>2. QED
      BY <1>0, <3>1, GoToLoopType
  <2>3. CASE \/ PrepareAdapter(o) \/ StorePrepare(o) \/ CheckHealth(o)
             \/ AskAggregator(o) \/ FindJob(o) \/ JobPending(o)
    <3>1. n' = n /\ \E to \in Steps : GoTo(o, to)
      BY <2>3 DEF PrepareAdapter, StorePrepare, CheckHealth, AskAggregator, FindJob,
                  JobPending, Steps
    <3>2. QED
      BY <1>0, <3>1 DEF GoTo, LocalType
  <2>4. QED
    BY <2>1, <2>2, <2>3
<1>7. QED
  BY <1>2, <1>3, <1>4, <1>5, <1>6 DEF TypeOK, StoresType, LocalType, ClusterType

\* The watch, crashes of the operator, the user, the cluster and the benchmark.
LEMMA SurroundingsType ==
    ASSUME TypeOK,
           \/ \E o \in Operators : WatchDelivers(o) \/ OperatorRestarts(o)
           \/ Benchmark
           \/ Cluster
    PROVE  TypeOK'
<1>0. StoresType /\ LocalType /\ ClusterType
  BY TypeParts
<1>1. ASSUME NEW o \in Operators, WatchDelivers(o)
      PROVE  TypeOK'
  <2>1. watch[o] \in Seq(Resource) /\ watch[o] # << >>
    BY <1>0, <1>1 DEF WatchDelivers, StoresType
  <2>2. /\ Head(watch[o]) \in Resource
        /\ Tail(watch[o]) \in Seq(Resource)
        /\ Len(Tail(watch[o])) = Len(watch[o]) - 1
        /\ Len(watch[o]) \in Nat
    BY <2>1
  <2>3. StoresType'
    BY <1>0, <1>1, <2>2, LagAssumption DEF WatchDelivers, StoresType
  <2>4. UNCHANGED <<localVars, infraVars, clusterVars, benchVars, faults, leaks>>
    BY <1>1 DEF WatchDelivers
  <2>5. QED
    BY <1>0, <2>3, <2>4
       DEF localVars, infraVars, clusterVars, benchVars,
           TypeOK, StoresType, LocalType, ClusterType
<1>2. ASSUME NEW o \in Operators, OperatorRestarts(o)
      PROVE  TypeOK'
  <2>1. << >> \in Seq(Resource) /\ Len(<< >>) = 0
    OBVIOUS
  <2>2. StoresType'
    BY <1>0, <1>2, <2>1, LagAssumption DEF OperatorRestarts, StoresType
  <2>3. /\ n' \in [Operators -> 1..(Len(StreamSeq) + Len(DeployOrder) + 1)]
        /\ pc' \in [Operators -> Steps]
    BY <1>0, <1>2, GoToLoopType DEF OperatorRestarts, Steps
  <2>4. faults' \in 0..MaxFaults /\ view' \in [Operators -> Resource]
    BY <1>0, <1>2, FailureType DEF OperatorRestarts, LocalType, StoresType
  <2>5. UNCHANGED <<infraVars, clusterVars, benchVars, leaks>>
    BY <1>2 DEF OperatorRestarts
  <2>6. QED
    BY <1>0, <2>2, <2>3, <2>4, <2>5
       DEF infraVars, clusterVars, benchVars,
           TypeOK, StoresType, LocalType, ClusterType
<1>3. CASE Benchmark
  <2>1. UNCHANGED <<crVars, localVars, infraVars, clusterVars, leaks>>
    BY <1>3 DEF Benchmark, TimelineEnds, ControllerRestarts, AggregationCompletes,
                AggregatorRestarts, GraceElapses
  <2>2. faults' \in 0..MaxFaults
    BY <1>0, <1>3, FailureType
       DEF Benchmark, TimelineEnds, ControllerRestarts, AggregationCompletes,
           AggregatorRestarts, GraceElapses, LocalType
  <2>3. /\ timeline' \in {"waiting", "complete"}
        /\ agg' \in {"collecting", "complete"}
        /\ graceOver' \in BOOLEAN
    BY <1>0, <1>3
       DEF Benchmark, TimelineEnds, ControllerRestarts, AggregationCompletes,
           AggregatorRestarts, GraceElapses, ClusterType
  <2>4. QED
    BY <1>0, <2>1, <2>2, <2>3
       DEF crVars, localVars, infraVars, clusterVars,
           TypeOK, StoresType, LocalType, ClusterType
<1>4. CASE UserDeletes
  <2>1. [cr EXCEPT !.deleting = TRUE, !.exists = cr.finalizer] \in Resource
    BY <1>0, WrittenType DEF StoresType
  <2>2. StoresType'
    BY <1>0, <1>4, <2>1, PublishType DEF UserDeletes
  <2>3. UNCHANGED <<localVars, infraVars, clusterVars, benchVars, faults, leaks>>
    BY <1>4 DEF UserDeletes
  <2>4. QED
    BY <1>0, <2>2, <2>3
       DEF localVars, infraVars, clusterVars, benchVars,
           TypeOK, StoresType, LocalType, ClusterType
<1>5. CASE CollectGarbage \/ ReporterEnds \/ JobExpires
  <2>1. UNCHANGED <<crVars, localVars, infraVars, benchVars, leaks>>
    BY <1>5 DEF CollectGarbage, ReporterEnds, JobExpires
  <2>2. faults' \in 0..MaxFaults
    BY <1>0, <1>5, FailureType DEF CollectGarbage, ReporterEnds, JobExpires, LocalType
  <2>3. /\ prepareCM' \in BOOLEAN
        /\ children' \in [Children -> {"absent", "up", "zero"}]
        /\ job' \in {"none", "active", "succeeded", "failed"}
    BY <1>0, <1>5 DEF CollectGarbage, ReporterEnds, JobExpires, ClusterType
  <2>4. QED
    BY <1>0, <2>1, <2>2, <2>3
       DEF crVars, localVars, infraVars, benchVars,
           TypeOK, StoresType, LocalType, ClusterType
<1>6. QED
  BY <1>1, <1>2, <1>3, <1>4, <1>5 DEF Cluster

LEMMA NextType == TypeOK /\ [Next]_vars => TypeOK'
<1> SUFFICES ASSUME TypeOK, [Next]_vars
             PROVE  TypeOK'
  OBVIOUS
<1>1. CASE UNCHANGED vars
  BY <1>1 DEF vars, crVars, localVars, infraVars, clusterVars, benchVars, TypeOK
<1>2. ASSUME NEW o \in Operators, HandlerStep(o)
      PROVE  TypeOK'
  BY <1>2, WritesType, LoopsType, CallsType DEF HandlerStep
<1>3. ASSUME NEW o \in Operators, OperatorNext(o)
      PROVE  TypeOK'
  BY <1>2, <1>3, CallsType, SurroundingsType DEF OperatorNext
<1>4. QED
  BY <1>1, <1>3, SurroundingsType DEF Next

\* Type correctness of the reconciler: every version of the resource and every
\* local variable of an operator stays in its type (all of controller.rs).
THEOREM TypeCorrect == Spec => []TypeOK
<1>1. QED
  BY InitType, NextType, PTL DEF Spec

-----------------------------------------------------------------------------
(***************************************************************************)
(* The bounded wait and the results of a run.  A reconciliation acts on    *)
(* copies of the resource, so both invariants have to speak of every copy  *)
(* and of every handler that has acted on one:                             *)
(*   - a handler about to write Aggregating has written the annotation,    *)
(*     which no write takes back;                                          *)
(*   - a version in phase Reporting exists only when the resource on the   *)
(*     server has results, which no write takes back either, so a handler  *)
(*     that looks at the reporter Job runs only then.                      *)
(***************************************************************************)
SinceBeforeAggregating ==
    /\ AggregatingIsBounded
    /\ \A o \in Operators : pc[o] = "toAggregating" => cr.since

\* Copies of a run that is (not) a dry run and has (no) results yet.
CopiesOf(dry, reported) ==
    {r \in Resource : r.dryRun = dry /\ (r.phase = "Reporting" => reported)}

ReportedBeforeCompleted ==
    /\ VersionsIn(CopiesOf(cr.dryRun, cr.results # "none"))
    /\ \A o \in Operators : pc[o] = "dryRun" => cr.dryRun
    /\ \A o \in Operators : pc[o] \in {"findJob", "checkJob"} => cr.results # "none"
    /\ cr.phase = "Completed" => cr.dryRun \/ cr.results # "none"

RunInv == SinceBeforeAggregating /\ ReportedBeforeCompleted

LEMMA InitRunInv == Init => RunInv
<1> SUFFICES ASSUME Init
             PROVE  RunInv
  OBVIOUS
<1>1. TypeOK
  BY InitType
<1>2. cr \in Resource /\ cr.phase = "Pending"
  BY <1>1 DEF TypeOK, Init, NewRun
<1>3. \A o \in Operators : cache[o] = cr /\ watch[o] = << >> /\ pc[o] = "idle"
  BY DEF Init
<1>4. \A j : j \notin 1..Len(<< >>)
  OBVIOUS
<1>5. VersionsIn(CopiesOf(cr.dryRun, cr.results # "none"))
  BY <1>2, <1>3, <1>4 DEF VersionsIn, CopiesOf
<1>6. QED
  BY <1>2, <1>3, <1>5
     DEF RunInv, SinceBeforeAggregating, AggregatingIsBounded, ReportedBeforeCompleted

LEMMA VersionsGrow ==
    ASSUME NEW S, NEW T, S \subseteq T, VersionsIn(S)
    PROVE  VersionsIn(T)
BY DEF VersionsIn

\* What a write may do: it keeps the kind of run, the annotation and the results,
\* and enters Reporting only with results.
Writable(new) ==
    /\ new \in Resource
    /\ new.dryRun = cr.dryRun
    /\ cr.since => new.since
    /\ cr.results # "none" => new.results # "none"
    /\ new.phase = "Reporting" => new.results # "none"

LEMMA PublishCopies ==
    ASSUME TypeOK, VersionsIn(CopiesOf(cr.dryRun, cr.results # "none")),
           NEW new, Writable(new), Publish(new)
    PROVE  /\ cr' = new
           /\ VersionsIn(CopiesOf(cr.dryRun, cr.results # "none"))'
<1>1. cr' = new
  BY DEF Publish, crVars
<1>2. StoresType
  BY TypeParts
<1>3. PICK dry \in BOOLEAN : dry = new.dryRun
  BY DEF Writable, Resource
<1>4. PICK reported \in BOOLEAN : reported <=> new.results # "none"
  OBVIOUS
<1>5. CopiesOf(cr.dryRun, cr.results # "none") \subseteq CopiesOf(dry, reported)
  BY <1>3, <1>4 DEF CopiesOf, Writable
<1>6. VersionsIn(CopiesOf(dry, reported))
  BY <1>5, VersionsGrow
<1>7. /\ CopiesOf(dry, reported) \in SUBSET Resource
      /\ new \in CopiesOf(dry, reported)
  BY <1>3, <1>4 DEF CopiesOf, Writable
<1>8. VersionsIn(CopiesOf(dry, reported))'
  BY <1>2, <1>6, <1>7, PublishVersions
<1>9. CopiesOf(dry, reported) = CopiesOf(cr'.dryRun, cr'.results # "none")
  BY <1>1, <1>3, <1>4 DEF CopiesOf
<1>10. QED
  BY <1>1, <1>8, <1>9 DEF VersionsIn

\* A patch is written, or the reconciliation ends.
LEMMA PatchCopies ==
    ASSUME TypeOK, VersionsIn(CopiesOf(cr.dryRun, cr.results # "none")),
           NEW o \in Operators, NEW new, NEW to, Writable(new), Patch(o, new, to)
    PROVE  /\ VersionsIn(CopiesOf(cr.dryRun, cr.results # "none"))'
           /\ \/ cr' = new /\ pc' = [pc EXCEPT ![o] = to]
              \/ cr' = cr /\ pc' = [pc EXCEPT ![o] = "idle"]
<1>1. CASE Publish(new) /\ GoTo(o, to)
  BY <1>1, PublishCopies DEF GoTo
<1>2. CASE UNCHANGED crVars /\ GoTo(o, "idle")
  BY <1>2 DEF crVars, GoTo, VersionsIn
<1>3. QED
  BY <1>1, <1>2 DEF Patch

\* What the calls that write the resource write is writable.
LEMMA WritesWritable ==
    ASSUME TypeOK, RunInv
    PROVE  /\ \A p \in Phases \ {"Reporting"} :
                 \A c \in {"none", "progress", "complete", "failed", "cleaned"} :
                    Writable(StatusPatch(p, c))
           /\ Writable(FinalizerSet(cr))
           /\ Writable(FinalizerDropped(cr))
           /\ Writable([cr EXCEPT !.since = TRUE])
           /\ Writable([cr EXCEPT !.phase = "Aggregating"])
           /\ Writable(ReportingWith("metrics"))
           /\ Writable(ReportingWith("empty"))
           /\ Writable([cr EXCEPT !.cond = "cleaned"])
           /\ Writable([cr EXCEPT !.deleting = TRUE, !.exists = cr.finalizer])
<1>1. cr \in Resource
  BY DEF TypeOK
<1>2. cr.phase = "Reporting" => cr.results # "none"
  BY DEF RunInv, ReportedBeforeCompleted, VersionsIn, CopiesOf
<1>3. ASSUME NEW p \in Phases \ {"Reporting"},
             NEW c \in {"none", "progress", "complete", "failed", "cleaned"}
      PROVE  Writable(StatusPatch(p, c))
  <2>1. StatusPatch(p, c) \in Resource
    BY <1>1, WrittenType
  <2>2. /\ StatusPatch(p, c).phase = p
        /\ StatusPatch(p, c).dryRun = cr.dryRun
        /\ StatusPatch(p, c).since = cr.since
        /\ StatusPatch(p, c).results = cr.results
    BY <1>1 DEF StatusPatch, Resource
  <2>3. QED
    BY <2>1, <2>2 DEF Writable
<1>4. Writable(FinalizerSet(cr))
  BY <1>1, <1>2, WrittenType DEF Writable, Resource, FinalizerSet
<1>5. Writable(FinalizerDropped(cr))
  BY <1>1, <1>2, WrittenType DEF Writable, Resource, FinalizerDropped
<1>6. Writable([cr EXCEPT !.since = TRUE])
  BY <1>1, <1>2, WrittenType DEF Writable, Resource
<1>7. Writable([cr EXCEPT !.phase = "Aggregating"])
  BY <1>1, <1>2, WrittenType DEF Writable, Resource
<1>8. Writable(ReportingWith("metrics")) /\ Writable(ReportingWith("empty"))
  BY <1>1, WrittenType DEF Writable, Resource, ReportingWith
<1>9. Writable([cr EXCEPT !.cond = "cleaned"])
  BY <1>1, <1>2, WrittenType DEF Writable, Resource
<1>10. Writable([cr EXCEPT !.deleting = TRUE, !.exists = cr.finalizer])
  BY <1>1, <1>2, WrittenType DEF Writable, Resource
<1>11. QED
  BY <1>3, <1>4, <1>5, <1>6, <1>7, <1>8, <1>9, <1>10

\* A write keeps the invariant when the step it leads to has what it needs.
LEMMA PatchKeeps ==
    ASSUME TypeOK, RunInv, NEW o \in Operators, NEW new, NEW to, Writable(new),
           Patch(o, new, to),
           to # "dryRun", to \notin {"findJob", "checkJob"},
           to = "toAggregating" => new.since,
           new.phase = "Aggregating" => new.since,
           new.phase = "Completed" => new.dryRun \/ new.results # "none"
    PROVE  RunInv'
<1>1. /\ VersionsIn(CopiesOf(cr.dryRun, cr.results # "none"))'
      /\ \/ cr' = new /\ pc' = [pc EXCEPT ![o] = to]
         \/ cr' = cr /\ pc' = [pc EXCEPT ![o] = "idle"]
  BY PatchCopies DEF RunInv, ReportedBeforeCompleted
<1>2. pc \in [Operators -> Steps]
  BY DEF TypeOK
<1>3. SinceBeforeAggregating'
  BY <1>1, <1>2
     DEF RunInv, SinceBeforeAggregating, AggregatingIsBounded, Writable
<1>4. ReportedBeforeCompleted'
  BY <1>1, <1>2 DEF RunInv, ReportedBeforeCompleted, Writable
<1>5. QED
  BY <1>3, <1>4 DEF RunInv

LEMMA WritesKeep ==
    ASSUME TypeOK, RunInv, NEW o \in Operators,
           \/ MarkFailed(o)
           \/ FinishDryRun(o) \/ AddFinalizer(o) \/ ToPreparing(o)
           \/ ToInitializing(o) \/ ToRunning(o)
           \/ AnnotateSince(o) \/ ToAggregating(o)
           \/ FetchResults(o) \/ JobDone(o)
           \/ DropFinalizer(o) \/ MarkCleaned(o)
    PROVE  RunInv'
<1>0. cr \in Resource /\ pc \in [Operators -> Steps]
  BY DEF TypeOK
<1>1. /\ cr.phase = "Aggregating" => cr.since
      /\ cr.phase = "Completed" => cr.dryRun \/ cr.results # "none"
  BY DEF RunInv, SinceBeforeAggregating, AggregatingIsBounded, ReportedBeforeCompleted
<1> DEFINE Keeps(new, to) ==
        /\ Writable(new)
        /\ to # "dryRun"
        /\ to \notin {"findJob", "checkJob"}
        /\ to = "toAggregating" => new.since
        /\ new.phase = "Aggregating" => new.since
        /\ new.phase = "Completed" => new.dryRun \/ new.results # "none"
<1>2. ASSUME NEW p \in Phases \ {"Reporting", "Aggregating", "Completed"},
             NEW c \in {"none", "progress", "complete", "failed", "cleaned"}
      PROVE  Keeps(StatusPatch(p, c), "idle")
  BY <1>0, WritesWritable DEF StatusPatch, Resource
<1>3. CASE MarkFailed(o)
  BY <1>2, <1>3, PatchKeeps DEF MarkFailed, Phases, Terminal
<1>4. CASE FinishDryRun(o)
  <2>1. cr.dryRun
    BY <1>4 DEF FinishDryRun, At, RunInv, ReportedBeforeCompleted
  <2>2. Keeps(StatusPatch("Completed", "cleaned"), "idle")
    BY <1>0, <2>1, WritesWritable DEF StatusPatch, Resource, Phases, Terminal
  <2>3. QED
    BY <1>4, <2>2, PatchKeeps DEF FinishDryRun
<1>5. CASE AddFinalizer(o)
  <2>1. CASE view[o].finalizer
    BY <1>0, <1>5, <2>1
       DEF AddFinalizer, GoTo, crVars, RunInv, SinceBeforeAggregating,
           AggregatingIsBounded, ReportedBeforeCompleted, VersionsIn, CopiesOf
  <2>2. CASE ~view[o].finalizer
    <3>1. Keeps(FinalizerSet(cr), "toPreparing")
      BY <1>0, <1>1, WritesWritable DEF FinalizerSet, Resource
    <3>2. QED
      BY <1>5, <2>2, <3>1, PatchKeeps DEF AddFinalizer
  <2>3. QED
    BY <2>1, <2>2
<1>6. CASE ToPreparing(o)
  BY <1>2, <1>6, PatchKeeps DEF ToPreparing, Phases
<1>7. CASE ToInitializing(o)
  BY <1>2, <1>7, PatchKeeps DEF ToInitializing, Phases
<1>8. CASE ToRunning(o)
  BY <1>2, <1>8, PatchKeeps DEF ToRunning, Phases
<1>9. CASE AnnotateSince(o)
  <2>1. Keeps([cr EXCEPT !.since = TRUE], "toAggregating")
    BY <1>0, <1>1, WritesWritable DEF Resource
  <2>2. QED
    BY <1>9, <2>1, PatchKeeps DEF AnnotateSince
<1>10. CASE ToAggregating(o)
  <2>1. cr.since
    BY <1>10 DEF ToAggregating, At, RunInv, SinceBeforeAggregating
  <2>2. Keeps([cr EXCEPT !.phase = "Aggregating"], "idle")
    BY <1>0, <2>1, WritesWritable DEF Resource
  <2>3. QED
    BY <1>10, <2>2, PatchKeeps DEF ToAggregating
<1>11. CASE FetchResults(o)
  <2>1. /\ Keeps(ReportingWith("metrics"), "idle")
        /\ Keeps(ReportingWith("empty"), "idle")
    BY <1>0, WritesWritable DEF ReportingWith, Resource
  <2>2. QED
    BY <1>11, <2>1, PatchKeeps DEF FetchResults
<1>12. CASE JobDone(o)
  <2>1. cr.results # "none"
    BY <1>12 DEF JobDone, At, RunInv, ReportedBeforeCompleted
  <2>2. Keeps(StatusPatch("Completed", "complete"), "idle")
    BY <1>0, <2>1, WritesWritable DEF StatusPatch, Resource, Phases, Terminal
  <2>3. QED
    BY <1>12, <2>2, PatchKeeps DEF JobDone
<1>13. CASE DropFinalizer(o)
  <2>1. Keeps(FinalizerDropped(cr), "markCleaned")
    BY <1>0, <1>1, WritesWritable DEF FinalizerDropped, Resource
  <2>2. QED
    BY <1>13, <2>1, PatchKeeps DEF DropFinalizer
<1>14. CASE MarkCleaned(o)
  <2>1. Keeps([cr EXCEPT !.cond = "cleaned"], "idle")
    BY <1>0, <1>1, WritesWritable DEF Resource
  <2>2. QED
    BY <1>14, <2>1, PatchKeeps DEF MarkCleaned
<1>15. QED
  BY <1>3, <1>4, <1>5, <1>6, <1>7, <1>8, <1>9, <1>10, <1>11, <1>12, <1>13, <1>14

\* The other steps of the handlers leave the versions alone and enter the steps
\* that the invariant speaks of only from where it allows.
LEMMA CallsKeep ==
    ASSUME TypeOK, RunInv, NEW o \in Operators,
           \/ Reconcile(o)
           \/ CreateTopic(o) \/ PrepareAdapter(o) \/ StorePrepare(o)
           \/ ReadPrepare(o) \/ Deploy(o)
           \/ CheckHealth(o) \/ Poll(o) \/ ScaleDown(o)
           \/ AskAggregator(o) \/ FindJob(o) \/ JobPending(o)
           \/ DeleteChild(o) \/ DeletePrepare(o) \/ CleanAdapter(o) \/ DeleteTopic(o)
    PROVE  RunInv'
<1>0. pc \in [Operators -> Steps] /\ cache[o] \in Resource
  BY DEF TypeOK
<1>1. UNCHANGED crVars
  BY DEF Reconcile, CreateTopic, PrepareAdapter, StorePrepare, ReadPrepare, Deploy,
         CheckHealth, Poll, ScaleDown, AskAggregator, FindJob, JobPending,
         DeleteChild, DeletePrepare, CleanAdapter, DeleteTopic
<1>2. VersionsIn(CopiesOf(cr.dryRun, cr.results # "none"))'
  BY <1>1 DEF RunInv, ReportedBeforeCompleted, VersionsIn, CopiesOf, crVars
<1>3. ASSUME pc' = pc \/ \E to \in Steps : pc' = [pc EXCEPT ![o] = to],
             pc'[o] # pc[o] =>
                /\ pc'[o] # "toAggregating"
                /\ pc'[o] = "dryRun" => cr.dryRun
                /\ pc'[o] \in {"findJob", "checkJob"} => cr.results # "none"
      PROVE  RunInv'
  BY <1>0, <1>1, <1>2, <1>3
     DEF crVars, RunInv, SinceBeforeAggregating, AggregatingIsBounded,
         ReportedBeforeCompleted
<1>4. CASE Reconcile(o)
  <2>1. cache[o] \in CopiesOf(cr.dryRun, cr.results # "none")
    BY DEF RunInv, ReportedBeforeCompleted, VersionsIn
  <2>2. pc' = [pc EXCEPT ![o] = Handler(cache[o])]
    BY <1>4 DEF Reconcile, GoToLoop, GoTo
  <2>3. /\ Handler(cache[o]) \in Steps
        /\ Handler(cache[o]) \notin {"toAggregating", "checkJob"}
        /\ Handler(cache[o]) = "dryRun" => cache[o].dryRun
        /\ Handler(cache[o]) = "findJob" => cache[o].phase = "Reporting"
    BY <1>0 DEF Handler, Resource, Phases, Terminal, Steps
  <2>4. QED
    BY <1>0, <1>3, <2>1, <2>2, <2>3 DEF CopiesOf
<1>5. CASE FindJob(o)
  <2>1. cr.results # "none"
    BY <1>5 DEF FindJob, At, RunInv, ReportedBeforeCompleted
  <2>2. \E to \in {"checkJob", "idle"} : pc' = [pc EXCEPT ![o] = to]
    BY <1>5 DEF FindJob, GoTo
  <2>3. QED
    BY <1>0, <1>3, <2>1, <2>2 DEF Steps
<1>6. CASE \/ CreateTopic(o) \/ Deploy(o) \/ ScaleDown(o)
          \/ DeleteChild(o) \/ DeleteTopic(o)
  <2>1. pc' = pc \/ pc' = [pc EXCEPT ![o] = "fail"]
    BY <1>6 DEF CreateTopic, Deploy, ScaleDown, DeleteChild, DeleteTopic,
                NextEntry, GoTo
  <2>2. QED
    BY <1>0, <1>3, <2>1 DEF Steps
<1>7. CASE \/ PrepareAdapter(o) \/ StorePrepare(o) \/ ReadPrepare(o)
          \/ CheckHealth(o) \/ Poll(o) \/ AskAggregator(o) \/ JobPending(o)
          \/ DeletePrepare(o) \/ CleanAdapter(o)
  <2>1. \E to \in {"storePrepare", "fail", "toInitializing", "deploy", "idle", "poll",
                   "scale", "fetch", "cleanAdapter", "deleteTopics"} :
            pc' = [pc EXCEPT ![o] = to]
    BY <1>7 DEF PrepareAdapter, StorePrepare, ReadPrepare, CheckHealth, Poll,
                AskAggregator, JobPending, DeletePrepare, CleanAdapter,
                GoToLoop, GoTo
  <2>2. QED
    BY <1>0, <1>3, <2>1 DEF Steps
<1>8. QED
  BY <1>4, <1>5, <1>6, <1>7

LEMMA SurroundingsKeep ==
    ASSUME TypeOK, RunInv,
           \/ \E o \in Operators : WatchDelivers(o) \/ OperatorRestarts(o)
           \/ Benchmark
           \/ Cluster
    PROVE  RunInv'
<1>0. StoresType /\ pc \in [Operators -> Steps]
  BY TypeParts DEF LocalType
<1> DEFINE S == CopiesOf(cr.dryRun, cr.results # "none")
<1>1. VersionsIn(S)
  BY DEF RunInv, ReportedBeforeCompleted
<1>2. ASSUME cr' = cr, VersionsIn(S)',
             \A o \in Operators : pc'[o] # pc[o] => pc'[o] = "idle"
      PROVE  RunInv'
  BY <1>2 DEF RunInv, SinceBeforeAggregating, AggregatingIsBounded,
              ReportedBeforeCompleted
<1>3. ASSUME NEW o \in Operators, WatchDelivers(o)
      PROVE  RunInv'
  <2>1. watch[o] \in Seq(Resource) /\ watch[o] # << >>
    BY <1>0, <1>3 DEF WatchDelivers, StoresType
  <2>2. /\ Head(watch[o]) = watch[o][1]
        /\ 1 \in 1..Len(watch[o])
        /\ \A j \in 1..Len(Tail(watch[o])) :
              Tail(watch[o])[j] = watch[o][j + 1] /\ j + 1 \in 1..Len(watch[o])
    BY <2>1
  <2>3. /\ cr' = cr /\ pc' = pc
        /\ cache' = [cache EXCEPT ![o] = Head(watch[o])]
        /\ watch' = [watch EXCEPT ![o] = Tail(@)]
    BY <1>3 DEF WatchDelivers, localVars
  <2>4. VersionsIn(S)'
    BY <1>0, <1>1, <2>2, <2>3 DEF VersionsIn, StoresType
  <2>5. QED
    BY <1>2, <2>3, <2>4
<1>4. ASSUME NEW o \in Operators, OperatorRestarts(o)
      PROVE  RunInv'
  <2>1. /\ cr' = cr /\ pc' = [pc EXCEPT ![o] = "idle"]
        /\ cache' = [cache EXCEPT ![o] = cr]
        /\ watch' = [watch EXCEPT ![o] = << >>]
    BY <1>4 DEF OperatorRestarts, GoToLoop, GoTo
  <2>2. \A j : j \notin 1..Len(<< >>)
    OBVIOUS
  <2>3. VersionsIn(S)'
    BY <1>0, <1>1, <2>1, <2>2 DEF VersionsIn, StoresType
  <2>4. QED
    BY <1>0, <1>2, <2>1, <2>3
<1>5. CASE UserDeletes
  <2> DEFINE new == [cr EXCEPT !.deleting = TRUE, !.exists = cr.finalizer]
  <2>1. Writable(new) /\ Publish(new) /\ pc' = pc
    BY <1>5, WritesWritable DEF UserDeletes, localVars
  <2>2. cr' = new /\ VersionsIn(S)'
    BY <1>1, <2>1, PublishCopies
  <2>3. /\ new.phase = cr.phase /\ new.since = cr.since
        /\ new.dryRun = cr.dryRun /\ new.results = cr.results
    BY <1>0 DEF StoresType, Resource
  <2>4. QED
    BY <2>1, <2>2, <2>3
       DEF RunInv, SinceBeforeAggregating, AggregatingIsBounded,
           ReportedBeforeCompleted
<1>6. CASE Benchmark \/ CollectGarbage \/ ReporterEnds \/ JobExpires
  <2>1. UNCHANGED <<crVars, localVars>>
    BY <1>6 DEF Benchmark, TimelineEnds, ControllerRestarts, AggregationCompletes,
                AggregatorRestarts, GraceElapses, CollectGarbage, ReporterEnds,
                JobExpires
  <2>2. QED
    BY <1>1, <1>2, <2>1 DEF VersionsIn, crVars, localVars
<1>7. QED
  BY <1>3, <1>4, <1>5, <1>6 DEF Cluster

LEMMA NextRunInv == TypeOK /\ RunInv /\ [Next]_vars => RunInv'
<1> SUFFICES ASSUME TypeOK, RunInv, [Next]_vars
             PROVE  RunInv'
  OBVIOUS
<1>1. CASE UNCHANGED vars
  BY <1>1 DEF vars, crVars, localVars, RunInv, SinceBeforeAggregating,
              AggregatingIsBounded, ReportedBeforeCompleted, VersionsIn, CopiesOf
<1>2. ASSUME NEW o \in Operators, HandlerStep(o)
      PROVE  RunInv'
  BY <1>2, WritesKeep, CallsKeep DEF HandlerStep
<1>3. ASSUME NEW o \in Operators, OperatorNext(o)
      PROVE  RunInv'
  BY <1>2, <1>3, CallsKeep, SurroundingsKeep DEF OperatorNext
<1>4. QED
  BY <1>1, <1>3, SurroundingsKeep DEF Next

LEMMA RunInvariant == Spec => []RunInv
<1>1. QED
  BY InitRunInv, NextRunInv, TypeCorrect, PTL DEF Spec

\* A run that waits for its aggregation carries the annotation that bounds the
\* wait (handle_running, controller.rs:727-751), with any number of operators
\* that work from copies of any age.
THEOREM AggregatingAlwaysBounded == Spec => []AggregatingIsBounded
<1>1. RunInv => AggregatingIsBounded
  BY DEF RunInv, SinceBeforeAggregating
<1>2. QED
  BY <1>1, RunInvariant, PTL

\* A run that is not a dry run is completed only with results in its status
\* (handle_aggregating and handle_reporting, controller.rs:896-1035).
THEOREM CompletedRunHasResults == Spec => []CompletedHasResults
<1>1. RunInv => CompletedHasResults
  BY DEF RunInv, ReportedBeforeCompleted, CompletedHasResults
<1>2. QED
  BY <1>1, RunInvariant, PTL
-----------------------------------------------------------------------------
(***************************************************************************)
(* Infrastructure is never orphaned by a single operator, whatever the age *)
(* of the copies it works from and whatever fails.                         *)
(*                                                                         *)
(* Copies of any age make a reconciliation repeat what was done already,   *)
(* and even write a phase over a later one.  What saves the infrastructure *)
(* is that a single operator never turns back behind Preparing: the        *)
(* versions in its store, in its watch and on the server are ordered as    *)
(* Pending, Preparing, later; it cleans up only when its store is past     *)
(* Preparing, and then no version that could make it provision again is    *)
(* left anywhere.                                                          *)
(***************************************************************************)

SingleOperator == \E o : Operators = {o}

Rank(r) == IF r.phase = "Pending" THEN 0 ELSE IF r.phase = "Preparing" THEN 1 ELSE 2

Kept == cr.exists /\ cr.finalizer

Ordered ==
    \A o \in Operators :
        /\ Rank(cache[o]) <= Rank(cr)
        /\ \A j \in 1..Len(watch[o]) :
              Rank(cache[o]) <= Rank(watch[o][j]) /\ Rank(watch[o][j]) <= Rank(cr)
        /\ \A j, l \in 1..Len(watch[o]) :
              j <= l => Rank(watch[o][j]) <= Rank(watch[o][l])

SameRun(valid, dry) == {r \in Resource : r.valid = valid /\ r.dryRun = dry}

PreparingHasFinalizer == {r \in Resource : r.phase = "Preparing" => r.finalizer}

NoFinalizer == {r \in Resource : ~r.finalizer}

\* What is known of the versions.
StoreInv ==
    /\ Ordered
    /\ VersionsIn(SameRun(cr.valid, cr.dryRun))
    /\ VersionsIn(PreparingHasFinalizer)
    /\ \A o \in Operators : Rank(cache[o]) < 2 /\ ~Kept => VersionsIn(NoFinalizer)
    /\ \A o \in Operators :
          cr.valid /\ ~cr.dryRun /\ Rank(cr) = 2 => Rank(cache[o]) >= 1

\* What is known at each step of a handler.
HandlerAt(o) ==
    /\ pc[o] = "reject" => ~cr.valid
    /\ pc[o] = "dryRun" => cr.dryRun
    /\ pc[o] \in {"finalize", "toPreparing"} => Rank(cr) <= 1
    /\ pc[o] = "finalize" /\ view[o].finalizer => Kept
    /\ pc[o] = "toPreparing" /\ cr.exists => cr.finalizer
    /\ pc[o] = "topics" => Kept
    /\ pc[o] \notin {"idle", "reject", "dryRun", "finalize", "toPreparing"}
          => Rank(cache[o]) >= 1
    /\ pc[o] \in {"deleteChildren", "cleanAdapter", "deleteTopics", "markCleaned"}
          => Rank(cache[o]) = 2
    /\ pc[o] = "deleteTopics"
          => /\ platform => "platform" \in leaks
             /\ \A j \in 1..(n[o] - 1) : StreamSeq[j] \in topics => StreamSeq[j] \in leaks

HandlerInv == \A o \in Operators : HandlerAt(o)

OrphanInv == StoreInv /\ HandlerInv /\ InfraProtected

-----------------------------------------------------------------------------
(* Versions *)

LEMMA RankType == \A r : Rank(r) \in 0..2
BY DEF Rank

\* A write that does not turn back keeps the versions in order, and a local store
\* only advances.
LEMMA PublishOrdered ==
    ASSUME StoresType, Ordered, NEW new \in Resource, Rank(cr) <= Rank(new),
           Publish(new)
    PROVE  /\ Ordered'
           /\ \A o \in Operators : Rank(cache[o]) <= Rank(cache'[o])
<1>1. CASE new = cr
  BY <1>1, RankType DEF Publish, crVars, Ordered
<1>2. CASE new # cr
  <2>1. /\ cr' = new
        /\ cache' = [o \in Operators |->
                        IF Len(watch[o]) < MaxLag THEN cache[o]
                        ELSE Head(Append(watch[o], new))]
        /\ watch' = [o \in Operators |->
                        IF Len(watch[o]) < MaxLag THEN Append(watch[o], new)
                        ELSE Tail(Append(watch[o], new))]
    BY <1>2 DEF Publish
  <2>2. ASSUME NEW o \in Operators
        PROVE  /\ Rank(cache[o]) <= Rank(cache'[o])
               /\ Rank(cache'[o]) <= Rank(new)
               /\ \A j \in 1..Len(watch'[o]) :
                     Rank(cache'[o]) <= Rank(watch'[o][j])
                     /\ Rank(watch'[o][j]) <= Rank(new)
               /\ \A j, l \in 1..Len(watch'[o]) :
                     j <= l => Rank(watch'[o][j]) <= Rank(watch'[o][l])
    <3> DEFINE q == watch[o]
               a == Append(q, new)
    <3>1. /\ q \in Seq(Resource)
          /\ Rank(cache[o]) <= Rank(cr)
          /\ \A j \in 1..Len(q) :
                Rank(cache[o]) <= Rank(q[j]) /\ Rank(q[j]) <= Rank(cr)
          /\ \A j, l \in 1..Len(q) : j <= l => Rank(q[j]) <= Rank(q[l])
      BY DEF StoresType, Ordered
    <3>2. /\ a \in Seq(Resource)
          /\ Len(a) = Len(q) + 1 /\ Len(q) \in Nat
          /\ a[Len(q) + 1] = new
          /\ \A j \in 1..Len(q) : a[j] = q[j]
      BY <3>1
    <3> HIDE DEF a
    <3>3. \A j \in 1..Len(a) : Rank(cache[o]) <= Rank(a[j]) /\ Rank(a[j]) <= Rank(new)
      <4> SUFFICES ASSUME NEW j \in 1..Len(a)
                   PROVE  Rank(cache[o]) <= Rank(a[j]) /\ Rank(a[j]) <= Rank(new)
        OBVIOUS
      <4>1. CASE j = Len(q) + 1
        BY <3>1, <3>2, <4>1, RankType
      <4>2. CASE j \in 1..Len(q)
        BY <3>1, <3>2, <4>2, RankType
      <4>3. QED
        BY <3>2, <4>1, <4>2
    <3>4. \A j, l \in 1..Len(a) : j <= l => Rank(a[j]) <= Rank(a[l])
      <4> SUFFICES ASSUME NEW j \in 1..Len(a), NEW l \in 1..Len(a), j <= l
                   PROVE  Rank(a[j]) <= Rank(a[l])
        OBVIOUS
      <4>1. CASE l = Len(q) + 1
        BY <3>2, <3>3, <4>1
      <4>2. CASE l \in 1..Len(q)
        BY <3>1, <3>2, <4>2
      <4>3. QED
        BY <3>2, <4>1, <4>2
    <3>5. CASE Len(q) < MaxLag
      <4>1. cache'[o] = cache[o] /\ watch'[o] = a
        BY <2>1, <3>5 DEF a
      <4>2. Rank(cache[o]) <= Rank(new)
        BY <3>1, RankType
      <4>3. QED
        BY <3>3, <3>4, <4>1, <4>2, RankType
    <3>6. CASE ~(Len(q) < MaxLag)
      <4>1. cache'[o] = Head(a) /\ watch'[o] = Tail(a)
        BY <2>1, <3>6 DEF a
      <4>2. /\ Head(a) = a[1] /\ 1 \in 1..Len(a)
            /\ Len(Tail(a)) = Len(q)
            /\ \A j \in 1..Len(q) : Tail(a)[j] = a[j + 1] /\ j + 1 \in 1..Len(a)
        <5>1. Len(a) \in Nat \ {0}
          BY <3>2
        <5>2. a # << >>
          BY <3>2, <5>1
        <5>3. QED
          BY <3>2, <5>1, <5>2
      <4>3. \A j \in 1..Len(q) : Rank(a[1]) <= Rank(a[j + 1]) /\ Rank(a[j + 1]) <= Rank(new)
        BY <3>2, <3>3, <3>4, <4>2
      <4>4. \A j, l \in 1..Len(q) : j <= l => Rank(a[j + 1]) <= Rank(a[l + 1])
        BY <3>2, <3>4, <4>2
      <4>5. Rank(cache[o]) <= Rank(a[1]) /\ Rank(a[1]) <= Rank(new)
        BY <3>3, <4>2
      <4>6. Rank(cache[o]) <= Rank(cache'[o]) /\ Rank(cache'[o]) <= Rank(new)
        BY <4>1, <4>2, <4>5
      <4>7. Len(watch'[o]) = Len(q) /\ \A j \in 1..Len(q) : watch'[o][j] = a[j + 1]
        BY <4>1, <4>2
      <4> HIDE DEF q
      <4>8. \A j \in 1..Len(watch'[o]) :
               Rank(cache'[o]) <= Rank(watch'[o][j]) /\ Rank(watch'[o][j]) <= Rank(new)
        BY <4>1, <4>2, <4>3, <4>7
      <4>9. \A j, l \in 1..Len(watch'[o]) :
               j <= l => Rank(watch'[o][j]) <= Rank(watch'[o][l])
        BY <4>4, <4>7
      <4>10. QED
        BY <4>6, <4>8, <4>9
    <3>7. QED
      BY <3>5, <3>6
  <2>3. QED
    BY <2>1, <2>2 DEF Ordered
<1>3. QED
  BY <1>1, <1>2

\* A write that may be made: it does not turn back, it enters Preparing only with
\* the finalizer, and as long as the store is not past Preparing it does not take
\* the finalizer from the resource.
Admissible(new) ==
    /\ new \in Resource
    /\ new.valid = cr.valid /\ new.dryRun = cr.dryRun
    /\ Rank(cr) <= Rank(new)
    /\ new.phase = "Preparing" => new.finalizer
    /\ cr.valid /\ ~cr.dryRun /\ Rank(new) = 2
          => \A o \in Operators : Rank(cache[o]) >= 1
    /\ \A o \in Operators :
          Rank(cache[o]) < 2 =>
             \/ new.exists /\ new.finalizer
             \/ ~Kept /\ ~new.finalizer

LEMMA PublishStore ==
    ASSUME StoresType, StoreInv, NEW new, Admissible(new), Publish(new)
    PROVE  /\ StoreInv'
           /\ cr' = new
           /\ \A o \in Operators : Rank(cache[o]) <= Rank(cache'[o])
<1>1. cr' = new
  BY DEF Publish, crVars
<1>2. Ordered' /\ \A o \in Operators : Rank(cache[o]) <= Rank(cache'[o])
  BY PublishOrdered DEF Admissible, StoreInv
<1>3. VersionsIn(SameRun(cr.valid, cr.dryRun))'
  <2>1. PICK valid, dry \in BOOLEAN : valid = cr.valid /\ dry = cr.dryRun
    BY DEF StoresType, Resource
  <2>2. /\ SameRun(valid, dry) \in SUBSET Resource
        /\ new \in SameRun(valid, dry)
    BY <2>1 DEF SameRun, Admissible
  <2>3. VersionsIn(SameRun(valid, dry))
    BY <2>1 DEF StoreInv, VersionsIn, SameRun
  <2>4. VersionsIn(SameRun(valid, dry))'
    BY <2>2, <2>3, PublishVersions
  <2>5. SameRun(valid, dry) = SameRun(cr'.valid, cr'.dryRun)
    BY <1>1, <2>1 DEF SameRun, Admissible
  <2>6. QED
    BY <2>4, <2>5 DEF VersionsIn
<1>4. VersionsIn(PreparingHasFinalizer)'
  <2>1. PreparingHasFinalizer \in SUBSET Resource /\ new \in PreparingHasFinalizer
    BY DEF PreparingHasFinalizer, Admissible
  <2>2. QED
    BY <2>1, PublishVersions DEF StoreInv
<1>5. ASSUME NEW o \in Operators, Rank(cache'[o]) < 2, ~Kept'
      PROVE  VersionsIn(NoFinalizer)'
  <2>1. Rank(cache[o]) < 2
    BY <1>2, <1>5, RankType
  <2>2. ~Kept /\ ~new.finalizer
    BY <1>1, <1>5, <2>1 DEF Admissible, Kept
  <2>3. NoFinalizer \in SUBSET Resource /\ new \in NoFinalizer
    BY <2>2 DEF NoFinalizer, Admissible
  <2>4. VersionsIn(NoFinalizer)
    BY <2>1, <2>2 DEF StoreInv
  <2>5. QED
    BY <2>3, <2>4, PublishVersions
<1>6. ASSUME NEW o \in Operators, cr'.valid, ~cr'.dryRun, Rank(cr') = 2
      PROVE  Rank(cache'[o]) >= 1
  BY <1>1, <1>2, <1>6, RankType DEF Admissible
<1>7. QED
  BY <1>1, <1>2, <1>3, <1>4, <1>5, <1>6 DEF StoreInv

-----------------------------------------------------------------------------
(* Steps *)

LEMMA InitOrphanInv == Init => OrphanInv
<1> SUFFICES ASSUME Init
             PROVE  OrphanInv
  OBVIOUS
<1>1. TypeOK
  BY InitType
<1>2. cr \in Resource /\ cr.phase = "Pending" /\ ~cr.finalizer
  BY <1>1 DEF TypeOK, Init, NewRun
<1>3. \A o \in Operators : cache[o] = cr /\ watch[o] = << >> /\ pc[o] = "idle"
  BY DEF Init
<1>4. \A j : j \notin 1..Len(<< >>)
  OBVIOUS
<1>5. Rank(cr) = 0
  BY <1>2 DEF Rank
<1>6. StoreInv
  BY <1>2, <1>3, <1>4, <1>5
     DEF StoreInv, Ordered, VersionsIn, SameRun, PreparingHasFinalizer, NoFinalizer
<1>7. HandlerInv
  BY <1>3 DEF HandlerInv, HandlerAt
<1>8. InfraProtected
  BY DEF Init, InfraProtected, Outside
<1>9. QED
  BY <1>6, <1>7, <1>8 DEF OrphanInv

\* A patch is written, or the reconciliation ends.
LEMMA PatchOrphan ==
    ASSUME TypeOK, OrphanInv, NEW o, Operators = {o}, NEW new, NEW to,
           Patch(o, new, to), UNCHANGED <<infraVars, leaks>>,
           cr.exists => Admissible(new),
           cr.exists /\ Outside \ leaks # {} => new.exists /\ new.finalizer,
           to \in {"idle", "toPreparing", "toAggregating", "markCleaned"},
           to = "toPreparing" => Rank(new) <= 1 /\ new.finalizer,
           to = "toAggregating" => Rank(cache[o]) >= 1,
           to = "markCleaned" => Rank(cache[o]) = 2
    PROVE  OrphanInv'
<1>0. StoresType /\ pc \in [Operators -> Steps]
  BY TypeParts DEF LocalType
<1>1. CASE cr.exists /\ Publish(new) /\ GoTo(o, to)
  <2>1. /\ StoreInv'
        /\ cr' = new
        /\ Rank(cache[o]) <= Rank(cache'[o])
    BY <1>0, <1>1, PublishStore DEF OrphanInv
  <2>2. pc'[o] = to
    BY <1>0, <1>1 DEF GoTo
  <2>3. HandlerAt(o)'
    BY <2>1, <2>2, RankType DEF HandlerAt
  <2>4. InfraProtected'
    BY <1>1, <2>1 DEF InfraProtected, Outside, infraVars
  <2>5. QED
    BY <2>1, <2>3, <2>4 DEF OrphanInv, HandlerInv
<1>2. CASE UNCHANGED crVars /\ GoTo(o, "idle")
  <2>1. pc'[o] = "idle"
    BY <1>0, <1>2 DEF GoTo
  <2>2. HandlerAt(o)'
    BY <2>1 DEF HandlerAt
  <2>3. StoreInv' /\ InfraProtected'
    BY <1>2 DEF OrphanInv, StoreInv, Ordered, VersionsIn, Kept, crVars,
                InfraProtected, Outside, infraVars
  <2>4. QED
    BY <2>2, <2>3 DEF OrphanInv, HandlerInv
<1>3. QED
  BY <1>1, <1>2 DEF Patch

\* A patch that touches neither the finalizer nor the object.
LEMMA StatusAdmissible ==
    ASSUME TypeOK, OrphanInv, cr.exists,
           NEW new \in Resource,
           new.exists = cr.exists, new.finalizer = cr.finalizer,
           new.valid = cr.valid, new.dryRun = cr.dryRun,
           Rank(cr) <= Rank(new),
           new.phase = "Preparing" => new.finalizer,
           cr.valid /\ ~cr.dryRun /\ Rank(new) = 2
              => \A o \in Operators : Rank(cache[o]) >= 1
    PROVE  /\ Admissible(new)
           /\ Outside \ leaks # {} => new.exists /\ new.finalizer
BY DEF Admissible, Kept, OrphanInv, InfraProtected

LEMMA WritesOrphan ==
    ASSUME TypeOK, OrphanInv, NEW o, Operators = {o},
           \/ MarkFailed(o)
           \/ FinishDryRun(o) \/ AddFinalizer(o) \/ ToPreparing(o)
           \/ ToInitializing(o) \/ ToRunning(o)
           \/ AnnotateSince(o) \/ ToAggregating(o)
           \/ FetchResults(o) \/ JobDone(o)
           \/ DropFinalizer(o) \/ MarkCleaned(o)
    PROVE  OrphanInv'
<1>0. /\ cr \in Resource
      /\ pc \in [Operators -> Steps]
      /\ cache[o] \in Resource
      /\ n[o] \in Nat
      /\ topics \subseteq StreamSet
  BY LoopLengths DEF TypeOK
<1>1. /\ HandlerAt(o)
      /\ cr.valid /\ ~cr.dryRun /\ Rank(cr) = 2 => Rank(cache[o]) >= 1
      /\ cr.phase = "Preparing" => cr.finalizer
  BY DEF OrphanInv, HandlerInv, StoreInv, VersionsIn, PreparingHasFinalizer
<1> DEFINE Fine(new) ==
        cr.exists => /\ Admissible(new)
                     /\ Outside \ leaks # {} => new.exists /\ new.finalizer
<1>2. ASSUME NEW p \in Phases, NEW c \in {"none", "progress", "complete", "failed", "cleaned"},
             Rank(cr) <= Rank(StatusPatch(p, c)),
             p = "Preparing" => (cr.exists => cr.finalizer),
             cr.valid /\ ~cr.dryRun /\ p \notin {"Pending", "Preparing"}
                => Rank(cache[o]) >= 1
      PROVE  Fine(StatusPatch(p, c))
  <2>1. StatusPatch(p, c) \in Resource
    BY <1>0, WrittenType
  <2>2. /\ StatusPatch(p, c).phase = p
        /\ StatusPatch(p, c).exists = cr.exists
        /\ StatusPatch(p, c).finalizer = cr.finalizer
        /\ StatusPatch(p, c).valid = cr.valid
        /\ StatusPatch(p, c).dryRun = cr.dryRun
    BY <1>0 DEF StatusPatch, Resource
  <2>3. Rank(StatusPatch(p, c)) = 2 => p \notin {"Pending", "Preparing"}
    BY <2>2 DEF Rank
  <2>4. QED
    BY <1>2, <2>1, <2>2, <2>3, StatusAdmissible
<1>3. ASSUME NEW p \in Phases \ {"Pending", "Preparing"},
             NEW c \in {"none", "progress", "complete", "failed", "cleaned"},
             cr.valid /\ ~cr.dryRun => Rank(cache[o]) >= 1
      PROVE  Fine(StatusPatch(p, c))
  <2>1. StatusPatch(p, c).phase = p
    BY <1>0 DEF StatusPatch, Resource
  <2>2. Rank(StatusPatch(p, c)) = 2
    BY <2>1 DEF Rank
  <2>3. Rank(cr) <= Rank(StatusPatch(p, c))
    BY <2>2, RankType
  <2>4. QED
    BY <1>2, <1>3, <2>3
<1>4. ASSUME NEW new \in Resource,
             new.exists = cr.exists, new.finalizer = cr.finalizer,
             new.valid = cr.valid, new.dryRun = cr.dryRun,
             new.phase = cr.phase \/ (Rank(new) = 2 /\ Rank(cache[o]) >= 1)
      PROVE  Fine(new)
  <2>1. Rank(cr) <= Rank(new) /\ (new.phase = cr.phase => Rank(new) = Rank(cr))
    BY <1>4, RankType DEF Rank
  <2>2. new.phase = "Preparing" => new.finalizer
    BY <1>1, <1>4 DEF Rank
  <2>3. QED
    BY <1>1, <1>4, <2>1, <2>2, StatusAdmissible
<1>5. CASE MarkFailed(o)
  <2>1. cr.valid /\ ~cr.dryRun => Rank(cache[o]) >= 1
    BY <1>1, <1>5 DEF MarkFailed, At, HandlerAt
  <2>2. Fine(StatusPatch("Failed", "failed"))
    BY <1>3, <2>1 DEF Phases, Terminal
  <2>3. QED
    BY <1>5, <2>2, PatchOrphan DEF MarkFailed
<1>6. CASE FinishDryRun(o)
  <2>1. cr.dryRun
    BY <1>1, <1>6 DEF FinishDryRun, At, HandlerAt
  <2>2. Fine(StatusPatch("Completed", "cleaned"))
    BY <1>3, <2>1 DEF Phases, Terminal
  <2>3. QED
    BY <1>6, <2>2, PatchOrphan DEF FinishDryRun
<1>7. CASE AddFinalizer(o)
  <2>0. pc[o] = "finalize" /\ Rank(cr) <= 1
    BY <1>1, <1>7 DEF AddFinalizer, At, HandlerAt
  <2>1. CASE view[o].finalizer
    <3>1. Kept /\ UNCHANGED <<crVars, infraVars, leaks>> /\ pc'[o] = "toPreparing"
      BY <1>0, <1>1, <1>7, <2>0, <2>1 DEF AddFinalizer, GoTo, HandlerAt
    <3>2. HandlerAt(o)'
      BY <2>0, <3>1 DEF HandlerAt, Kept, crVars
    <3>3. StoreInv' /\ InfraProtected'
      BY <3>1 DEF OrphanInv, StoreInv, Ordered, VersionsIn, Kept, crVars,
                  InfraProtected, Outside, infraVars
    <3>4. QED
      BY <3>2, <3>3 DEF OrphanInv, HandlerInv
  <2>2. CASE ~view[o].finalizer
    <3>1. /\ FinalizerSet(cr) \in Resource
          /\ FinalizerSet(cr).finalizer
          /\ FinalizerSet(cr).exists = cr.exists
          /\ FinalizerSet(cr).phase = cr.phase
          /\ FinalizerSet(cr).valid = cr.valid
          /\ FinalizerSet(cr).dryRun = cr.dryRun
      BY <1>0, WrittenType DEF FinalizerSet, Resource
    <3>2. Rank(FinalizerSet(cr)) = Rank(cr)
      BY <3>1 DEF Rank
    <3>3. Fine(FinalizerSet(cr))
      BY <1>1, <3>1, <3>2, RankType DEF Admissible
    <3>4. QED
      BY <1>7, <2>0, <2>2, <3>1, <3>2, <3>3, PatchOrphan DEF AddFinalizer
  <2>3. QED
    BY <2>1, <2>2
<1>8. CASE ToPreparing(o)
  <2>1. Rank(cr) <= 1 /\ (cr.exists => cr.finalizer)
    BY <1>1, <1>8 DEF ToPreparing, At, HandlerAt
  <2>2. StatusPatch("Preparing", "progress").phase = "Preparing"
    BY <1>0 DEF StatusPatch, Resource
  <2>3. Fine(StatusPatch("Preparing", "progress"))
    BY <1>2, <2>1, <2>2 DEF Phases, Rank
  <2>4. QED
    BY <1>8, <2>3, PatchOrphan DEF ToPreparing
<1>9. CASE ToInitializing(o)
  <2>1. Rank(cache[o]) >= 1
    BY <1>1, <1>9 DEF ToInitializing, At, HandlerAt
  <2>2. Fine(StatusPatch("Initializing", "progress"))
    BY <1>3, <2>1 DEF Phases
  <2>3. QED
    BY <1>9, <2>2, PatchOrphan DEF ToInitializing
<1>10. CASE ToRunning(o)
  <2>1. Rank(cache[o]) >= 1
    BY <1>1, <1>10 DEF ToRunning, At, HandlerAt
  <2>2. Fine(StatusPatch("Running", "progress"))
    BY <1>3, <2>1 DEF Phases
  <2>3. QED
    BY <1>10, <2>2, PatchOrphan DEF ToRunning
<1>11. CASE AnnotateSince(o)
  <2>1. Rank(cache[o]) >= 1
    BY <1>1, <1>11 DEF AnnotateSince, At, HandlerAt
  <2>2. Fine([cr EXCEPT !.since = TRUE])
    <3>1. /\ [cr EXCEPT !.since = TRUE] \in Resource
          /\ [cr EXCEPT !.since = TRUE].exists = cr.exists
          /\ [cr EXCEPT !.since = TRUE].finalizer = cr.finalizer
          /\ [cr EXCEPT !.since = TRUE].valid = cr.valid
          /\ [cr EXCEPT !.since = TRUE].dryRun = cr.dryRun
          /\ [cr EXCEPT !.since = TRUE].phase = cr.phase
      BY <1>0, WrittenType DEF Resource
    <3>2. QED
      BY <1>4, <3>1
  <2>3. QED
    BY <1>11, <2>1, <2>2, PatchOrphan DEF AnnotateSince
<1>12. CASE ToAggregating(o)
  <2>1. Rank(cache[o]) >= 1
    BY <1>1, <1>12 DEF ToAggregating, At, HandlerAt
  <2>2. Fine([cr EXCEPT !.phase = "Aggregating"])
    <3>1. /\ [cr EXCEPT !.phase = "Aggregating"] \in Resource
          /\ [cr EXCEPT !.phase = "Aggregating"].exists = cr.exists
          /\ [cr EXCEPT !.phase = "Aggregating"].finalizer = cr.finalizer
          /\ [cr EXCEPT !.phase = "Aggregating"].valid = cr.valid
          /\ [cr EXCEPT !.phase = "Aggregating"].dryRun = cr.dryRun
          /\ [cr EXCEPT !.phase = "Aggregating"].phase = "Aggregating"
      BY <1>0, WrittenType DEF Resource
    <3>2. Rank([cr EXCEPT !.phase = "Aggregating"]) = 2
      BY <3>1 DEF Rank
    <3>3. QED
      BY <1>4, <2>1, <3>1, <3>2
  <2>3. QED
    BY <1>12, <2>2, PatchOrphan DEF ToAggregating
<1>13. CASE FetchResults(o)
  <2>1. Rank(cache[o]) >= 1
    BY <1>1, <1>13 DEF FetchResults, At, HandlerAt
  <2>2. ASSUME NEW results \in {"metrics", "empty"}
        PROVE  Fine(ReportingWith(results))
    <3>1. /\ ReportingWith(results) \in Resource
          /\ ReportingWith(results).exists = cr.exists
          /\ ReportingWith(results).finalizer = cr.finalizer
          /\ ReportingWith(results).valid = cr.valid
          /\ ReportingWith(results).dryRun = cr.dryRun
          /\ ReportingWith(results).phase = "Reporting"
      <4>1. ReportingWith(results) \in Resource
        BY <1>0, <2>2, WrittenType
      <4>2. QED
        BY <1>0, <4>1 DEF Resource, ReportingWith
    <3>2. Rank(ReportingWith(results)) = 2
      BY <3>1 DEF Rank
    <3>3. QED
      BY <1>4, <2>1, <3>1, <3>2
  <2>3. QED
    BY <1>13, <2>2, PatchOrphan DEF FetchResults
<1>14. CASE JobDone(o)
  <2>1. Rank(cache[o]) >= 1
    BY <1>1, <1>14 DEF JobDone, At, HandlerAt
  <2>2. Fine(StatusPatch("Completed", "complete"))
    BY <1>3, <2>1 DEF Phases, Terminal
  <2>3. QED
    BY <1>14, <2>2, PatchOrphan DEF JobDone
<1>15. CASE DropFinalizer(o)
  <2>1. /\ Rank(cache[o]) = 2
        /\ platform => "platform" \in leaks
        /\ \A j \in 1..(n[o] - 1) : StreamSeq[j] \in topics => StreamSeq[j] \in leaks
        /\ n[o] > Len(StreamSeq)
    BY <1>0, <1>1, <1>15, LoopLengths DEF DropFinalizer, At, HandlerAt, InLoop
  <2>2. Outside \ leaks = {}
    BY <1>0, <2>1, LoopLengths DEF Outside, StreamSet
  <2>3. /\ FinalizerDropped(cr) \in Resource
        /\ FinalizerDropped(cr).phase = cr.phase
        /\ FinalizerDropped(cr).valid = cr.valid
        /\ FinalizerDropped(cr).dryRun = cr.dryRun
    BY <1>0, WrittenType DEF FinalizerDropped, Resource
  <2>4. Rank(FinalizerDropped(cr)) = Rank(cr)
    BY <2>3 DEF Rank
  <2>5. cr.phase # "Preparing"
    BY <2>1 DEF OrphanInv, StoreInv, Ordered, Rank
  <2>6. Admissible(FinalizerDropped(cr))
    BY <2>1, <2>3, <2>4, <2>5, RankType DEF Admissible
  <2>7. QED
    BY <1>15, <2>1, <2>2, <2>6, PatchOrphan DEF DropFinalizer
<1>16. CASE MarkCleaned(o)
  <2>1. Fine([cr EXCEPT !.cond = "cleaned"])
    <3>1. /\ [cr EXCEPT !.cond = "cleaned"] \in Resource
          /\ [cr EXCEPT !.cond = "cleaned"].exists = cr.exists
          /\ [cr EXCEPT !.cond = "cleaned"].finalizer = cr.finalizer
          /\ [cr EXCEPT !.cond = "cleaned"].valid = cr.valid
          /\ [cr EXCEPT !.cond = "cleaned"].dryRun = cr.dryRun
          /\ [cr EXCEPT !.cond = "cleaned"].phase = cr.phase
      BY <1>0, WrittenType DEF Resource
    <3>2. QED
      BY <1>4, <3>1
  <2>2. QED
    BY <1>16, <2>1, PatchOrphan DEF MarkCleaned
<1>17. QED
  BY <1>5, <1>6, <1>7, <1>8, <1>9, <1>10, <1>11, <1>12, <1>13, <1>14, <1>15, <1>16

\* The names of what may be left behind are those of different things.
LEMMA DistinctNames ==
    /\ "platform" \notin StreamSet
    /\ \A c \in Children : c \notin StreamSet /\ c # "platform"
    /\ "prepareCM" \notin StreamSet
BY NamesAssumption DEF Children

LEMMA CallsOrphan ==
    ASSUME TypeOK, OrphanInv, NEW o, Operators = {o},
           \/ Reconcile(o)
           \/ CreateTopic(o) \/ PrepareAdapter(o) \/ StorePrepare(o)
           \/ ReadPrepare(o) \/ Deploy(o)
           \/ CheckHealth(o) \/ Poll(o) \/ ScaleDown(o)
           \/ AskAggregator(o) \/ FindJob(o) \/ JobPending(o)
           \/ DeleteChild(o) \/ DeletePrepare(o) \/ CleanAdapter(o) \/ DeleteTopic(o)
    PROVE  OrphanInv'
<1>0. /\ cache[o] \in Resource
      /\ pc \in [Operators -> Steps]
      /\ view \in [Operators -> Resource]
      /\ n \in [Operators -> 1..(Len(StreamSeq) + Len(DeployOrder) + 1)]
      /\ n[o] \in Nat \ {0}
      /\ topics \subseteq StreamSet
  BY LoopLengths DEF TypeOK
<1>1. /\ HandlerAt(o)
      /\ InfraProtected
      /\ cr.valid /\ ~cr.dryRun /\ Rank(cr) = 2 => Rank(cache[o]) >= 1
      /\ Rank(cache[o]) < 2 /\ ~Kept => ~cache[o].finalizer
      /\ cache[o].phase = "Preparing" => cache[o].finalizer
      /\ cache[o].valid = cr.valid /\ cache[o].dryRun = cr.dryRun
  BY DEF OrphanInv, HandlerInv, StoreInv, VersionsIn, PreparingHasFinalizer,
         NoFinalizer, SameRun
<1>2. UNCHANGED crVars
  BY DEF Reconcile, CreateTopic, PrepareAdapter, StorePrepare, ReadPrepare, Deploy,
         CheckHealth, Poll, ScaleDown, AskAggregator, FindJob, JobPending,
         DeleteChild, DeletePrepare, CleanAdapter, DeleteTopic
<1>3. ASSUME HandlerAt(o)', Kept \/ Outside' \ leaks' \subseteq Outside \ leaks
      PROVE  OrphanInv'
  <2>1. StoreInv'
    BY <1>2 DEF OrphanInv, StoreInv, Ordered, VersionsIn, Kept, crVars
  <2>2. InfraProtected'
    BY <1>1, <1>2, <1>3 DEF InfraProtected, Kept, crVars
  <2>3. QED
    BY <1>3, <2>1, <2>2 DEF OrphanInv, HandlerInv
<1>4. CASE Reconcile(o)
  <2>1. /\ pc'[o] = Handler(cache[o])
        /\ view'[o] = cache[o]
        /\ UNCHANGED <<infraVars, leaks>>
    BY <1>0, <1>4 DEF Reconcile, GoToLoop, GoTo
  <2>2. Outside' \ leaks' \subseteq Outside \ leaks
    BY <2>1 DEF Outside, infraVars
  <2>3. CASE cache[o].phase = "Pending"
    <3>1. Rank(cache[o]) = 0
      BY <2>3 DEF Rank
    <3>2. pc'[o] = IF ~cr.valid THEN "reject" ELSE IF cr.dryRun THEN "dryRun" ELSE "finalize"
      BY <1>0, <1>1, <2>1, <2>3 DEF Handler, Resource, Phases, Terminal
    <3>3. cr.valid /\ ~cr.dryRun => Rank(cr) <= 1
      BY <1>1, <3>1, RankType
    <3>4. HandlerAt(o)'
      BY <1>1, <1>2, <2>1, <3>1, <3>2, <3>3 DEF HandlerAt, Kept, crVars
    <3>5. QED
      BY <1>3, <2>2, <3>4
  <2>4. CASE cache[o].phase = "Preparing"
    <3>1. Rank(cache[o]) = 1
      BY <2>4 DEF Rank
    <3>2. pc'[o] = "topics"
      BY <1>0, <2>1, <2>4 DEF Handler, Resource, Phases, Terminal
    <3>3. Kept
      BY <1>1, <2>4, <3>1
    <3>4. HandlerAt(o)'
      BY <1>2, <3>1, <3>2, <3>3 DEF HandlerAt, Kept, crVars
    <3>5. QED
      BY <1>3, <2>2, <3>4
  <2>5. CASE cache[o].phase \notin {"Pending", "Preparing"}
    <3>1. Rank(cache[o]) = 2
      BY <2>5 DEF Rank
    <3>2. pc'[o] \in {"readPrepare", "health", "askAggregator", "findJob", "deleteChildren"}
      BY <1>0, <2>1, <2>5 DEF Handler, Resource, Phases, Terminal
    <3>3. HandlerAt(o)'
      BY <1>2, <3>1, <3>2 DEF HandlerAt, crVars
    <3>4. QED
      BY <1>3, <2>2, <3>3
  <2>6. QED
    BY <2>3, <2>4, <2>5
<1>5. CASE CreateTopic(o) \/ PrepareAdapter(o)
  <2>1. Kept /\ Rank(cache[o]) >= 1
    BY <1>1, <1>5 DEF CreateTopic, PrepareAdapter, At, HandlerAt
  <2>2. pc'[o] \in {"topics", "storePrepare", "fail"}
    BY <1>0, <1>5 DEF CreateTopic, PrepareAdapter, At, NextEntry, GoTo
  <2>3. HandlerAt(o)'
    BY <1>2, <2>1, <2>2 DEF HandlerAt, Kept, crVars
  <2>4. QED
    BY <1>3, <2>1, <2>3
<1>6. CASE \/ StorePrepare(o) \/ ReadPrepare(o) \/ Deploy(o)
           \/ CheckHealth(o) \/ Poll(o) \/ ScaleDown(o)
           \/ AskAggregator(o) \/ FindJob(o) \/ JobPending(o)
  <2>1. /\ pc[o] \in {"storePrepare", "readPrepare", "deploy", "health", "poll", "scale",
                      "askAggregator", "findJob", "checkJob"}
        /\ UNCHANGED <<infraVars, leaks>>
    BY <1>6 DEF StorePrepare, ReadPrepare, Deploy, CheckHealth, Poll, ScaleDown,
                AskAggregator, FindJob, JobPending, At
  <2>2. pc'[o] \in {"idle", "fail", "toInitializing", "deploy", "poll", "scale", "fetch",
                    "checkJob"}
    BY <1>0, <1>6 DEF StorePrepare, ReadPrepare, Deploy, CheckHealth, Poll, ScaleDown,
                      AskAggregator, FindJob, JobPending, At, NextEntry, GoToLoop, GoTo
  <2>3. Rank(cache[o]) >= 1
    BY <1>1, <2>1 DEF HandlerAt
  <2>4. HandlerAt(o)'
    BY <1>2, <2>2, <2>3 DEF HandlerAt, crVars
  <2>5. Outside' \ leaks' \subseteq Outside \ leaks
    BY <2>1 DEF Outside, infraVars
  <2>6. QED
    BY <1>3, <2>4, <2>5
<1>7. CASE DeleteChild(o) \/ DeletePrepare(o)
  <2>1. /\ Rank(cache[o]) = 2
        /\ pc'[o] \in {"deleteChildren", "cleanAdapter"}
    BY <1>0, <1>1, <1>7 DEF DeleteChild, DeletePrepare, At, HandlerAt, NextEntry,
                            GoToLoop, GoTo
  <2>2. /\ topics' = topics /\ platform' = platform
        /\ \A x \in StreamSet \cup {"platform"} : x \in leaks' <=> x \in leaks
    <3>1. CASE DeleteChild(o)
      <4>1. PICK c \in Children : leaks' = leaks \ {c} \/ leaks' = leaks \cup {c}
        BY <1>0, <3>1, LoopLengths DEF DeleteChild, InLoop
      <4>2. QED
        BY <3>1, <4>1, DistinctNames DEF DeleteChild, infraVars
    <3>2. CASE DeletePrepare(o)
      BY <3>2, DistinctNames DEF DeletePrepare, infraVars
    <3>3. QED
      BY <1>7, <3>1, <3>2
  <2>3. HandlerAt(o)'
    BY <1>2, <2>1 DEF HandlerAt, crVars
  <2>4. Outside' \ leaks' \subseteq Outside \ leaks
    BY <1>0, <2>2 DEF Outside
  <2>5. QED
    BY <1>3, <2>3, <2>4
<1>8. CASE CleanAdapter(o)
  <2>1. Rank(cache[o]) = 2 /\ pc'[o] = "deleteTopics" /\ n'[o] = 1
    BY <1>0, <1>1, <1>8 DEF CleanAdapter, At, HandlerAt, GoToLoop, GoTo
  <2>2. /\ topics' = topics
        /\ \A s \in StreamSet : s \in leaks' <=> s \in leaks
        /\ platform' => platform /\ "platform" \in leaks'
    BY <1>8, DistinctNames DEF CleanAdapter
  <2>3. HandlerAt(o)'
    BY <1>2, <2>1, <2>2 DEF HandlerAt, crVars
  <2>4. Outside' \ leaks' \subseteq Outside \ leaks
    BY <1>0, <2>2 DEF Outside
  <2>5. QED
    BY <1>3, <2>3, <2>4
<1>9. CASE DeleteTopic(o)
  <2>1. /\ pc[o] = "deleteTopics" /\ pc'[o] = "deleteTopics"
        /\ n'[o] = n[o] + 1
        /\ n[o] \in 1..Len(StreamSeq)
    BY <1>0, <1>9, LoopLengths DEF DeleteTopic, At, NextEntry, InLoop
  <2>2. /\ Rank(cache[o]) = 2
        /\ platform => "platform" \in leaks
        /\ \A j \in 1..(n[o] - 1) : StreamSeq[j] \in topics => StreamSeq[j] \in leaks
    BY <1>1, <2>1 DEF HandlerAt
  <2> DEFINE s == StreamSeq[n[o]]
  <2>3. s \in StreamSet
    BY <2>1, LoopLengths
  <2>4. /\ platform' = platform
        /\ \/ topics' = topics \ {s} /\ leaks' = leaks \ {s}
           \/ topics' = topics /\ leaks' = leaks \cup {s}
    BY <1>9 DEF DeleteTopic
  <2>5. platform' => "platform" \in leaks'
    BY <2>2, <2>3, <2>4, DistinctNames
  <2>6. ASSUME NEW j \in 1..(n'[o] - 1), StreamSeq[j] \in topics'
        PROVE  StreamSeq[j] \in leaks'
    <3>1. CASE j = n[o]
      BY <2>4, <2>6, <3>1
    <3>2. CASE j # n[o]
      <4>1. j \in 1..(n[o] - 1) /\ j \in 1..Len(StreamSeq)
        BY <1>0, <2>1, <2>6, <3>2, LoopLengths
      <4>2. QED
        BY <2>2, <2>4, <2>6, <4>1
    <3>3. QED
      BY <3>1, <3>2
  <2>7. HandlerAt(o)'
    BY <1>2, <2>1, <2>2, <2>5, <2>6 DEF HandlerAt, crVars
  <2>8. Outside' \ leaks' \subseteq Outside \ leaks
    BY <2>3, <2>4, DistinctNames DEF Outside
  <2>9. QED
    BY <1>3, <2>7, <2>8
<1>10. QED
  BY <1>4, <1>5, <1>6, <1>7, <1>8, <1>9

LEMMA SurroundingsOrphan ==
    ASSUME TypeOK, OrphanInv, NEW o, Operators = {o},
           \/ WatchDelivers(o) \/ OperatorRestarts(o)
           \/ Benchmark
           \/ Cluster
    PROVE  OrphanInv'
<1>0. StoresType /\ pc \in [Operators -> Steps]
  BY TypeParts DEF LocalType
<1>1. HandlerAt(o) /\ StoreInv /\ InfraProtected
  BY DEF OrphanInv, HandlerInv
<1>2. CASE WatchDelivers(o)
  <2>1. watch[o] \in Seq(Resource) /\ watch[o] # << >>
    BY <1>0, <1>2 DEF WatchDelivers, StoresType
  <2>2. /\ Head(watch[o]) = watch[o][1]
        /\ 1 \in 1..Len(watch[o])
        /\ Len(Tail(watch[o])) = Len(watch[o]) - 1
        /\ Len(watch[o]) \in Nat
        /\ \A j \in 1..Len(Tail(watch[o])) :
              Tail(watch[o])[j] = watch[o][j + 1] /\ j + 1 \in 1..Len(watch[o])
    BY <2>1
  <2>3. /\ UNCHANGED <<cr, localVars, infraVars, leaks>>
        /\ cache'[o] = watch[o][1]
        /\ watch'[o] = Tail(watch[o])
    BY <1>0, <1>2, <2>2 DEF WatchDelivers, StoresType
  <2>4. Rank(cache[o]) <= Rank(cache'[o])
    BY <1>1, <2>2, <2>3 DEF StoreInv, Ordered
  <2>5. Ordered'
    <3>1. /\ \A j \in 1..Len(watch[o]) : Rank(watch[o][j]) <= Rank(cr)
          /\ \A j, l \in 1..Len(watch[o]) :
                j <= l => Rank(watch[o][j]) <= Rank(watch[o][l])
      BY <1>1 DEF StoreInv, Ordered
    <3>2. Rank(cache'[o]) <= Rank(cr')
      BY <2>2, <2>3, <3>1
    <3>3. ASSUME NEW j \in 1..Len(watch'[o])
          PROVE  Rank(cache'[o]) <= Rank(watch'[o][j]) /\ Rank(watch'[o][j]) <= Rank(cr')
      BY <2>2, <2>3, <3>1
    <3>4. ASSUME NEW j \in 1..Len(watch'[o]), NEW l \in 1..Len(watch'[o]), j <= l
          PROVE  Rank(watch'[o][j]) <= Rank(watch'[o][l])
      <4>1. /\ watch'[o][j] = watch[o][j + 1] /\ j + 1 \in 1..Len(watch[o])
            /\ watch'[o][l] = watch[o][l + 1] /\ l + 1 \in 1..Len(watch[o])
        BY <2>2, <2>3, <3>4
      <4>2. j + 1 <= l + 1
        BY <2>2, <2>3, <3>4
      <4>3. QED
        BY <3>1, <4>1, <4>2
    <3>5. QED
      BY <3>2, <3>3, <3>4 DEF Ordered
  <2>6. ASSUME NEW S, VersionsIn(S)
        PROVE  /\ cr' \in S
               /\ \A p \in Operators : cache'[p] \in S
               /\ \A p \in Operators : \A j \in 1..Len(watch'[p]) : watch'[p][j] \in S
    <3>1. cr' \in S /\ \A j \in 1..Len(watch[o]) : watch[o][j] \in S
      BY <2>3, <2>6 DEF VersionsIn
    <3>2. cache'[o] \in S
      BY <2>2, <2>3, <3>1
    <3>3. ASSUME NEW j \in 1..Len(watch'[o])
          PROVE  watch'[o][j] \in S
      BY <2>2, <2>3, <3>1
    <3>4. QED
      BY <3>1, <3>2, <3>3
  <2>7. /\ VersionsIn(SameRun(cr.valid, cr.dryRun))'
        /\ VersionsIn(PreparingHasFinalizer)'
    BY <1>1, <2>3, <2>6 DEF StoreInv, VersionsIn, SameRun, PreparingHasFinalizer
  <2>8. ASSUME Rank(cache'[o]) < 2, ~Kept'
        PROVE  VersionsIn(NoFinalizer)'
    <3>1. Rank(cache[o]) < 2 /\ ~Kept
      BY <2>3, <2>4, <2>8, RankType DEF Kept
    <3>2. VersionsIn(NoFinalizer)
      BY <1>1, <3>1 DEF StoreInv
    <3>3. QED
      BY <2>6, <3>2 DEF VersionsIn, NoFinalizer
  <2>9. cr'.valid /\ ~cr'.dryRun /\ Rank(cr') = 2 => Rank(cache'[o]) >= 1
    BY <1>1, <2>3, <2>4, RankType DEF StoreInv
  <2>10. StoreInv'
    BY <2>5, <2>7, <2>8, <2>9 DEF StoreInv
  <2>11. HandlerAt(o)'
    BY <1>1, <2>3, <2>4, RankType DEF HandlerAt, Kept, localVars, infraVars
  <2>12. InfraProtected'
    BY <1>1, <2>3 DEF InfraProtected, Outside, infraVars
  <2>13. QED
    BY <2>10, <2>11, <2>12 DEF OrphanInv, HandlerInv
<1>3. CASE OperatorRestarts(o)
  <2>1. /\ UNCHANGED <<cr, infraVars, leaks>>
        /\ pc'[o] = "idle"
        /\ cache'[o] = cr
        /\ watch'[o] = << >>
    BY <1>0, <1>3 DEF OperatorRestarts, GoToLoop, GoTo, StoresType
  <2>2. \A j : j \notin 1..Len(<< >>)
    OBVIOUS
  <2>3. Rank(cache[o]) <= Rank(cr)
    BY <1>1 DEF StoreInv, Ordered
  <2>4. Ordered'
    BY <2>1, <2>2, RankType DEF Ordered
  <2>5. ASSUME NEW S, cr \in S
        PROVE  /\ cr' \in S
               /\ \A p \in Operators : cache'[p] \in S
               /\ \A p \in Operators : \A j \in 1..Len(watch'[p]) : watch'[p][j] \in S
    BY <2>1, <2>2, <2>5
  <2>6. /\ VersionsIn(SameRun(cr.valid, cr.dryRun))'
        /\ VersionsIn(PreparingHasFinalizer)'
    BY <1>1, <2>1, <2>5 DEF StoreInv, VersionsIn, SameRun, PreparingHasFinalizer
  <2>7. ASSUME Rank(cache'[o]) < 2, ~Kept'
        PROVE  VersionsIn(NoFinalizer)'
    <3>1. Rank(cache[o]) < 2 /\ ~Kept
      BY <2>1, <2>3, <2>7, RankType DEF Kept
    <3>2. cr \in NoFinalizer
      BY <1>1, <3>1 DEF StoreInv, VersionsIn
    <3>3. QED
      BY <2>5, <3>2 DEF VersionsIn, NoFinalizer
  <2>8. Rank(cr') = 2 => Rank(cache'[o]) >= 1
    BY <2>1
  <2>9. StoreInv'
    BY <2>4, <2>6, <2>7, <2>8 DEF StoreInv
  <2>10. HandlerAt(o)' /\ InfraProtected'
    BY <1>1, <2>1 DEF HandlerAt, InfraProtected, Outside, infraVars
  <2>11. QED
    BY <2>9, <2>10 DEF OrphanInv, HandlerInv
<1>4. CASE UserDeletes
  <2> DEFINE new == [cr EXCEPT !.deleting = TRUE, !.exists = cr.finalizer]
  <2>1. /\ new \in Resource
        /\ new.exists = cr.finalizer
        /\ new.finalizer = cr.finalizer
        /\ new.phase = cr.phase
        /\ new.valid = cr.valid
        /\ new.dryRun = cr.dryRun
    BY <1>0, WrittenType DEF StoresType, Resource
  <2>2. /\ Publish(new)
        /\ UNCHANGED <<localVars, infraVars, leaks>>
        /\ cr.exists
    BY <1>4 DEF UserDeletes
  <2>3. Rank(new) = Rank(cr)
    BY <2>1 DEF Rank
  <2> HIDE DEF new
  <2>4. cr.finalizer \in BOOLEAN /\ (cr.phase = "Preparing" => cr.finalizer)
    BY <1>0, <1>1 DEF StoresType, Resource, StoreInv, VersionsIn, PreparingHasFinalizer
  <2>5. Admissible(new)
    BY <1>1, <2>1, <2>2, <2>3, <2>4, RankType DEF Admissible, Kept, StoreInv
  <2>6. /\ StoreInv'
        /\ cr' = new
        /\ Rank(cache[o]) <= Rank(cache'[o])
    BY <1>0, <1>1, <2>2, <2>5, PublishStore
  <2>7. HandlerAt(o)'
    BY <1>1, <2>1, <2>2, <2>3, <2>6, RankType
       DEF HandlerAt, Kept, localVars, infraVars
  <2>8. InfraProtected'
    BY <1>1, <2>1, <2>2, <2>6 DEF InfraProtected, Outside, infraVars
  <2>9. QED
    BY <2>6, <2>7, <2>8 DEF OrphanInv, HandlerInv
<1>5. CASE Benchmark \/ CollectGarbage \/ ReporterEnds \/ JobExpires
  <2>1. UNCHANGED <<crVars, localVars, infraVars, leaks>>
    BY <1>5 DEF Benchmark, TimelineEnds, ControllerRestarts, AggregationCompletes,
                AggregatorRestarts, GraceElapses, CollectGarbage, ReporterEnds,
                JobExpires
  <2>2. QED
    BY <2>1 DEF OrphanInv, StoreInv, HandlerInv, HandlerAt, Ordered, VersionsIn, Kept,
                InfraProtected, Outside, crVars, localVars, infraVars
<1>6. QED
  BY <1>2, <1>3, <1>4, <1>5 DEF Cluster

LEMMA NextOrphanInv ==
    SingleOperator => (TypeOK /\ OrphanInv /\ [Next]_vars => OrphanInv')
<1> SUFFICES ASSUME SingleOperator, TypeOK, OrphanInv, [Next]_vars
             PROVE  OrphanInv'
  OBVIOUS
<1>1. PICK o : Operators = {o}
  BY DEF SingleOperator
<1>2. CASE UNCHANGED vars
  BY <1>2 DEF vars, OrphanInv, StoreInv, HandlerInv, HandlerAt, Ordered, VersionsIn, Kept,
              InfraProtected, Outside, crVars, localVars, infraVars
<1>3. CASE HandlerStep(o)
  BY <1>1, <1>3, WritesOrphan, CallsOrphan DEF HandlerStep
<1>4. CASE OperatorNext(o)
  BY <1>1, <1>3, <1>4, CallsOrphan, SurroundingsOrphan DEF OperatorNext
<1>5. QED
  BY <1>1, <1>2, <1>4, SurroundingsOrphan DEF Next

\* Topics, indexes and warehouses are never orphaned by a single operator: until
\* its deletion has been tried, the resource is there with its finalizer
\* (handle_pending and handle_cleanup, controller.rs:136-254 and 1039-1207).
THEOREM InfraNeverOrphaned ==
    ASSUME SingleOperator
    PROVE  Spec => []InfraProtected
<1>1. TypeOK /\ OrphanInv /\ [Next]_vars => OrphanInv'
  BY NextOrphanInv
<1>2. OrphanInv => InfraProtected
  BY DEF OrphanInv
<1>3. QED
  BY <1>1, <1>2, InitOrphanInv, TypeCorrect, PTL DEF Spec
-----------------------------------------------------------------------------
(***************************************************************************)
(* A single operator leaves a run alone only when nothing of it is left    *)
(* but what could not be deleted, as long as its store is at most two      *)
(* versions behind the server.  From three on it is not so: a store can    *)
(* then still hold an Initializing version when the cleanup of a later,    *)
(* failed one is over, and the operator deploys the run again.             *)
(*                                                                         *)
(* With a store that is up to date the run follows the linear lifecycle of *)
(* RunLifecycle, step by step.                                             *)
(***************************************************************************)

CleanupSteps == {"deleteChildren", "cleanAdapter", "deleteTopics", "markCleaned"}

PreparingSteps == {"topics", "storePrepare", "toInitializing"}

Advanced == {"Running", "Aggregating", "Reporting"}

\* A run that is never deployed: not valid, or a dry run.
NeverDeployed == ~cr.valid \/ cr.dryRun

InPhase(phases) == {r \in Resource : r.phase \in phases}

NotInitializing == InPhase(Phases \ {"Initializing"})

NotAdvanced == InPhase(Phases \ Advanced)

GoneOrLeaked(c) == children[c] = "absent" \/ c \in leaks

\* The handler at each step is that of the phase of the copy it works from.
StepOfView(o) ==
    /\ pc[o] \in {"reject", "dryRun", "finalize", "toPreparing"} => view[o].phase = "Pending"
    /\ pc[o] \in PreparingSteps => view[o].phase = "Preparing"
    /\ pc[o] \in {"readPrepare", "deploy"} => view[o].phase = "Initializing"
    /\ pc[o] \in {"health", "poll", "scale", "toAggregating"} => view[o].phase = "Running"
    /\ pc[o] \in {"askAggregator", "fetch"} => view[o].phase = "Aggregating"
    /\ pc[o] \in {"findJob", "checkJob"} => view[o].phase = "Reporting"
    /\ pc[o] \in CleanupSteps => view[o].phase \in Terminal
    /\ pc[o] = "fail" => view[o].phase \in {"Preparing", "Running"}

\* What a cleanup has dealt with so far.
CleanupDone(o) ==
    /\ pc[o] = "deleteChildren" => \A j \in 1..(n[o] - 1) : j <= 4 => GoneOrLeaked(DeleteOrder[j])
    /\ pc[o] \in {"cleanAdapter", "deleteTopics", "markCleaned"}
          => /\ \A c \in Children : GoneOrLeaked(c)
             /\ prepareCM => "prepareCM" \in leaks
    /\ pc[o] = "markCleaned" => Outside \subseteq leaks

\* No Initializing version comes after one that the deployment has led to.
AdvancedIsLater ==
    \A o \in Operators :
        /\ cache[o].phase \in Advanced =>
              \A j \in 1..Len(watch[o]) : watch[o][j].phase # "Initializing"
        /\ \A i, j \in 1..Len(watch[o]) :
              i < j /\ watch[o][i].phase \in Advanced => watch[o][j].phase # "Initializing"

\* The newest version that the watch has for an operator is that of the server.
NewestIsCurrent ==
    \A o \in Operators :
        cr = IF Len(watch[o]) = 0 THEN cache[o] ELSE watch[o][Len(watch[o])]

\* When the finalizer of a run that has ended is dropped, at most one Initializing
\* version is left, in the store, and the next write drives it out.
InitializingIsOld ==
    ~NeverDeployed /\ cr.phase \in Terminal /\ ~cr.finalizer =>
        \A o \in Operators :
            /\ \A j \in 1..Len(watch[o]) : watch[o][j].phase # "Initializing"
            /\ cache[o].phase = "Initializing" => Len(watch[o]) = 2

\* What is known of the versions whatever the operator is doing.
CopyInv ==
    /\ AdvancedIsLater
    /\ NewestIsCurrent
    /\ InitializingIsOld
    /\ \A o \in Operators : Rank(cache[o]) < 2 => VersionsIn(NotAdvanced)

\* What is known of them at each step.
VersionsAt(o) ==
    /\ Rank(view[o]) <= Rank(cache[o])
    /\ pc[o] \in PreparingSteps \/ (pc[o] = "fail" /\ view[o].phase = "Preparing")
          => VersionsIn(NotAdvanced) /\ cr.finalizer
    /\ pc[o] # "idle" /\ view[o].phase \in Advanced => VersionsIn(NotInitializing)
    /\ pc[o] = "markCleaned" => ~cr.finalizer
    /\ pc[o] \in {"finalize", "toPreparing"} => ~NeverDeployed

\* Nothing is ever made for a run that is never deployed.
NothingMade ==
    NeverDeployed =>
        /\ Remaining = {}
        /\ VersionsIn(InPhase(Terminal \cup {"Pending"}))
        /\ \A o \in Operators : view[o].phase \in Terminal \cup {"Pending"}

\* Once it is cleaned, nothing of a run is made again.
CleanedStays ==
    ~NeverDeployed /\ cr.phase \in Terminal /\ cr.cond = "cleaned" =>
        /\ Remaining \subseteq leaks
        /\ VersionsIn(NotInitializing)
        /\ \A o \in Operators :
              /\ Rank(cache[o]) = 2
              /\ pc[o] \notin PreparingSteps \cup {"finalize", "toPreparing",
                                                   "readPrepare", "deploy"}

CleanupInv ==
    /\ \A o \in Operators : StepOfView(o) /\ CleanupDone(o) /\ VersionsAt(o)
    /\ CopyInv
    /\ NothingMade
    /\ CleanedStays

-----------------------------------------------------------------------------
(* Versions *)

\* What a write does to the store and to the watch of an operator: the watch grows,
\* or its oldest version reaches the store.
LEMMA PublishShifts ==
    ASSUME StoresType, NEW o \in Operators, NEW new \in Resource, Publish(new), new # cr
    PROVE  /\ cr' = new
           /\ Len(watch[o]) \in Nat
           /\ \/ /\ Len(watch[o]) < MaxLag
                 /\ cache'[o] = cache[o]
                 /\ Len(watch'[o]) = Len(watch[o]) + 1
                 /\ \A j \in 1..Len(watch[o]) : watch'[o][j] = watch[o][j]
                 /\ watch'[o][Len(watch[o]) + 1] = new
              \/ /\ Len(watch[o]) = 0 /\ MaxLag = 0
                 /\ cache'[o] = new
                 /\ Len(watch'[o]) = 0
              \/ /\ Len(watch[o]) > 0 /\ Len(watch[o]) = MaxLag
                 /\ cache'[o] = watch[o][1]
                 /\ Len(watch'[o]) = Len(watch[o])
                 /\ \A j \in 1..(Len(watch[o]) - 1) : watch'[o][j] = watch[o][j + 1]
                 /\ watch'[o][Len(watch[o])] = new
<1> DEFINE q == watch[o]
           a == Append(q, new)
<1>1. /\ cr' = new
      /\ cache'[o] = IF Len(q) < MaxLag THEN cache[o] ELSE Head(a)
      /\ watch'[o] = IF Len(q) < MaxLag THEN a ELSE Tail(a)
  BY DEF Publish
<1>2. q \in Seq(Resource) /\ Len(q) \in Nat /\ Len(q) <= MaxLag
  BY DEF StoresType
<1>3. /\ a \in Seq(Resource)
      /\ Len(a) = Len(q) + 1
      /\ a[Len(q) + 1] = new
      /\ \A j \in 1..Len(q) : a[j] = q[j]
  BY <1>2
<1> HIDE DEF a
<1>4. a # << >>
  BY <1>2, <1>3
<1>5. /\ Head(a) = a[1]
      /\ Len(Tail(a)) = Len(q)
      /\ \A j \in 1..Len(q) : Tail(a)[j] = a[j + 1]
  BY <1>2, <1>3, <1>4
<1> HIDE DEF q
<1>6. CASE Len(q) < MaxLag
  BY <1>1, <1>2, <1>3, <1>6 DEF q
<1>7. CASE ~(Len(q) < MaxLag)
  <2>1. Len(q) = MaxLag
    BY <1>2, <1>7, LagAssumption
  <2>2. cache'[o] = a[1] /\ watch'[o] = Tail(a)
    BY <1>1, <1>5, <1>7
  <2>3. CASE Len(q) = 0
    <3>1. a[1] = new
      BY <1>3, <2>3
    <3>2. Len(watch'[o]) = 0
      BY <1>5, <2>2, <2>3
    <3>3. QED
      BY <1>1, <1>2, <2>1, <2>2, <2>3, <3>1, <3>2 DEF q
  <2>4. CASE Len(q) > 0
    <3>1. a[1] = q[1]
      BY <1>2, <1>3, <2>4
    <3>2. Len(watch'[o]) = Len(q)
      BY <1>5, <2>2
    <3>3. ASSUME NEW j \in 1..(Len(q) - 1)
          PROVE  watch'[o][j] = q[j + 1]
      BY <1>2, <1>3, <1>5, <2>2, <3>3
    <3>4. watch'[o][Len(q)] = new
      BY <1>2, <1>3, <1>5, <2>2, <2>4
    <3>5. QED
      BY <1>1, <1>2, <2>1, <2>2, <2>4, <3>1, <3>2, <3>3, <3>4 DEF q
  <2>5. QED
    BY <1>2, <2>3, <2>4
<1>8. QED
  BY <1>6, <1>7

\* What the watch delivers is the oldest version.
LEMMA DeliveryShifts ==
    ASSUME StoresType, NEW o \in Operators, WatchDelivers(o)
    PROVE  /\ cr' = cr
           /\ Len(watch[o]) \in Nat \ {0}
           /\ cache'[o] = watch[o][1]
           /\ Len(watch'[o]) = Len(watch[o]) - 1
           /\ \A j \in 1..(Len(watch[o]) - 1) : watch'[o][j] = watch[o][j + 1]
<1> DEFINE q == watch[o]
<1>1. q \in Seq(Resource) /\ q # << >>
  BY DEF StoresType, WatchDelivers
<1>2. cr' = cr /\ cache'[o] = Head(q) /\ watch'[o] = Tail(q)
  BY DEF WatchDelivers, StoresType
<1> HIDE DEF q
<1>3. /\ Len(q) \in Nat \ {0}
      /\ Head(q) = q[1]
      /\ Len(Tail(q)) = Len(q) - 1
      /\ \A j \in 1..(Len(q) - 1) : Tail(q)[j] = q[j + 1]
  BY <1>1
<1>4. QED
  BY <1>2, <1>3 DEF q

-----------------------------------------------------------------------------
(* Writes keep what is known of the versions *)

\* A write of this run that does not turn back behind Preparing.
Forward(new) ==
    /\ new \in Resource
    /\ new.valid = cr.valid /\ new.dryRun = cr.dryRun
    /\ Rank(cr) <= Rank(new)

LEMMA PublishCopyInv ==
    ASSUME StoresType, StoreInv, CopyInv, MaxLag <= 2,
           NEW o, Operators = {o},
           NEW new, Forward(new), Publish(new),
           new.phase = "Initializing" => cr.phase = "Initializing" \/ VersionsIn(NotAdvanced),
           new.phase \in Advanced => Rank(cache[o]) = 2,
           ~NeverDeployed /\ new.phase \in Terminal /\ ~new.finalizer
              => cr.phase \in Terminal \/ VersionsIn(NotInitializing)
    PROVE  CopyInv'
<1> DEFINE m == Len(watch[o])
<1>1. /\ cr' = new
      /\ Rank(cache[o]) <= Rank(cache'[o])
  BY PublishOrdered DEF Forward, StoreInv, Publish, crVars
<1>2. CASE new = cr
  <2>1. UNCHANGED crVars
    BY <1>2 DEF Publish
  <2>2. QED
    BY <2>1 DEF CopyInv, AdvancedIsLater, NewestIsCurrent, InitializingIsOld,
                NeverDeployed, VersionsIn, crVars
<1>3. CASE new # cr
  <2>1. new \in Resource /\ o \in Operators
    BY DEF Forward
  <2>2. m \in Nat
    BY <1>3, <2>1, PublishShifts
  <2>3. cr = IF m = 0 THEN cache[o] ELSE watch[o][m]
    BY <2>1 DEF CopyInv, NewestIsCurrent
  <2>4. /\ cache[o].phase \in Advanced =>
              \A j \in 1..m : watch[o][j].phase # "Initializing"
        /\ \A i, j \in 1..m :
              i < j /\ watch[o][i].phase \in Advanced => watch[o][j].phase # "Initializing"
    BY <2>1 DEF CopyInv, AdvancedIsLater
  <2>5. ASSUME new.phase = "Initializing"
        PROVE  /\ cache[o].phase \notin Advanced
               /\ \A j \in 1..m : watch[o][j].phase \notin Advanced
    <3>1. CASE VersionsIn(NotAdvanced)
      BY <2>1, <3>1 DEF VersionsIn, NotAdvanced, InPhase
    <3>2. CASE cr.phase = "Initializing"
      BY <2>2, <2>3, <2>4, <3>2 DEF Advanced
    <3>3. QED
      BY <2>5, <3>1, <3>2
  <2> HIDE DEF m
  <2> DEFINE Grows ==
                /\ cache'[o] = cache[o]
                /\ Len(watch'[o]) = m + 1
                /\ \A j \in 1..m : watch'[o][j] = watch[o][j]
                /\ watch'[o][m + 1] = new
             Moves ==
                /\ m > 0 /\ m = MaxLag
                /\ cache'[o] = watch[o][1]
                /\ Len(watch'[o]) = m
                /\ \A j \in 1..(m - 1) : watch'[o][j] = watch[o][j + 1]
                /\ watch'[o][m] = new
             Skips == m = 0 /\ cache'[o] = new /\ Len(watch'[o]) = 0
  <2>6. (Grows /\ m < MaxLag) \/ Moves \/ Skips
    BY <1>3, <2>1, PublishShifts DEF m
  <2>7. AdvancedIsLater'
    <3>1. CASE Grows
      <4>1. ASSUME cache'[o].phase \in Advanced, NEW j \in 1..(m + 1)
            PROVE  watch'[o][j].phase # "Initializing"
        BY <2>2, <2>4, <2>5, <3>1, <4>1
      <4>2. ASSUME NEW i \in 1..(m + 1), NEW j \in 1..(m + 1),
                   i < j, watch'[o][i].phase \in Advanced
            PROVE  watch'[o][j].phase # "Initializing"
        <5>1. i \in 1..m /\ watch'[o][i] = watch[o][i]
          BY <2>2, <3>1, <4>2
        <5>2. CASE j = m + 1
          BY <2>5, <3>1, <4>2, <5>1, <5>2
        <5>3. CASE j \in 1..m
          BY <2>4, <3>1, <4>2, <5>1, <5>3
        <5>4. QED
          BY <2>2, <5>2, <5>3
      <4>3. QED
        BY <2>1, <3>1, <4>1, <4>2 DEF AdvancedIsLater
    <3>2. CASE Moves
      <4>1. ASSUME cache'[o].phase \in Advanced, NEW j \in 1..m
            PROVE  watch'[o][j].phase # "Initializing"
        <5>1. CASE j = m
          BY <2>2, <2>5, <3>2, <4>1, <5>1
        <5>2. CASE j \in 1..(m - 1)
          BY <2>2, <2>4, <3>2, <4>1, <5>2
        <5>3. QED
          BY <2>2, <5>1, <5>2
      <4>2. ASSUME NEW i \in 1..m, NEW j \in 1..m,
                   i < j, watch'[o][i].phase \in Advanced
            PROVE  watch'[o][j].phase # "Initializing"
        <5>1. /\ watch'[o][i] = watch[o][i + 1]
              /\ i + 1 \in 1..m
          BY <2>2, <3>2, <4>2
        <5>2. CASE j = m
          BY <2>5, <3>2, <4>2, <5>1, <5>2
        <5>3. CASE j \in 1..(m - 1)
          <6>1. /\ watch'[o][j] = watch[o][j + 1]
                /\ j + 1 \in 1..m
                /\ i + 1 < j + 1
            BY <2>2, <3>2, <4>2, <5>3
          <6>2. QED
            BY <2>4, <4>2, <5>1, <6>1
        <5>4. QED
          BY <2>2, <5>2, <5>3
      <4>3. QED
        BY <2>1, <3>2, <4>1, <4>2 DEF AdvancedIsLater
    <3>3. CASE Skips
      <4>1. \A j \in 1..Len(watch'[o]) : FALSE
        BY <3>3
      <4>2. QED
        BY <2>1, <4>1 DEF AdvancedIsLater
    <3>4. QED
      BY <2>6, <3>1, <3>2, <3>3
  <2>8. NewestIsCurrent'
    BY <1>1, <2>1, <2>2, <2>6 DEF NewestIsCurrent
  <2>9. InitializingIsOld'
    <3> SUFFICES ASSUME ~NeverDeployed, new.phase \in Terminal, ~new.finalizer
                 PROVE  /\ \A j \in 1..Len(watch'[o]) : watch'[o][j].phase # "Initializing"
                        /\ cache'[o].phase = "Initializing" => Len(watch'[o]) = 2
      BY <1>1, <2>1 DEF InitializingIsOld, NeverDeployed, Forward
    <3>1. new.phase # "Initializing"
      BY DEF Terminal
    <3>2. CASE VersionsIn(NotInitializing)
      <4>1. /\ cache[o].phase # "Initializing"
            /\ \A j \in 1..m : watch[o][j].phase # "Initializing"
        BY <2>1, <3>2 DEF VersionsIn, NotInitializing, InPhase, m
      <4>2. QED
        BY <2>2, <2>6, <3>1, <4>1
    <3>3. CASE cr.phase \in Terminal
      <4>1. cr.phase # "Initializing"
        BY <3>3 DEF Terminal
      <4>2. m <= 2
        BY <2>1, <2>2, LagAssumption DEF StoresType, m
      <4>3. CASE Grows /\ m < MaxLag
        BY <2>2, <2>3, <3>1, <4>1, <4>3, LagAssumption DEF m
      <4>4. CASE Moves
        <5>1. m = 1 \/ m = 2
          BY <2>2, <4>2, <4>4
        <5>2. CASE m = 1
          BY <2>3, <3>1, <4>1, <4>4, <5>2
        <5>3. CASE m = 2
          BY <2>3, <3>1, <4>1, <4>4, <5>3
        <5>4. QED
          BY <5>1, <5>2, <5>3
      <4>5. CASE Skips
        BY <3>1, <4>5
      <4>6. QED
        BY <2>6, <4>3, <4>4, <4>5
    <3>4. QED
      BY <3>2, <3>3
  <2>10. Rank(cache'[o]) < 2 => VersionsIn(NotAdvanced)'
    <3> SUFFICES ASSUME Rank(cache'[o]) < 2
                 PROVE  VersionsIn(NotAdvanced)'
      OBVIOUS
    <3>1. Rank(cache[o]) < 2
      BY <1>1, RankType
    <3>2. VersionsIn(NotAdvanced) /\ new \in NotAdvanced
      BY <2>1, <3>1 DEF CopyInv, NotAdvanced, InPhase, Resource
    <3>3. QED
      BY <3>2, PublishVersions DEF NotAdvanced, InPhase
  <2>11. QED
    BY <2>7, <2>8, <2>9, <2>10 DEF CopyInv
<1>4. QED
  BY <1>2, <1>3

LEMMA RemainingLeaked ==
    ASSUME \A c \in Children : GoneOrLeaked(c), prepareCM => "prepareCM" \in leaks,
           Outside \subseteq leaks
    PROVE  Remaining \subseteq leaks
BY DEF Remaining, GoneOrLeaked

\* The write that marks a run as cleaned drives the last Initializing version out.
LEMMA MarkDrivesOut ==
    ASSUME StoresType, CopyInv, MaxLag <= 2, NEW o, Operators = {o},
           ~NeverDeployed, cr.phase \in Terminal, ~cr.finalizer,
           NEW new \in NotInitializing, new # cr, Publish(new)
    PROVE  VersionsIn(NotInitializing)'
<1> DEFINE m == Len(watch[o])
<1>1. /\ \A j \in 1..m : watch[o][j].phase # "Initializing"
      /\ cache[o].phase = "Initializing" => m = 2
      /\ m \in Nat /\ m <= MaxLag
  BY DEF CopyInv, InitializingIsOld, StoresType
<1>2. new \in Resource /\ new.phase # "Initializing" /\ o \in Operators
  BY DEF NotInitializing, InPhase
<1>3. StoresType'
  BY <1>2, PublishType
<1>4. cr' = new
  BY <1>2, PublishShifts
<1>5. /\ cache'[o].phase # "Initializing"
      /\ \A j \in 1..Len(watch'[o]) : watch'[o][j].phase # "Initializing"
  <2>1. CASE m < MaxLag
    <3>1. /\ cache'[o] = cache[o]
          /\ Len(watch'[o]) = m + 1
          /\ \A j \in 1..m : watch'[o][j] = watch[o][j]
          /\ watch'[o][m + 1] = new
      BY <1>1, <1>2, <2>1, PublishShifts, LagAssumption
    <3>2. m # 2
      BY <1>1, <2>1, LagAssumption
    <3>3. cache'[o].phase # "Initializing"
      BY <1>1, <3>1, <3>2
    <3>4. ASSUME NEW j \in 1..Len(watch'[o])
          PROVE  watch'[o][j].phase # "Initializing"
      <4>1. CASE j = m + 1
        BY <1>2, <3>1, <4>1
      <4>2. CASE j \in 1..m
        BY <1>1, <3>1, <4>2
      <4>3. QED
        BY <1>1, <3>1, <4>1, <4>2
    <3>5. QED
      BY <3>3, <3>4
  <2>2. CASE m = MaxLag /\ m = 0
    <3>1. cache'[o] = new /\ Len(watch'[o]) = 0
      BY <1>2, <2>2, PublishShifts
    <3>2. QED
      BY <1>2, <3>1
  <2>3. CASE m = MaxLag /\ m > 0
    <3>1. /\ cache'[o] = watch[o][1]
          /\ Len(watch'[o]) = m
          /\ \A j \in 1..(m - 1) : watch'[o][j] = watch[o][j + 1]
          /\ watch'[o][m] = new
      BY <1>2, <2>3, PublishShifts
    <3>2. cache'[o].phase # "Initializing"
      BY <1>1, <2>3, <3>1
    <3>3. ASSUME NEW j \in 1..Len(watch'[o])
          PROVE  watch'[o][j].phase # "Initializing"
      <4>1. CASE j = m
        BY <1>2, <3>1, <4>1
      <4>2. CASE j \in 1..(m - 1)
        <5>1. j + 1 \in 1..m
          BY <1>1, <4>2
        <5>2. QED
          BY <1>1, <3>1, <4>2, <5>1
      <4>3. QED
        BY <1>1, <3>1, <4>1, <4>2
    <3>4. QED
      BY <3>2, <3>3
  <2>4. QED
    BY <1>1, <2>1, <2>2, <2>3, LagAssumption
<1>6. ASSUME NEW r \in Resource, r.phase # "Initializing"
      PROVE  r \in NotInitializing
  BY <1>6 DEF NotInitializing, InPhase, Resource
<1>7. cache'[o] \in Resource
  BY <1>2, <1>3 DEF StoresType
<1>8. \A j \in 1..Len(watch'[o]) : watch'[o][j] \in Resource
  BY <1>2, <1>3 DEF StoresType
<1>9. QED
  BY <1>4, <1>5, <1>6, <1>7, <1>8 DEF VersionsIn

-----------------------------------------------------------------------------
(* Steps *)

\* A patch is written, or the reconciliation ends.
LEMMA PatchCleanup ==
    ASSUME TypeOK, OrphanInv, CleanupInv, MaxLag <= 2, NEW o, Operators = {o},
           NEW new, NEW to, Patch(o, new, to),
           UNCHANGED <<view, n, infraVars, prepareCM, children, leaks>>,
           cr.exists => Forward(new),
           new.phase = "Initializing" => cr.phase = "Initializing" \/ VersionsIn(NotAdvanced),
           new.phase \in Advanced => Rank(cache[o]) = 2,
           new.phase \in Terminal /\ ~new.finalizer /\ ~NeverDeployed
              => cr.phase \in Terminal \/ VersionsIn(NotInitializing),
           NeverDeployed => new.phase \in Terminal \cup {"Pending"},
           new.phase \in Terminal /\ new.cond = "cleaned" /\ ~NeverDeployed
              => /\ cr.phase \in Terminal
                 /\ cr.cond = "cleaned" \/ pc[o] = "markCleaned",
           to \in {"idle", "toPreparing", "toAggregating", "markCleaned"},
           to = "toPreparing" => pc[o] = "finalize",
           to = "toAggregating" => pc[o] = "scale" /\ new.phase # "Initializing",
           to = "markCleaned" => /\ pc[o] = "deleteTopics"
                                 /\ ~new.finalizer
                                 /\ Outside \subseteq leaks
    PROVE  CleanupInv'
<1>0. StoresType /\ pc \in [Operators -> Steps] /\ o \in Operators
  BY TypeParts DEF LocalType
<1>1. /\ StepOfView(o) /\ CleanupDone(o) /\ VersionsAt(o)
      /\ CopyInv /\ NothingMade /\ CleanedStays /\ StoreInv
  BY <1>0 DEF CleanupInv, OrphanInv
<1>2. Remaining' = Remaining /\ Outside' = Outside
  BY DEF Remaining, Outside, infraVars
<1>3. CASE cr.exists /\ Publish(new) /\ GoTo(o, to)
  <2>1. /\ new \in Resource
        /\ NeverDeployed' <=> NeverDeployed
        /\ cr' = new
        /\ Rank(cache[o]) <= Rank(cache'[o])
        /\ pc'[o] = to
    <3>1. Forward(new)
      BY <1>3
    <3>2. cr' = new
      BY <1>3 DEF Publish, crVars
    <3>3. Rank(cache[o]) <= Rank(cache'[o])
      BY <1>0, <1>1, <1>3, <3>1, PublishOrdered DEF Forward, StoreInv
    <3>4. pc'[o] = to
      BY <1>0, <1>3 DEF GoTo
    <3>5. QED
      BY <3>1, <3>2, <3>3, <3>4 DEF Forward, NeverDeployed
  <2>2. CopyInv'
    BY <1>0, <1>1, <1>3, PublishCopyInv
  <2>3. StepOfView(o)'
    BY <1>1, <2>1 DEF StepOfView, CleanupSteps, PreparingSteps
  <2>4. CleanupDone(o)'
    BY <1>1, <1>2, <2>1 DEF CleanupDone, GoneOrLeaked
  <2>5. VersionsAt(o)'
    <3>1. Rank(view'[o]) <= Rank(cache'[o])
      BY <1>1, <2>1, RankType DEF VersionsAt
    <3>2. ASSUME to = "toAggregating"
          PROVE  VersionsIn(NotInitializing)'
      <4>1. VersionsIn(NotInitializing)
        BY <1>1, <3>2 DEF StepOfView, VersionsAt, Advanced
      <4>2. new \in NotInitializing /\ NotInitializing \in SUBSET Resource
        BY <2>1, <3>2 DEF NotInitializing, InPhase, Resource
      <4>3. QED
        BY <1>0, <1>3, <4>1, <4>2, PublishVersions
    <3>3. to \in {"toPreparing", "markCleaned"} => view[o].phase \notin Advanced
      BY <1>1 DEF StepOfView, CleanupSteps, Advanced, Terminal
    <3>4. to = "toPreparing" => ~NeverDeployed
      BY <1>1 DEF VersionsAt
    <3>5. QED
      BY <2>1, <3>1, <3>2, <3>3, <3>4 DEF VersionsAt, PreparingSteps
  <2>6. NothingMade'
    <3> SUFFICES ASSUME NeverDeployed
                 PROVE  /\ Remaining' = {}
                        /\ VersionsIn(InPhase(Terminal \cup {"Pending"}))'
                        /\ view'[o].phase \in Terminal \cup {"Pending"}
      BY <2>1 DEF NothingMade
    <3> DEFINE S == InPhase(Terminal \cup {"Pending"})
    <3>1. VersionsIn(S) /\ Remaining = {} /\ view[o].phase \in Terminal \cup {"Pending"}
      BY <1>0, <1>1 DEF NothingMade
    <3>2. S \in SUBSET Resource /\ new \in S
      BY <2>1 DEF InPhase
    <3> HIDE DEF S
    <3>3. VersionsIn(S)'
      BY <1>0, <1>3, <3>1, <3>2, PublishVersions
    <3>4. VersionsIn(InPhase(Terminal \cup {"Pending"}))'
      BY <3>3 DEF S, VersionsIn
    <3>5. QED
      BY <1>2, <3>1, <3>4
  <2>7. CleanedStays'
    <3> SUFFICES ASSUME ~NeverDeployed, new.phase \in Terminal, new.cond = "cleaned"
                 PROVE  /\ Remaining' \subseteq leaks'
                        /\ VersionsIn(NotInitializing)'
                        /\ Rank(cache'[o]) = 2
                        /\ pc'[o] \notin PreparingSteps \cup {"finalize", "toPreparing",
                                                              "readPrepare", "deploy"}
      BY <2>1 DEF CleanedStays
    <3>1. new \in NotInitializing /\ NotInitializing \in SUBSET Resource
      BY <2>1 DEF NotInitializing, InPhase, Terminal, Phases
    <3>2. CASE cr.phase \in Terminal /\ cr.cond = "cleaned"
      <4>1. /\ Remaining \subseteq leaks
            /\ VersionsIn(NotInitializing)
            /\ Rank(cache[o]) = 2
            /\ pc[o] # "finalize"
        BY <1>0, <1>1, <3>2 DEF CleanedStays
      <4>2. VersionsIn(NotInitializing)'
        BY <1>0, <1>3, <3>1, <4>1, PublishVersions
      <4>3. Rank(cache'[o]) = 2
        BY <2>1, <4>1, RankType
      <4>4. to \in {"idle", "toAggregating", "markCleaned"}
        BY <4>1
      <4>5. QED
        BY <1>2, <2>1, <4>1, <4>2, <4>3, <4>4 DEF PreparingSteps
    <3>3. CASE cr.phase \in Terminal /\ cr.cond # "cleaned"
      <4>1. pc[o] = "markCleaned" /\ new # cr
        BY <3>3
      <4>2. to = "idle"
        BY <4>1
      <4>3. ~cr.finalizer /\ Remaining \subseteq leaks
        BY <1>1, <4>1, RemainingLeaked DEF CleanupDone, VersionsAt
      <4>4. VersionsIn(NotInitializing)'
        BY <1>0, <1>1, <1>3, <3>1, <3>3, <4>1, <4>3, MarkDrivesOut
      <4>5. Rank(cache[o]) = 2
        BY <1>0, <4>1 DEF OrphanInv, HandlerInv, HandlerAt
      <4>6. Rank(cache'[o]) = 2
        BY <2>1, <4>5, RankType
      <4>7. QED
        BY <1>2, <2>1, <4>2, <4>3, <4>4, <4>6 DEF PreparingSteps
    <3>4. QED
      BY <3>2, <3>3
  <2>8. QED
    BY <2>2, <2>3, <2>4, <2>5, <2>6, <2>7 DEF CleanupInv
<1>4. CASE UNCHANGED crVars /\ GoTo(o, "idle")
  <2>1. pc'[o] = "idle"
    BY <1>0, <1>4 DEF GoTo
  <2>2. StepOfView(o)' /\ CleanupDone(o)'
    BY <2>1 DEF StepOfView, CleanupDone, CleanupSteps, PreparingSteps
  <2>3. VersionsAt(o)'
    BY <1>1, <1>4, <2>1 DEF VersionsAt, PreparingSteps, crVars
  <2>4. CopyInv'
    BY <1>1, <1>4 DEF CopyInv, AdvancedIsLater, NewestIsCurrent, InitializingIsOld,
                      NeverDeployed, VersionsIn, crVars
  <2>5. NothingMade'
    BY <1>1, <1>2, <1>4 DEF NothingMade, NeverDeployed, VersionsIn, crVars
  <2>6. CleanedStays'
    BY <1>1, <1>2, <1>4, <2>1
       DEF CleanedStays, NeverDeployed, VersionsIn, crVars, PreparingSteps
  <2>7. QED
    BY <2>2, <2>3, <2>4, <2>5, <2>6 DEF CleanupInv
<1>5. QED
  BY <1>3, <1>4 DEF Patch

\* Past the last topic, all that may be left outside the cluster is leaked.
LEMMA AllTried ==
    ASSUME TypeOK, OrphanInv, NEW o, Operators = {o},
           pc[o] = "deleteTopics", ~InLoop(o, StreamSeq)
    PROVE  Outside \subseteq leaks
<1>1. /\ platform => "platform" \in leaks
      /\ \A j \in 1..(n[o] - 1) : StreamSeq[j] \in topics => StreamSeq[j] \in leaks
  BY DEF OrphanInv, HandlerInv, HandlerAt
<1>2. n[o] \in Nat /\ ~(n[o] <= Len(StreamSeq))
  BY DEF InLoop, TypeOK
<1>3. ASSUME NEW s \in topics
      PROVE  s \in leaks
  <2>1. PICK j \in 1..Len(StreamSeq) : s = StreamSeq[j]
    BY <1>3 DEF TypeOK, StreamSet
  <2>2. j \in 1..(n[o] - 1)
    BY <1>2, <2>1, LoopLengths
  <2>3. QED
    BY <1>1, <1>3, <2>1, <2>2
<1>4. QED
  BY <1>1, <1>3 DEF Outside

LEMMA WritesCleanup ==
    ASSUME TypeOK, OrphanInv, CleanupInv, MaxLag <= 2, NEW o, Operators = {o},
           \/ MarkFailed(o)
           \/ FinishDryRun(o) \/ AddFinalizer(o) \/ ToPreparing(o)
           \/ ToInitializing(o) \/ ToRunning(o)
           \/ AnnotateSince(o) \/ ToAggregating(o)
           \/ FetchResults(o) \/ JobDone(o)
           \/ DropFinalizer(o) \/ MarkCleaned(o)
    PROVE  CleanupInv'
<1>0. /\ cr \in Resource
      /\ o \in Operators
      /\ pc \in [Operators -> Steps]
      /\ UNCHANGED <<view, n, infraVars, prepareCM, children, leaks>>
  BY DEF TypeOK, MarkFailed, FinishDryRun, AddFinalizer, ToPreparing, ToInitializing,
         ToRunning, AnnotateSince, ToAggregating, FetchResults, JobDone, DropFinalizer,
         MarkCleaned, clusterVars
<1>1. /\ StepOfView(o) /\ CleanupDone(o) /\ VersionsAt(o)
      /\ CopyInv /\ NothingMade /\ CleanedStays
      /\ HandlerAt(o)
      /\ Rank(view[o]) <= Rank(cache[o])
      /\ Rank(cache[o]) \in 0..2
  BY <1>0, RankType DEF CleanupInv, OrphanInv, HandlerInv, VersionsAt
\* A handler of a run that is never deployed has a copy from before or after it.
<1>2. ASSUME view[o].phase \in {"Preparing", "Initializing"} \cup Advanced
      PROVE  ~NeverDeployed
  BY <1>0, <1>1, <1>2 DEF NothingMade, Advanced, Terminal
<1>3. ASSUME view[o].phase \notin {"Pending", "Preparing"}
      PROVE  Rank(cache[o]) = 2
  BY <1>1, <1>3 DEF Rank
\* The phase that a handler writes.
<1>4. ASSUME NEW p \in Phases \ {"Pending", "Preparing"},
             NEW c \in {"none", "progress", "complete", "failed", "cleaned"}
      PROVE  /\ Forward(StatusPatch(p, c))
             /\ StatusPatch(p, c).phase = p /\ StatusPatch(p, c).cond = c
             /\ StatusPatch(p, c).finalizer = cr.finalizer
  <2>1. StatusPatch(p, c) \in Resource
    BY <1>0, WrittenType
  <2>2. /\ StatusPatch(p, c).phase = p /\ StatusPatch(p, c).cond = c
        /\ StatusPatch(p, c).finalizer = cr.finalizer
        /\ StatusPatch(p, c).valid = cr.valid
        /\ StatusPatch(p, c).dryRun = cr.dryRun
    BY <1>0 DEF StatusPatch, Resource
  <2>3. Rank(StatusPatch(p, c)) = 2
    BY <2>2 DEF Rank
  <2>4. QED
    BY <2>1, <2>2, <2>3, RankType DEF Forward
\* A write that keeps the phase.
<1>5. ASSUME NEW new \in Resource, new.phase = cr.phase,
             new.valid = cr.valid, new.dryRun = cr.dryRun
      PROVE  /\ Forward(new)
             /\ new.phase \in Advanced => Rank(cache[o]) = 2
             /\ NeverDeployed => new.phase \in Terminal \cup {"Pending"}
  <2>1. Rank(new) = Rank(cr)
    BY <1>5 DEF Rank
  <2>2. cr.phase \in Advanced => Rank(cache[o]) = 2
    <3>1. cr.phase \in Advanced => cr \notin NotAdvanced
      BY DEF NotAdvanced, InPhase
    <3>2. Rank(cache[o]) < 2 => cr \in NotAdvanced
      BY <1>0, <1>1 DEF CopyInv, VersionsIn
    <3>3. QED
      BY <1>1, <3>1, <3>2
  <2>3. NeverDeployed => cr.phase \in Terminal \cup {"Pending"}
    BY <1>1 DEF NothingMade, VersionsIn, InPhase
  <2>4. QED
    BY <1>5, <2>1, <2>2, <2>3, RankType DEF Forward
<1>6. CASE MarkFailed(o)
  <2> DEFINE new == StatusPatch("Failed", "failed")
  <2>1. /\ Forward(new) /\ new.phase = "Failed" /\ new.cond = "failed"
        /\ new.finalizer = cr.finalizer
    BY <1>4 DEF Phases, Terminal
  <2>2. pc[o] \in {"fail", "reject"} /\ Patch(o, new, "idle")
    BY <1>6 DEF MarkFailed, At
  <2> HIDE DEF new
  <2>3. ~new.finalizer /\ ~NeverDeployed => VersionsIn(NotInitializing)
    BY <1>1, <2>1, <2>2 DEF HandlerAt, StepOfView, VersionsAt, NeverDeployed, Advanced
  <2>4. QED
    BY <1>0, <2>1, <2>2, <2>3, PatchCleanup DEF Advanced, Terminal
<1>7. CASE FinishDryRun(o)
  <2> DEFINE new == StatusPatch("Completed", "cleaned")
  <2>1. /\ Forward(new) /\ new.phase = "Completed"
    BY <1>4 DEF Phases, Terminal
  <2>2. NeverDeployed
    BY <1>1, <1>7 DEF FinishDryRun, At, HandlerAt, NeverDeployed
  <2>3. Patch(o, new, "idle")
    BY <1>7 DEF FinishDryRun
  <2> HIDE DEF new
  <2>4. QED
    BY <1>0, <2>1, <2>2, <2>3, PatchCleanup DEF Advanced, Terminal
<1>8. CASE AddFinalizer(o)
  <2>1. pc[o] = "finalize" /\ Rank(cr) <= 1 /\ (view[o].finalizer => cr.exists)
    BY <1>1, <1>8 DEF AddFinalizer, At, HandlerAt, Kept
  <2>2. cr.phase \notin Terminal
    BY <2>1 DEF Rank, Terminal
  <2>3. CASE view[o].finalizer
    <3>1. Patch(o, cr, "toPreparing")
      BY <1>8, <2>1, <2>3 DEF AddFinalizer, Patch, Publish
    <3>2. QED
      BY <1>0, <1>5, <2>1, <2>2, <3>1, PatchCleanup
  <2>4. CASE ~view[o].finalizer
    <3>1. /\ FinalizerSet(cr) \in Resource
          /\ FinalizerSet(cr).phase = cr.phase
          /\ FinalizerSet(cr).valid = cr.valid
          /\ FinalizerSet(cr).dryRun = cr.dryRun
      BY <1>0, WrittenType DEF FinalizerSet, Resource
    <3>2. Patch(o, FinalizerSet(cr), "toPreparing")
      BY <1>8, <2>4 DEF AddFinalizer
    <3>3. QED
      BY <1>0, <1>5, <2>1, <2>2, <3>1, <3>2, PatchCleanup
  <2>5. QED
    BY <2>3, <2>4
<1>9. CASE ToPreparing(o)
  <2> DEFINE new == StatusPatch("Preparing", "progress")
  <2>1. pc[o] = "toPreparing" /\ Rank(cr) <= 1 /\ ~NeverDeployed
    BY <1>1, <1>9 DEF ToPreparing, At, HandlerAt, VersionsAt
  <2>2. new \in Resource
    BY <1>0, WrittenType DEF Phases
  <2>3. new.phase = "Preparing" /\ new.valid = cr.valid /\ new.dryRun = cr.dryRun
    BY <1>0 DEF StatusPatch, Resource
  <2>4. Patch(o, new, "idle")
    BY <1>9 DEF ToPreparing
  <2> HIDE DEF new
  <2>5. Rank(new) = 1
    BY <2>3 DEF Rank
  <2>6. Forward(new)
    BY <2>1, <2>2, <2>3, <2>5 DEF Forward
  <2>7. QED
    BY <1>0, <2>1, <2>3, <2>4, <2>6, PatchCleanup DEF Advanced, Terminal
<1>10. CASE ToInitializing(o)
  <2> DEFINE new == StatusPatch("Initializing", "progress")
  <2>1. Forward(new) /\ new.phase = "Initializing"
    BY <1>4 DEF Phases
  <2>2. pc[o] = "toInitializing" /\ Patch(o, new, "idle")
    BY <1>10 DEF ToInitializing, At
  <2> HIDE DEF new
  <2>3. VersionsIn(NotAdvanced) /\ ~NeverDeployed
    BY <1>1, <1>2, <2>2 DEF VersionsAt, StepOfView, PreparingSteps
  <2>4. QED
    BY <1>0, <2>1, <2>2, <2>3, PatchCleanup DEF Advanced, Terminal
<1>11. CASE ToRunning(o)
  <2> DEFINE new == StatusPatch("Running", "progress")
  <2>1. Forward(new) /\ new.phase = "Running"
    BY <1>4 DEF Phases
  <2>2. pc[o] = "deploy" /\ Patch(o, new, "idle")
    BY <1>11 DEF ToRunning, At
  <2> HIDE DEF new
  <2>3. Rank(cache[o]) = 2 /\ ~NeverDeployed
    BY <1>1, <1>2, <1>3, <2>2 DEF StepOfView
  <2>4. QED
    BY <1>0, <2>1, <2>2, <2>3, PatchCleanup DEF Terminal
<1>12. CASE AnnotateSince(o)
  <2> DEFINE new == [cr EXCEPT !.since = TRUE]
  <2>1. /\ new \in Resource
        /\ new.phase = cr.phase /\ new.cond = cr.cond /\ new.finalizer = cr.finalizer
        /\ new.valid = cr.valid /\ new.dryRun = cr.dryRun
    BY <1>0, WrittenType DEF Resource
  <2>2. pc[o] = "scale" /\ Patch(o, new, "toAggregating")
    BY <1>12 DEF AnnotateSince, At
  <2> HIDE DEF new
  <2>3. VersionsIn(NotInitializing)
    BY <1>1, <2>2 DEF StepOfView, VersionsAt, Advanced
  <2>4. cr.phase # "Initializing"
    BY <2>3 DEF VersionsIn, NotInitializing, InPhase
  <2>5. QED
    BY <1>0, <1>5, <2>1, <2>2, <2>4, PatchCleanup
<1>13. CASE ToAggregating(o)
  <2> DEFINE new == [cr EXCEPT !.phase = "Aggregating"]
  <2>1. /\ new \in Resource /\ new.phase = "Aggregating"
        /\ new.valid = cr.valid /\ new.dryRun = cr.dryRun
    BY <1>0, WrittenType DEF Resource
  <2>2. pc[o] = "toAggregating" /\ Patch(o, new, "idle")
    BY <1>13 DEF ToAggregating, At
  <2> HIDE DEF new
  <2>3. Rank(new) = 2
    BY <2>1 DEF Rank
  <2>4. Forward(new)
    BY <2>1, <2>3, RankType DEF Forward
  <2>5. Rank(cache[o]) = 2 /\ ~NeverDeployed
    BY <1>1, <1>2, <1>3, <2>2 DEF StepOfView, Advanced
  <2>6. QED
    BY <1>0, <2>1, <2>2, <2>4, <2>5, PatchCleanup DEF Terminal
<1>14. CASE FetchResults(o)
  <2>1. PICK results \in {"metrics", "empty"} : Patch(o, ReportingWith(results), "idle")
    BY <1>14 DEF FetchResults
  <2> DEFINE new == ReportingWith(results)
  <2>2. new \in Resource
    BY <1>0, WrittenType
  <2>3. /\ new.phase = "Reporting"
        /\ new.valid = cr.valid /\ new.dryRun = cr.dryRun
    BY <1>0 DEF ReportingWith, Resource
  <2>4. pc[o] = "fetch"
    BY <1>14 DEF FetchResults, At
  <2>5. Patch(o, new, "idle")
    BY <2>1
  <2> HIDE DEF new
  <2>6. Rank(new) = 2
    BY <2>3 DEF Rank
  <2>7. Forward(new)
    BY <2>2, <2>3, <2>6, RankType DEF Forward
  <2>8. Rank(cache[o]) = 2 /\ ~NeverDeployed
    BY <1>1, <1>2, <1>3, <2>4 DEF StepOfView, Advanced
  <2>9. QED
    BY <1>0, <2>3, <2>4, <2>5, <2>7, <2>8, PatchCleanup DEF Terminal
<1>15. CASE JobDone(o)
  <2> DEFINE new == StatusPatch("Completed", "complete")
  <2>1. Forward(new) /\ new.phase = "Completed" /\ new.cond = "complete"
    BY <1>4 DEF Phases, Terminal
  <2>2. pc[o] = "checkJob" /\ Patch(o, new, "idle")
    BY <1>15 DEF JobDone, At
  <2> HIDE DEF new
  <2>3. VersionsIn(NotInitializing) /\ ~NeverDeployed
    BY <1>1, <1>2, <2>2 DEF StepOfView, VersionsAt, Advanced
  <2>4. QED
    BY <1>0, <2>1, <2>2, <2>3, PatchCleanup DEF Advanced
<1>16. CASE DropFinalizer(o)
  <2> DEFINE new == FinalizerDropped(cr)
  <2>1. /\ new \in Resource
        /\ new.phase = cr.phase /\ new.cond = cr.cond /\ new.finalizer = FALSE
        /\ new.valid = cr.valid /\ new.dryRun = cr.dryRun
    BY <1>0, WrittenType DEF Resource, FinalizerDropped
  <2>2. pc[o] = "deleteTopics" /\ Patch(o, new, "markCleaned") /\ ~InLoop(o, StreamSeq)
    BY <1>16 DEF DropFinalizer, At
  <2> HIDE DEF new
  <2>3. Outside \subseteq leaks
    BY <2>2, AllTried
  <2>4. QED
    BY <1>0, <1>5, <2>1, <2>2, <2>3, PatchCleanup
<1>17. CASE MarkCleaned(o)
  <2> DEFINE new == [cr EXCEPT !.cond = "cleaned"]
  <2>1. /\ new \in Resource
        /\ new.phase = cr.phase
        /\ new.valid = cr.valid /\ new.dryRun = cr.dryRun
    BY <1>0, WrittenType DEF Resource
  <2>2. pc[o] = "markCleaned" /\ Patch(o, new, "idle")
    BY <1>17 DEF MarkCleaned, At
  <2> HIDE DEF new
  <2>3. QED
    BY <1>0, <1>5, <2>1, <2>2, PatchCleanup
<1>18. QED
  BY <1>6, <1>7, <1>8, <1>9, <1>10, <1>11, <1>12, <1>13, <1>14, <1>15, <1>16, <1>17

\* A call of a handler that has a copy of a phase from which things are made.
LEMMA MakingCleanup ==
    ASSUME TypeOK, OrphanInv, CleanupInv, NEW o, Operators = {o},
           \/ CreateTopic(o) \/ PrepareAdapter(o) \/ StorePrepare(o)
           \/ ReadPrepare(o) \/ Deploy(o)
    PROVE  CleanupInv'
<1>0. /\ pc \in [Operators -> Steps]
      /\ o \in Operators
      /\ UNCHANGED <<crVars, view, leaks>>
  BY DEF TypeOK, CreateTopic, PrepareAdapter, StorePrepare, ReadPrepare, Deploy
<1>1. /\ StepOfView(o) /\ VersionsAt(o)
      /\ CopyInv /\ NothingMade /\ CleanedStays
  BY <1>0 DEF CleanupInv
<1>2. /\ CopyInv'
      /\ NeverDeployed' <=> NeverDeployed
      /\ \A S : VersionsIn(S)' <=> VersionsIn(S)
  BY <1>0, <1>1 DEF CopyInv, AdvancedIsLater, NewestIsCurrent, InitializingIsOld,
                    NeverDeployed, VersionsIn, crVars
<1>3. /\ pc[o] \in {"topics", "storePrepare", "readPrepare", "deploy"}
      /\ pc[o] \in {"topics", "storePrepare"}
            => pc'[o] \in {"topics", "storePrepare", "toInitializing", "fail"}
      /\ pc[o] \in {"readPrepare", "deploy"} => pc'[o] \in {"deploy", "idle"}
  BY <1>0 DEF CreateTopic, PrepareAdapter, StorePrepare, ReadPrepare, Deploy, At,
              NextEntry, GoToLoop, GoTo
<1>4. view[o].phase = IF pc[o] \in {"topics", "storePrepare"} THEN "Preparing"
                                                               ELSE "Initializing"
  BY <1>1, <1>3 DEF StepOfView, PreparingSteps
<1>5. ~NeverDeployed
  BY <1>0, <1>1, <1>4 DEF NothingMade, Terminal
<1>6. ~(cr.phase \in Terminal /\ cr.cond = "cleaned")
  BY <1>0, <1>1, <1>3, <1>5 DEF CleanedStays, PreparingSteps
<1>7. StepOfView(o)'
  BY <1>0, <1>3, <1>4 DEF StepOfView, CleanupSteps, PreparingSteps
<1>8. CleanupDone(o)'
  BY <1>3 DEF CleanupDone
<1>9. VersionsAt(o)'
  <2>1. Rank(view'[o]) <= Rank(cache'[o])
    BY <1>0, <1>1 DEF VersionsAt, crVars
  <2>2. view[o].phase \notin Advanced
    BY <1>4 DEF Advanced
  <2>3. pc[o] \in {"topics", "storePrepare"} => VersionsIn(NotAdvanced) /\ cr.finalizer
    BY <1>1 DEF VersionsAt, PreparingSteps
  <2>4. view[o].phase = "Preparing" => pc[o] \in {"topics", "storePrepare"}
    BY <1>4
  <2>5. VersionsIn(NotAdvanced)' <=> VersionsIn(NotAdvanced)
    BY <1>2 DEF VersionsIn, NotAdvanced, InPhase
  <2>6. pc'[o] \in PreparingSteps => pc[o] \in {"topics", "storePrepare"}
    BY <1>3 DEF PreparingSteps
  <2>7. pc'[o] \notin {"markCleaned", "finalize", "toPreparing"}
    BY <1>3
  <2>8. QED
    BY <1>0, <2>1, <2>2, <2>3, <2>4, <2>5, <2>6, <2>7 DEF VersionsAt, crVars
<1>10. NothingMade' /\ CleanedStays'
  BY <1>0, <1>2, <1>5, <1>6 DEF NothingMade, CleanedStays, crVars
<1>11. QED
  BY <1>0, <1>2, <1>7, <1>8, <1>9, <1>10 DEF CleanupInv

\* A call of a handler that waits for the benchmark or for the report.
LEMMA WaitingCleanup ==
    ASSUME TypeOK, OrphanInv, CleanupInv, NEW o, Operators = {o},
           \/ CheckHealth(o) \/ Poll(o) \/ ScaleDown(o)
           \/ AskAggregator(o) \/ FindJob(o) \/ JobPending(o)
    PROVE  CleanupInv'
<1>0. /\ pc \in [Operators -> Steps]
      /\ children \in [Children -> {"absent", "up", "zero"}]
      /\ o \in Operators
      /\ UNCHANGED <<crVars, view, infraVars, prepareCM, leaks>>
  BY DEF TypeOK, CheckHealth, Poll, ScaleDown, AskAggregator, FindJob, JobPending,
         clusterVars
<1>1. /\ StepOfView(o) /\ VersionsAt(o)
      /\ CopyInv /\ NothingMade /\ CleanedStays
  BY <1>0 DEF CleanupInv
<1>2. /\ CopyInv'
      /\ NeverDeployed' <=> NeverDeployed
      /\ \A S : VersionsIn(S)' <=> VersionsIn(S)
  BY <1>0, <1>1 DEF CopyInv, AdvancedIsLater, NewestIsCurrent, InitializingIsOld,
                    NeverDeployed, VersionsIn, crVars
<1>3. /\ pc[o] \in {"health", "poll", "scale", "askAggregator", "findJob", "checkJob"}
      /\ pc[o] = "health" => pc'[o] \in {"poll", "fail"}
      /\ pc[o] \in {"poll", "scale"} => pc'[o] \in {"scale", "idle"}
      /\ pc[o] = "askAggregator" => pc'[o] \in {"fetch", "idle"}
      /\ pc[o] \in {"findJob", "checkJob"} => pc'[o] \in {"checkJob", "idle"}
  BY <1>0 DEF CheckHealth, Poll, ScaleDown, AskAggregator, FindJob, JobPending, At,
              NextEntry, GoToLoop, GoTo
<1>4. view[o].phase = IF pc[o] \in {"health", "poll", "scale"} THEN "Running"
                      ELSE IF pc[o] = "askAggregator" THEN "Aggregating" ELSE "Reporting"
  BY <1>1, <1>3 DEF StepOfView
<1>5. ~NeverDeployed
  BY <1>0, <1>1, <1>4 DEF NothingMade, Terminal
<1>6. VersionsIn(NotInitializing)
  BY <1>1, <1>3, <1>4 DEF VersionsAt, Advanced
<1>7. Remaining' \subseteq Remaining
  <2>1. ASSUME NEW c \in Children, children'[c] # "absent"
        PROVE  children[c] # "absent"
    BY <1>0, <2>1 DEF CheckHealth, Poll, ScaleDown, AskAggregator, FindJob, JobPending,
                      clusterVars
  <2>2. QED
    BY <1>0, <2>1 DEF Remaining, Outside, infraVars
<1>8. StepOfView(o)'
  BY <1>0, <1>3, <1>4 DEF StepOfView, CleanupSteps, PreparingSteps
<1>9. CleanupDone(o)'
  BY <1>3 DEF CleanupDone
<1>10. VersionsAt(o)'
  <2>1. Rank(view'[o]) <= Rank(cache'[o])
    BY <1>0, <1>1 DEF VersionsAt, crVars
  <2>2. VersionsIn(NotInitializing)'
    BY <1>2, <1>6 DEF VersionsIn, NotInitializing, InPhase
  <2>3. pc'[o] \in {"poll", "fail", "scale", "idle", "fetch", "checkJob"}
    BY <1>3
  <2>4. view'[o].phase # "Preparing"
    BY <1>0, <1>4
  <2>5. QED
    BY <2>1, <2>2, <2>3, <2>4 DEF VersionsAt, PreparingSteps
<1>11. NothingMade'
  BY <1>2, <1>5 DEF NothingMade
<1>12. CleanedStays'
  <2>1. pc'[o] \notin PreparingSteps \cup {"finalize", "toPreparing", "readPrepare", "deploy"}
    BY <1>3 DEF PreparingSteps
  <2>2. VersionsIn(NotInitializing)'
    BY <1>2, <1>6 DEF VersionsIn, NotInitializing, InPhase
  <2>3. QED
    BY <1>0, <1>1, <1>2, <1>7, <2>1, <2>2 DEF CleanedStays, crVars
<1>13. QED
  BY <1>0, <1>2, <1>8, <1>9, <1>10, <1>11, <1>12 DEF CleanupInv

LEMMA ReconcileCleanup ==
    ASSUME TypeOK, OrphanInv, CleanupInv, NEW o, Operators = {o}, Reconcile(o)
    PROVE  CleanupInv'
<1>0. /\ pc \in [Operators -> Steps]
      /\ view \in [Operators -> Resource]
      /\ n \in [Operators -> 1..(Len(StreamSeq) + Len(DeployOrder) + 1)]
      /\ cr \in Resource /\ cache[o] \in Resource
      /\ o \in Operators
      /\ UNCHANGED <<crVars, infraVars, clusterVars, leaks>>
  BY DEF TypeOK, Reconcile
<1>1. /\ CopyInv /\ NothingMade /\ CleanedStays /\ StoreInv
  BY <1>0 DEF CleanupInv, OrphanInv
<1>2. /\ CopyInv'
      /\ NeverDeployed' <=> NeverDeployed
      /\ \A S : VersionsIn(S)' <=> VersionsIn(S)
      /\ Remaining' = Remaining
  BY <1>0, <1>1 DEF CopyInv, AdvancedIsLater, NewestIsCurrent, InitializingIsOld,
                    NeverDeployed, VersionsIn, crVars, Remaining, Outside, infraVars,
                    clusterVars
<1>3. /\ view'[o] = cache[o]
      /\ pc'[o] = Handler(cache[o])
      /\ n'[o] = 1
  BY <1>0 DEF Reconcile, GoToLoop, GoTo
<1>4. cache[o].valid = cr.valid /\ cache[o].dryRun = cr.dryRun
  BY <1>0, <1>1 DEF StoreInv, VersionsIn, SameRun
<1> DEFINE phase == cache[o].phase
<1>5. /\ phase = "Pending" => pc'[o] \in {"reject", "dryRun", "finalize"}
      /\ phase = "Pending" /\ pc'[o] = "finalize" => ~NeverDeployed
      /\ phase = "Preparing" => pc'[o] = "topics"
      /\ phase = "Initializing" => pc'[o] = "readPrepare"
      /\ phase = "Running" => pc'[o] = "health"
      /\ phase = "Aggregating" => pc'[o] = "askAggregator"
      /\ phase = "Reporting" => pc'[o] = "findJob"
      /\ phase \in Terminal => pc'[o] = "deleteChildren"
  BY <1>3, <1>4 DEF Handler, NeverDeployed, Terminal
<1>6. phase \in Phases
  BY <1>0 DEF Resource
<1>7. StepOfView(o)'
  BY <1>3, <1>5, <1>6 DEF StepOfView, CleanupSteps, PreparingSteps, Phases, Terminal
<1>8. CleanupDone(o)'
  <2>1. pc'[o] \notin {"cleanAdapter", "deleteTopics", "markCleaned"}
    BY <1>5, <1>6 DEF Phases, Terminal
  <2>2. \A j \in 1..(n'[o] - 1) : FALSE
    BY <1>3
  <2>3. QED
    BY <2>1, <2>2 DEF CleanupDone
<1>9. VersionsAt(o)'
  <2>1. Rank(view'[o]) <= Rank(cache'[o])
    BY <1>0, <1>3, RankType DEF crVars
  <2>2. ASSUME phase = "Preparing"
        PROVE  VersionsIn(NotAdvanced) /\ cr.finalizer
    <3>1. Rank(cache[o]) = 1
      BY <2>2 DEF Rank
    <3>2. VersionsIn(NotAdvanced)
      BY <1>0, <1>1, <3>1 DEF CopyInv
    <3>3. cache[o].finalizer
      BY <1>0, <1>1, <2>2 DEF StoreInv, VersionsIn, PreparingHasFinalizer
    <3>4. Kept
      BY <1>0, <1>1, <3>1, <3>3 DEF StoreInv, VersionsIn, NoFinalizer
    <3>5. QED
      BY <3>2, <3>4 DEF Kept
  <2>3. ASSUME phase \in Advanced
        PROVE  VersionsIn(NotInitializing)
    <3>1. \A j \in 1..Len(watch[o]) : watch[o][j].phase # "Initializing"
      BY <1>0, <1>1, <2>3 DEF CopyInv, AdvancedIsLater
    <3>2. cache[o].phase # "Initializing"
      BY <2>3 DEF Advanced
    <3>3. Len(watch[o]) \in Nat /\ \A j \in 1..Len(watch[o]) : watch[o][j] \in Resource
      BY <1>0 DEF TypeOK
    <3>4. cr.phase # "Initializing"
      <4>1. cr = IF Len(watch[o]) = 0 THEN cache[o] ELSE watch[o][Len(watch[o])]
        BY <1>0, <1>1 DEF CopyInv, NewestIsCurrent
      <4>2. QED
        BY <3>1, <3>2, <3>3, <4>1
    <3>5. ASSUME NEW r \in Resource, r.phase # "Initializing"
          PROVE  r \in NotInitializing
      BY <3>5 DEF NotInitializing, InPhase, Resource
    <3>6. QED
      BY <1>0, <3>1, <3>2, <3>3, <3>4, <3>5 DEF VersionsIn
  <2>4. /\ VersionsIn(NotAdvanced)' <=> VersionsIn(NotAdvanced)
        /\ VersionsIn(NotInitializing)' <=> VersionsIn(NotInitializing)
    BY <1>2 DEF VersionsIn, NotAdvanced, NotInitializing, InPhase
  <2>5. /\ pc'[o] \notin {"fail", "markCleaned", "toPreparing"}
        /\ pc'[o] \in PreparingSteps => phase = "Preparing"
        /\ pc'[o] = "finalize" => phase = "Pending"
    BY <1>5, <1>6 DEF PreparingSteps, Phases, Terminal
  <2>6. cr' = cr
    BY <1>0 DEF crVars
  <2>7. QED
    BY <1>2, <1>3, <1>5, <2>1, <2>2, <2>3, <2>4, <2>5, <2>6 DEF VersionsAt
<1>10. NothingMade'
  <2> SUFFICES ASSUME NeverDeployed
               PROVE  /\ Remaining' = {}
                      /\ VersionsIn(InPhase(Terminal \cup {"Pending"}))'
                      /\ view'[o].phase \in Terminal \cup {"Pending"}
    BY <1>2 DEF NothingMade
  <2>1. Remaining = {} /\ VersionsIn(InPhase(Terminal \cup {"Pending"}))
    BY <1>1 DEF NothingMade
  <2>2. VersionsIn(InPhase(Terminal \cup {"Pending"}))'
    BY <1>2, <2>1 DEF VersionsIn, InPhase
  <2>3. cache[o].phase \in Terminal \cup {"Pending"}
    BY <1>0, <2>1 DEF VersionsIn, InPhase
  <2>4. QED
    BY <1>2, <1>3, <2>1, <2>2, <2>3
<1>11. CleanedStays'
  <2> SUFFICES ASSUME ~NeverDeployed, cr.phase \in Terminal, cr.cond = "cleaned"
               PROVE  /\ Remaining' \subseteq leaks'
                      /\ VersionsIn(NotInitializing)'
                      /\ Rank(cache'[o]) = 2
                      /\ pc'[o] \notin PreparingSteps \cup {"finalize", "toPreparing",
                                                            "readPrepare", "deploy"}
    BY <1>0, <1>2 DEF CleanedStays, crVars
  <2>1. /\ Remaining \subseteq leaks
        /\ VersionsIn(NotInitializing)
        /\ Rank(cache[o]) = 2
    BY <1>0, <1>1 DEF CleanedStays
  <2>2. VersionsIn(NotInitializing)'
    BY <1>2, <2>1 DEF VersionsIn, NotInitializing, InPhase
  <2>3. phase \notin {"Pending", "Preparing", "Initializing"}
    BY <1>0, <2>1 DEF Rank, VersionsIn, NotInitializing, InPhase
  <2>4. pc'[o] \in {"health", "askAggregator", "findJob", "deleteChildren"}
    BY <1>5, <1>6, <2>3 DEF Phases, Terminal
  <2>5. QED
    BY <1>0, <1>2, <2>1, <2>2, <2>4 DEF crVars, PreparingSteps
<1>12. QED
  BY <1>0, <1>2, <1>7, <1>8, <1>9, <1>10, <1>11 DEF CleanupInv

\* A deletion, which leaves nothing but what it could not delete.
LEMMA DeletesCleanup ==
    ASSUME TypeOK, OrphanInv, CleanupInv, NEW o, Operators = {o},
           DeleteChild(o) \/ DeletePrepare(o) \/ CleanAdapter(o) \/ DeleteTopic(o)
    PROVE  CleanupInv'
<1>0. /\ pc \in [Operators -> Steps]
      /\ n \in [Operators -> 1..(Len(StreamSeq) + Len(DeployOrder) + 1)]
      /\ n[o] \in Nat \ {0}
      /\ children \in [Children -> {"absent", "up", "zero"}]
      /\ topics \subseteq StreamSet
      /\ o \in Operators
      /\ UNCHANGED <<crVars, view>>
  BY LoopLengths DEF TypeOK, DeleteChild, DeletePrepare, CleanAdapter, DeleteTopic
<1>1. /\ StepOfView(o) /\ VersionsAt(o) /\ CleanupDone(o)
      /\ CopyInv /\ NothingMade /\ CleanedStays
  BY <1>0 DEF CleanupInv
<1>2. /\ CopyInv'
      /\ NeverDeployed' <=> NeverDeployed
      /\ \A S : VersionsIn(S)' <=> VersionsIn(S)
  BY <1>0, <1>1 DEF CopyInv, AdvancedIsLater, NewestIsCurrent, InitializingIsOld,
                    NeverDeployed, VersionsIn, crVars
<1>3. /\ pc[o] \in {"deleteChildren", "cleanAdapter", "deleteTopics"}
      /\ pc'[o] \in {"deleteChildren", "cleanAdapter", "deleteTopics"}
  BY <1>0 DEF DeleteChild, DeletePrepare, CleanAdapter, DeleteTopic, At, NextEntry,
              GoToLoop, GoTo
<1>4. view[o].phase \in Terminal
  BY <1>1, <1>3 DEF StepOfView, CleanupSteps
\* What a deletion does to everything that can remain.
<1>5. /\ \A c \in Children : children'[c] # "absent" => children[c] # "absent"
      /\ prepareCM' => prepareCM
      /\ topics' \subseteq topics
      /\ platform' => platform
      /\ \A c \in Children : GoneOrLeaked(c) => GoneOrLeaked(c)'
      /\ (prepareCM => "prepareCM" \in leaks) => (prepareCM' => "prepareCM" \in leaks')
      /\ (platform => "platform" \in leaks) => (platform' => "platform" \in leaks')
      /\ \A s \in StreamSet :
            (s \in topics => s \in leaks) => (s \in topics' => s \in leaks')
  <2>1. CASE DeleteChild(o)
    <3>1. n[o] \in 1..4
      BY <1>0, <2>1, LoopLengths DEF DeleteChild, InLoop
    <3> DEFINE d == DeleteOrder[n[o]]
    <3>2. d \in Children
      BY <3>1, LoopLengths
    <3>3. \/ children' = [children EXCEPT ![d] = "absent"] /\ leaks' = leaks \ {d}
          \/ children' = children /\ leaks' = leaks \cup {d}
      BY <2>1 DEF DeleteChild
    <3>4. UNCHANGED <<topics, platform, prepareCM>>
      BY <2>1 DEF DeleteChild, infraVars
    <3> HIDE DEF d
    <3>5. \A x \in StreamSet \cup {"platform", "prepareCM"} : x \in leaks' <=> x \in leaks
      BY <3>2, <3>3, DistinctNames DEF Children
    <3>6. \A c \in Children : /\ children'[c] # "absent" => children[c] # "absent"
                              /\ GoneOrLeaked(c) => GoneOrLeaked(c)'
      BY <1>0, <3>2, <3>3 DEF GoneOrLeaked
    <3>7. QED
      BY <3>4, <3>5, <3>6
  <2>2. CASE DeletePrepare(o)
    BY <2>2, DistinctNames DEF DeletePrepare, infraVars, GoneOrLeaked, Children
  <2>3. CASE CleanAdapter(o)
    BY <2>3, DistinctNames DEF CleanAdapter, clusterVars, GoneOrLeaked, Children
  <2>4. CASE DeleteTopic(o)
    <3>1. n[o] \in 1..Len(StreamSeq)
      BY <1>0, <2>4, LoopLengths DEF DeleteTopic, InLoop
    <3> DEFINE s == StreamSeq[n[o]]
    <3>2. s \in StreamSet
      BY <3>1 DEF StreamSet
    <3>3. \/ topics' = topics \ {s} /\ leaks' = leaks \ {s}
          \/ topics' = topics /\ leaks' = leaks \cup {s}
      BY <2>4 DEF DeleteTopic
    <3>4. UNCHANGED <<platform, prepareCM, children>>
      BY <2>4 DEF DeleteTopic, clusterVars
    <3> HIDE DEF s
    <3>5. \A x \in Children \cup {"platform", "prepareCM"} : x \in leaks' <=> x \in leaks
      BY <3>2, <3>3, DistinctNames
    <3>6. QED
      BY <3>3, <3>4, <3>5 DEF GoneOrLeaked
  <2>5. QED
    BY <2>1, <2>2, <2>3, <2>4
<1>6. Remaining' \subseteq Remaining
  BY <1>5 DEF Remaining, Outside
<1>7. Remaining \subseteq leaks => Remaining' \subseteq leaks'
  <2> SUFFICES ASSUME Remaining \subseteq leaks, NEW x \in Remaining'
               PROVE  x \in leaks'
    OBVIOUS
  <2>1. CASE x \in Children /\ children'[x] # "absent"
    BY <1>5, <2>1 DEF Remaining, GoneOrLeaked
  <2>2. CASE x \in topics'
    BY <1>0, <1>5, <2>2 DEF Remaining, Outside
  <2>3. CASE x = "platform" /\ platform'
    BY <1>5, <2>3 DEF Remaining, Outside
  <2>4. CASE x = "prepareCM" /\ prepareCM'
    BY <1>5, <2>4 DEF Remaining
  <2>5. QED
    BY <2>1, <2>2, <2>3, <2>4 DEF Remaining, Outside
<1>8. StepOfView(o)'
  BY <1>0, <1>3, <1>4 DEF StepOfView, CleanupSteps, PreparingSteps
<1>9. CleanupDone(o)'
  <2>1. CASE DeleteChild(o)
    <3>1. /\ n[o] \in 1..4 /\ n'[o] = n[o] + 1
          /\ pc[o] = "deleteChildren" /\ pc'[o] = "deleteChildren"
      BY <1>0, <2>1, LoopLengths DEF DeleteChild, InLoop, NextEntry, At
    <3>2. PICK d \in Children : d = DeleteOrder[n[o]]
      BY <3>1, LoopLengths
    <3>3. GoneOrLeaked(d)'
      BY <1>0, <2>1, <3>2 DEF DeleteChild, GoneOrLeaked
    <3>4. ASSUME NEW j \in 1..(n'[o] - 1), j <= 4
          PROVE  GoneOrLeaked(DeleteOrder[j])'
      <4>1. CASE j = n[o]
        BY <3>2, <3>3, <4>1
      <4>2. CASE j # n[o]
        <5>1. j \in 1..(n[o] - 1) /\ j \in 1..4
          BY <1>0, <3>1, <3>4, <4>2
        <5>2. GoneOrLeaked(DeleteOrder[j]) /\ DeleteOrder[j] \in Children
          BY <1>1, <3>1, <5>1, LoopLengths DEF CleanupDone
        <5>3. QED
          BY <1>5, <5>2
      <4>3. QED
        BY <4>1, <4>2
    <3>5. QED
      BY <3>1, <3>4 DEF CleanupDone
  <2>2. CASE DeletePrepare(o)
    <3>1. /\ pc[o] = "deleteChildren" /\ pc'[o] = "cleanAdapter"
          /\ n[o] > 4
      BY <1>0, <2>2, LoopLengths DEF DeletePrepare, InLoop, GoToLoop, GoTo, At
    <3>2. ASSUME NEW c \in Children
          PROVE  GoneOrLeaked(c)'
      <4>1. PICK j \in 1..4 : c = DeleteOrder[j]
        BY DEF Children, DeleteOrder
      <4>2. j \in 1..(n[o] - 1)
        BY <1>0, <3>1
      <4>3. GoneOrLeaked(c)
        BY <1>1, <3>1, <4>1, <4>2 DEF CleanupDone
      <4>4. QED
        BY <1>5, <4>3
    <3>3. prepareCM' => "prepareCM" \in leaks'
      BY <2>2 DEF DeletePrepare
    <3>4. QED
      BY <3>1, <3>2, <3>3 DEF CleanupDone
  <2>3. CASE CleanAdapter(o) \/ DeleteTopic(o)
    <3>1. /\ pc[o] \in {"cleanAdapter", "deleteTopics"} /\ pc'[o] = "deleteTopics"
      BY <1>0, <2>3 DEF CleanAdapter, DeleteTopic, GoToLoop, NextEntry, GoTo, At
    <3>2. QED
      BY <1>1, <1>5, <3>1 DEF CleanupDone
  <2>4. QED
    BY <2>1, <2>2, <2>3
<1>10. VersionsAt(o)'
  <2>1. Rank(view'[o]) <= Rank(cache'[o])
    BY <1>0, <1>1 DEF VersionsAt, crVars
  <2>2. view'[o].phase \notin Advanced
    BY <1>0, <1>4 DEF Advanced, Terminal
  <2>3. QED
    BY <1>3, <2>1, <2>2 DEF VersionsAt, PreparingSteps
<1>11. NothingMade'
  <2>1. NeverDeployed => /\ Remaining = {}
                         /\ VersionsIn(InPhase(Terminal \cup {"Pending"}))
    BY <1>1 DEF NothingMade
  <2>2. NeverDeployed => VersionsIn(InPhase(Terminal \cup {"Pending"}))'
    BY <1>2, <2>1 DEF VersionsIn, InPhase
  <2>3. QED
    BY <1>0, <1>2, <1>4, <1>6, <2>1, <2>2 DEF NothingMade
<1>12. CleanedStays'
  <2>1. VersionsIn(NotInitializing)' <=> VersionsIn(NotInitializing)
    BY <1>2 DEF VersionsIn, NotInitializing, InPhase
  <2>2. QED
    BY <1>0, <1>1, <1>2, <1>3, <1>7, <2>1 DEF CleanedStays, crVars, PreparingSteps
<1>13. QED
  BY <1>0, <1>2, <1>8, <1>9, <1>10, <1>11, <1>12 DEF CleanupInv

LEMMA SurroundingsCleanup ==
    ASSUME TypeOK, OrphanInv, CleanupInv, MaxLag <= 2, NEW o, Operators = {o},
           \/ WatchDelivers(o) \/ OperatorRestarts(o)
           \/ Benchmark
           \/ Cluster
    PROVE  CleanupInv'
<1>0. StoresType /\ pc \in [Operators -> Steps] /\ o \in Operators
  BY TypeParts DEF LocalType
<1>1. /\ StepOfView(o) /\ VersionsAt(o) /\ CleanupDone(o)
      /\ CopyInv /\ NothingMade /\ CleanedStays /\ StoreInv
  BY <1>0 DEF CleanupInv, OrphanInv
<1>2. CASE WatchDelivers(o)
  <2> DEFINE m == Len(watch[o])
  <2>1. /\ UNCHANGED <<cr, localVars, infraVars, clusterVars, leaks>>
        /\ m \in Nat \ {0}
        /\ cache'[o] = watch[o][1]
        /\ Len(watch'[o]) = m - 1
        /\ \A j \in 1..(m - 1) : watch'[o][j] = watch[o][j + 1]
    BY <1>0, <1>2, DeliveryShifts DEF WatchDelivers
  <2> HIDE DEF m
  <2>2. Rank(cache[o]) <= Rank(cache'[o])
    BY <1>0, <1>1, <2>1 DEF StoreInv, Ordered, m
  <2>3. ASSUME NEW S, VersionsIn(S)
        PROVE  /\ cr' \in S
               /\ \A p \in Operators : cache'[p] \in S
               /\ \A p \in Operators : \A j \in 1..Len(watch'[p]) : watch'[p][j] \in S
    <3>1. cr' \in S /\ \A j \in 1..m : watch[o][j] \in S
      BY <1>0, <2>1, <2>3 DEF VersionsIn, m
    <3>2. cache'[o] \in S
      BY <2>1, <3>1
    <3>3. \A j \in 1..Len(watch'[o]) : watch'[o][j] \in S
      BY <2>1, <3>1
    <3>4. QED
      BY <3>1, <3>2, <3>3
  <2>4. /\ VersionsIn(NotAdvanced) => VersionsIn(NotAdvanced)'
        /\ VersionsIn(NotInitializing) => VersionsIn(NotInitializing)'
        /\ VersionsIn(InPhase(Terminal \cup {"Pending"}))
              => VersionsIn(InPhase(Terminal \cup {"Pending"}))'
    BY <2>3 DEF VersionsIn, NotAdvanced, NotInitializing, InPhase
  <2>5. NeverDeployed' <=> NeverDeployed
    BY <2>1 DEF NeverDeployed
  <2>6. AdvancedIsLater'
    <3>1. \A i, j \in 1..m :
             i < j /\ watch[o][i].phase \in Advanced => watch[o][j].phase # "Initializing"
      BY <1>0, <1>1 DEF CopyInv, AdvancedIsLater, m
    <3>2. ASSUME cache'[o].phase \in Advanced, NEW j \in 1..(m - 1)
          PROVE  watch'[o][j].phase # "Initializing"
      BY <2>1, <3>1, <3>2
    <3>3. ASSUME NEW i \in 1..(m - 1), NEW j \in 1..(m - 1), i < j,
                 watch'[o][i].phase \in Advanced
          PROVE  watch'[o][j].phase # "Initializing"
      <4>1. /\ i + 1 \in 1..m /\ j + 1 \in 1..m /\ i + 1 < j + 1
            /\ watch'[o][i] = watch[o][i + 1] /\ watch'[o][j] = watch[o][j + 1]
        BY <2>1, <3>3
      <4>2. QED
        BY <3>1, <3>3, <4>1
    <3>4. QED
      BY <2>1, <3>2, <3>3 DEF AdvancedIsLater
  <2>7. NewestIsCurrent'
    <3>1. cr = watch[o][m]
      BY <1>0, <1>1, <2>1 DEF CopyInv, NewestIsCurrent, m
    <3>2. CASE m = 1
      BY <2>1, <3>1, <3>2 DEF NewestIsCurrent
    <3>3. CASE m # 1
      <4>1. m - 1 \in 1..(m - 1) /\ m - 1 # 0 /\ (m - 1) + 1 = m
        BY <2>1, <3>3
      <4>2. QED
        BY <2>1, <3>1, <4>1 DEF NewestIsCurrent
    <3>4. QED
      BY <3>2, <3>3
  <2>8. InitializingIsOld'
    <3> SUFFICES ASSUME ~NeverDeployed, cr.phase \in Terminal, ~cr.finalizer
                 PROVE  /\ \A j \in 1..Len(watch'[o]) : watch'[o][j].phase # "Initializing"
                        /\ cache'[o].phase # "Initializing"
      BY <2>1, <2>5 DEF InitializingIsOld
    <3>1. \A j \in 1..m : watch[o][j].phase # "Initializing"
      BY <1>0, <1>1 DEF CopyInv, InitializingIsOld, m
    <3>2. QED
      BY <2>1, <3>1
  <2>9. CopyInv'
    <3>1. ASSUME Rank(cache'[o]) < 2
          PROVE  VersionsIn(NotAdvanced)'
      <4>1. Rank(cache[o]) < 2
        BY <2>2, <3>1, RankType
      <4>2. QED
        BY <1>0, <1>1, <2>4, <4>1 DEF CopyInv
    <3>2. QED
      BY <2>6, <2>7, <2>8, <3>1 DEF CopyInv
  <2>10. StepOfView(o)' /\ CleanupDone(o)'
    BY <1>1, <2>1 DEF StepOfView, CleanupDone, GoneOrLeaked, Outside, localVars, infraVars,
                      clusterVars
  <2>11. VersionsAt(o)'
    <3>1. Rank(view'[o]) <= Rank(cache'[o])
      BY <1>1, <2>1, <2>2, RankType DEF VersionsAt, localVars
    <3>2. QED
      BY <1>1, <2>1, <2>4, <2>5, <3>1 DEF VersionsAt, localVars
  <2>12. Remaining' = Remaining
    BY <2>1 DEF Remaining, Outside, infraVars, clusterVars
  <2>13. NothingMade'
    BY <1>0, <1>1, <2>1, <2>4, <2>5, <2>12 DEF NothingMade, localVars
  <2>14. CleanedStays'
    <3>1. Rank(cache[o]) = 2 => Rank(cache'[o]) = 2
      BY <2>2, RankType
    <3>2. QED
      BY <1>0, <1>1, <2>1, <2>4, <2>5, <2>12, <3>1 DEF CleanedStays, localVars
  <2>15. QED
    BY <2>9, <2>10, <2>11, <2>13, <2>14 DEF CleanupInv
<1>3. CASE OperatorRestarts(o)
  <2>1. /\ UNCHANGED <<cr, infraVars, clusterVars, leaks>>
        /\ pc'[o] = "idle"
        /\ cache'[o] = cr
        /\ watch'[o] = << >>
        /\ view'[o] = cr
    <3>1. view \in [Operators -> Resource]
      BY DEF TypeOK
    <3>2. QED
      BY <1>0, <1>3, <3>1 DEF OperatorRestarts, GoToLoop, GoTo, StoresType
  <2>2. Len(watch'[o]) = 0 /\ \A j : j \notin 1..0
    BY <2>1
  <2>3. Rank(cache[o]) <= Rank(cr)
    BY <1>0, <1>1 DEF StoreInv, Ordered
  <2>4. ASSUME NEW S, cr \in S
        PROVE  /\ cr' \in S
               /\ \A p \in Operators : cache'[p] \in S
               /\ \A p \in Operators : \A j \in 1..Len(watch'[p]) : watch'[p][j] \in S
    BY <2>1, <2>2, <2>4
  <2>5. NeverDeployed' <=> NeverDeployed
    BY <2>1 DEF NeverDeployed
  <2>6. CopyInv'
    <3>1. AdvancedIsLater' /\ NewestIsCurrent'
      BY <2>1, <2>2 DEF AdvancedIsLater, NewestIsCurrent
    <3>2. InitializingIsOld'
      BY <2>1, <2>2 DEF InitializingIsOld, Terminal
    <3>3. ASSUME Rank(cache'[o]) < 2
          PROVE  VersionsIn(NotAdvanced)'
      <4>1. Rank(cache[o]) < 2
        BY <2>1, <2>3, <3>3, RankType
      <4>2. cr \in NotAdvanced
        BY <1>0, <1>1, <4>1 DEF CopyInv, VersionsIn
      <4>3. QED
        BY <2>4, <4>2 DEF VersionsIn, NotAdvanced, InPhase
    <3>4. QED
      BY <3>1, <3>2, <3>3 DEF CopyInv
  <2>7. StepOfView(o)' /\ CleanupDone(o)'
    BY <2>1 DEF StepOfView, CleanupDone, CleanupSteps, PreparingSteps
  <2>8. VersionsAt(o)'
    BY <2>1, RankType DEF VersionsAt, PreparingSteps
  <2>9. Remaining' = Remaining
    BY <2>1 DEF Remaining, Outside, infraVars, clusterVars
  <2>10. NothingMade'
    <3> SUFFICES ASSUME NeverDeployed
                 PROVE  /\ Remaining' = {}
                        /\ VersionsIn(InPhase(Terminal \cup {"Pending"}))'
                        /\ view'[o].phase \in Terminal \cup {"Pending"}
      BY <1>0, <2>5 DEF NothingMade
    <3>1. Remaining = {} /\ cr \in InPhase(Terminal \cup {"Pending"})
      BY <1>1 DEF NothingMade, VersionsIn
    <3>2. VersionsIn(InPhase(Terminal \cup {"Pending"}))'
      BY <2>4, <3>1 DEF VersionsIn, InPhase
    <3>3. QED
      BY <2>1, <2>9, <3>1, <3>2 DEF InPhase
  <2>11. CleanedStays'
    <3> SUFFICES ASSUME ~NeverDeployed, cr.phase \in Terminal, cr.cond = "cleaned"
                 PROVE  /\ Remaining' \subseteq leaks'
                        /\ VersionsIn(NotInitializing)'
                        /\ Rank(cache'[o]) = 2
      BY <1>0, <2>1, <2>5 DEF CleanedStays, PreparingSteps
    <3>1. Remaining \subseteq leaks /\ cr \in NotInitializing
      BY <1>1 DEF CleanedStays, VersionsIn
    <3>2. VersionsIn(NotInitializing)'
      BY <2>4, <3>1 DEF VersionsIn, NotInitializing, InPhase
    <3>3. Rank(cr) = 2
      BY DEF Rank, Terminal
    <3>4. QED
      BY <2>1, <2>9, <3>1, <3>2, <3>3
  <2>12. QED
    BY <2>6, <2>7, <2>8, <2>10, <2>11 DEF CleanupInv
<1>4. CASE UserDeletes
  <2> DEFINE new == [cr EXCEPT !.deleting = TRUE, !.exists = cr.finalizer]
  <2>1. /\ new \in Resource
        /\ new.finalizer = cr.finalizer /\ new.phase = cr.phase /\ new.cond = cr.cond
        /\ new.valid = cr.valid /\ new.dryRun = cr.dryRun
    BY <1>0, WrittenType DEF StoresType, Resource
  <2>2. /\ Publish(new)
        /\ UNCHANGED <<localVars, infraVars, clusterVars, leaks>>
    BY <1>4 DEF UserDeletes
  <2> HIDE DEF new
  <2>3. Rank(new) = Rank(cr)
    BY <2>1 DEF Rank
  <2>4. Forward(new)
    BY <2>1, <2>3, RankType DEF Forward
  <2>5. cr' = new
    BY <2>2 DEF Publish, crVars
  <2>6. Rank(cache[o]) <= Rank(cache'[o])
    BY <1>0, <1>1, <2>2, <2>4, PublishOrdered DEF Forward, StoreInv
  <2>7. cr.phase \in Advanced => Rank(cache[o]) = 2
    <3>1. Rank(cache[o]) < 2 => cr \in NotAdvanced
      BY <1>0, <1>1 DEF CopyInv, VersionsIn
    <3>2. QED
      BY <3>1, RankType DEF NotAdvanced, InPhase
  <2>8. CopyInv'
    BY <1>0, <1>1, <2>1, <2>2, <2>4, <2>7, PublishCopyInv
  <2>9. /\ VersionsIn(NotAdvanced) => VersionsIn(NotAdvanced)'
        /\ VersionsIn(NotInitializing) => VersionsIn(NotInitializing)'
        /\ VersionsIn(InPhase(Terminal \cup {"Pending"}))
              => VersionsIn(InPhase(Terminal \cup {"Pending"}))'
    <3>1. ASSUME NEW S \in SUBSET Phases, VersionsIn(InPhase(S))
          PROVE  VersionsIn(InPhase(S))'
      <4>1. InPhase(S) \in SUBSET Resource
        BY DEF InPhase
      <4>2. new \in InPhase(S)
        BY <2>1, <3>1 DEF InPhase, VersionsIn
      <4> DEFINE T == InPhase(S)
      <4>3. VersionsIn(T)
        BY <3>1
      <4> HIDE DEF T
      <4>4. VersionsIn(T)'
        BY <1>0, <2>2, <4>1, <4>2, <4>3, PublishVersions DEF T
      <4>5. QED
        BY <4>4 DEF T, VersionsIn, InPhase
    <3>2. /\ Phases \ Advanced \in SUBSET Phases
          /\ Phases \ {"Initializing"} \in SUBSET Phases
          /\ Terminal \cup {"Pending"} \in SUBSET Phases
      BY DEF Phases
    <3>3. QED
      BY <3>1, <3>2 DEF NotAdvanced, NotInitializing
  <2>10. NeverDeployed' <=> NeverDeployed
    BY <2>1, <2>5 DEF NeverDeployed
  <2>11. StepOfView(o)' /\ CleanupDone(o)'
    BY <1>1, <2>2 DEF StepOfView, CleanupDone, GoneOrLeaked, Outside, localVars, infraVars,
                      clusterVars
  <2>12. VersionsAt(o)'
    <3>1. Rank(view'[o]) <= Rank(cache'[o])
      BY <1>1, <2>2, <2>6, RankType DEF VersionsAt, localVars
    <3>2. QED
      BY <1>1, <2>1, <2>2, <2>5, <2>9, <2>10, <3>1 DEF VersionsAt, localVars
  <2>13. Remaining' = Remaining
    BY <2>2 DEF Remaining, Outside, infraVars, clusterVars
  <2>14. NothingMade'
    BY <1>0, <1>1, <2>2, <2>9, <2>10, <2>13 DEF NothingMade, localVars
  <2>15. CleanedStays'
    <3>1. Rank(cache[o]) = 2 => Rank(cache'[o]) = 2
      BY <2>6, RankType
    <3>2. QED
      BY <1>0, <1>1, <2>1, <2>2, <2>5, <2>9, <2>10, <2>13, <3>1 DEF CleanedStays, localVars
  <2>16. QED
    BY <2>8, <2>11, <2>12, <2>14, <2>15 DEF CleanupInv
<1>5. CASE Benchmark \/ CollectGarbage \/ ReporterEnds \/ JobExpires
  <2>1. /\ UNCHANGED <<crVars, localVars, infraVars, leaks>>
        /\ \A c \in Children : children'[c] # "absent" => children[c] # "absent"
        /\ prepareCM' => prepareCM
    BY <1>5 DEF Benchmark, TimelineEnds, ControllerRestarts, AggregationCompletes,
                AggregatorRestarts, GraceElapses, CollectGarbage, ReporterEnds,
                JobExpires, clusterVars
  <2>2. Remaining' \subseteq Remaining
    BY <2>1 DEF Remaining, Outside, infraVars
  <2>3. CopyInv' /\ StepOfView(o)' /\ VersionsAt(o)'
    BY <1>1, <2>1 DEF CopyInv, AdvancedIsLater, NewestIsCurrent, InitializingIsOld,
                      NeverDeployed, VersionsIn, StepOfView, VersionsAt, crVars, localVars
  <2>4. CleanupDone(o)'
    <3>1. \A c \in Children : GoneOrLeaked(c) => GoneOrLeaked(c)'
      BY <2>1 DEF GoneOrLeaked
    <3>2. \A j \in 1..4 : DeleteOrder[j] \in Children
      BY LoopLengths
    <3>3. \A j \in 1..(n[o] - 1) : j <= 4 => j \in 1..4
      BY DEF TypeOK
    <3>4. n' = n /\ pc' = pc /\ leaks' = leaks /\ Outside' = Outside
      BY <2>1 DEF localVars, infraVars, Outside
    <3>5. ASSUME pc[o] = "deleteChildren", NEW j \in 1..(n[o] - 1), j <= 4
          PROVE  GoneOrLeaked(DeleteOrder[j])'
      BY <1>1, <3>1, <3>2, <3>3, <3>5 DEF CleanupDone
    <3>6. QED
      BY <1>1, <2>1, <3>1, <3>4, <3>5 DEF CleanupDone
  <2>5. NothingMade' /\ CleanedStays'
    BY <1>0, <1>1, <2>1, <2>2 DEF NothingMade, CleanedStays, NeverDeployed, VersionsIn,
                                  crVars, localVars
  <2>6. QED
    BY <2>3, <2>4, <2>5 DEF CleanupInv
<1>6. QED
  BY <1>2, <1>3, <1>4, <1>5 DEF Cluster

LEMMA InitCleanup == Init => CleanupInv
<1> SUFFICES ASSUME Init
             PROVE  CleanupInv
  OBVIOUS
<1>1. TypeOK
  BY InitType
<1>2. cr \in Resource /\ cr.phase = "Pending" /\ cr.cond = "none"
  BY <1>1 DEF TypeOK, Init, NewRun
<1>3. \A o \in Operators :
         cache[o] = cr /\ watch[o] = << >> /\ pc[o] = "idle" /\ view[o] = cr
  BY DEF Init
<1>4. Len(<< >>) = 0 /\ \A j : j \notin 1..Len(<< >>)
  OBVIOUS
<1>5. Remaining = {}
  BY DEF Init, Remaining, Outside
<1>6. CopyInv
  BY <1>2, <1>3, <1>4
     DEF CopyInv, AdvancedIsLater, NewestIsCurrent, InitializingIsOld, VersionsIn,
         NotAdvanced, InPhase, Advanced, Phases, Terminal
<1>7. NothingMade
  BY <1>2, <1>3, <1>4, <1>5 DEF NothingMade, VersionsIn, InPhase
<1>8. CleanedStays
  BY <1>2 DEF CleanedStays
<1>9. ASSUME NEW o \in Operators
      PROVE  StepOfView(o) /\ CleanupDone(o) /\ VersionsAt(o)
  BY <1>3, RankType DEF StepOfView, CleanupDone, VersionsAt, CleanupSteps, PreparingSteps
<1>10. QED
  BY <1>6, <1>7, <1>8, <1>9 DEF CleanupInv

LEMMA NextCleanup ==
    ASSUME SingleOperator, MaxLag <= 2
    PROVE  TypeOK /\ OrphanInv /\ CleanupInv /\ [Next]_vars => CleanupInv'
<1> SUFFICES ASSUME TypeOK, OrphanInv, CleanupInv, [Next]_vars
             PROVE  CleanupInv'
  OBVIOUS
<1>1. PICK o : Operators = {o}
  BY DEF SingleOperator
<1>2. CASE UNCHANGED vars
  <2>1. UNCHANGED <<cr, cache, watch, view, pc, n, topics, platform, prepareCM, children,
                    leaks>>
    BY <1>2 DEF vars, crVars, localVars, infraVars, clusterVars
  <2>2. CopyInv'
    BY <2>1 DEF CleanupInv, CopyInv, AdvancedIsLater, NewestIsCurrent, InitializingIsOld,
                NeverDeployed, VersionsIn
  <2>3. NothingMade' /\ CleanedStays'
    BY <2>1 DEF CleanupInv, NothingMade, CleanedStays, NeverDeployed, VersionsIn,
                Remaining, Outside
  <2>4. StepOfView(o)' /\ CleanupDone(o)' /\ VersionsAt(o)'
    BY <1>1, <2>1 DEF CleanupInv, StepOfView, CleanupDone, VersionsAt, NeverDeployed,
                      VersionsIn, GoneOrLeaked, Outside
  <2>5. QED
    BY <1>1, <2>2, <2>3, <2>4 DEF CleanupInv
<1>3. CASE HandlerStep(o)
  BY <1>1, <1>3, WritesCleanup, MakingCleanup, WaitingCleanup, DeletesCleanup
     DEF HandlerStep
<1>4. CASE OperatorNext(o)
  BY <1>1, <1>3, <1>4, ReconcileCleanup, SurroundingsCleanup DEF OperatorNext
<1>5. QED
  BY <1>1, <1>2, <1>4, SurroundingsCleanup DEF Next

\* A single operator whose store is at most two versions behind leaves a run alone
\* only when nothing of it is left but what could not be deleted (handle_cleanup and
\* the already_cleaned test of reconcile, controller.rs:1039-1207 and 109-119).
THEOREM LeftAloneIsGone ==
    ASSUME SingleOperator, MaxLag <= 2
    PROVE  Spec => []LeftAloneMeansGone
<1>1. TypeOK /\ OrphanInv /\ [Next]_vars => OrphanInv'
  BY NextOrphanInv
<1>2. TypeOK /\ OrphanInv /\ CleanupInv /\ [Next]_vars => CleanupInv'
  BY NextCleanup
<1>3. CleanupInv => LeftAloneMeansGone
  BY DEF CleanupInv, CleanedStays, NothingMade, LeftAloneMeansGone, NeedsReconcile
<1>4. QED
  BY <1>1, <1>2, <1>3, InitCleanup, InitOrphanInv, TypeCorrect, PTL DEF Spec

-----------------------------------------------------------------------------
(* The lifecycle, with a store that is up to date *)

\* The handler works on the phase that the run is in, and the run has its finalizer
\* from Preparing to its end.
UpToDate ==
    /\ \A o \in Operators : pc[o] # "idle" => view[o].phase = cr.phase
    /\ cr.phase \notin Terminal \cup {"Pending"} => cr.finalizer

StoreIsCurrent == \A o \in Operators : cache[o] = cr

LEMMA NoLag ==
    ASSUME TypeOK, CopyInv, MaxLag = 0
    PROVE  StoreIsCurrent
<1>1. ASSUME NEW o \in Operators
      PROVE  Len(watch[o]) = 0
  BY DEF TypeOK
<1>2. QED
  BY <1>1 DEF CopyInv, NewestIsCurrent, StoreIsCurrent

\* A write that takes the run along its lifecycle, or leaves it where it is.
Along(new) ==
    \/ new.phase = cr.phase /\ new.exists = cr.exists
    \/ /\ new.exists
       /\ cr.phase \notin Terminal
       /\ \/ new.phase = Lifecycle!Successor[cr.phase]
          \/ new.phase = "Failed"
          \/ cr.phase = "Pending" /\ new.phase = "Completed"
    \/ /\ ~new.exists
       /\ new.phase = cr.phase
       /\ cr.phase \in Terminal \cup {"Pending"}
       /\ Outside \subseteq leaks

LEMMA AlongIsStep ==
    ASSUME cr \in Resource, NEW new \in Resource, cr.exists, cr' = new,
           UNCHANGED <<infraVars, leaks>>, Along(new)
    PROVE  [Lifecycle!Next]_(Lifecycle!lifecycleVars)
<1>1. (Outside \ leaks # {})' <=> (Outside \ leaks # {})
  BY DEF Outside, infraVars
<1>2. CASE new.phase = cr.phase /\ new.exists = cr.exists
  BY <1>1, <1>2 DEF Lifecycle!lifecycleVars
<1>3. CASE /\ new.exists
           /\ cr.phase \notin Terminal
           /\ \/ new.phase = Lifecycle!Successor[cr.phase]
              \/ new.phase = "Failed"
              \/ cr.phase = "Pending" /\ new.phase = "Completed"
  <2>1. cr'.exists = cr.exists
    BY <1>3 DEF Resource
  <2>2. Terminal = Lifecycle!Terminal
    BY DEF Terminal, Lifecycle!Terminal
  <2>3. CASE new.phase = Lifecycle!Successor[cr.phase]
    BY <1>1, <1>3, <2>1, <2>2, <2>3 DEF Lifecycle!Next, Lifecycle!Advance
  <2>4. CASE new.phase = "Failed"
    BY <1>1, <1>3, <2>1, <2>2, <2>4 DEF Lifecycle!Next, Lifecycle!Fail
  <2>5. CASE cr.phase = "Pending" /\ new.phase = "Completed"
    BY <1>1, <1>3, <2>1, <2>2, <2>5 DEF Lifecycle!Next, Lifecycle!DryRun
  <2>6. QED
    BY <1>3, <2>3, <2>4, <2>5
<1>4. CASE /\ ~new.exists
           /\ new.phase = cr.phase
           /\ cr.phase \in Terminal \cup {"Pending"}
           /\ Outside \subseteq leaks
  <2>1. Outside \ leaks = {}
    BY <1>4
  <2>2. cr'.exists = FALSE
    BY <1>4 DEF Resource
  <2>3. Lifecycle!Vanish
    BY <1>1, <1>4, <2>1, <2>2 DEF Lifecycle!Vanish, Lifecycle!Terminal, Terminal
  <2>4. QED
    BY <2>3 DEF Lifecycle!Next
<1>5. QED
  BY <1>2, <1>3, <1>4 DEF Along

\* What a write must be for the run to stay on its lifecycle.
Follows(new, to, o) ==
    /\ new \in Resource
    /\ Along(new)
    /\ new.phase \notin Terminal \cup {"Pending"} => new.finalizer
    /\ to # "idle" => new.phase = cr.phase /\ pc[o] # "idle"

LEMMA PatchFollows ==
    ASSUME TypeOK, UpToDate, NEW o, Operators = {o}, NEW new, NEW to, Patch(o, new, to),
           UNCHANGED <<view, infraVars, leaks>>,
           cr.exists => Follows(new, to, o)
    PROVE  UpToDate' /\ [Lifecycle!Next]_(Lifecycle!lifecycleVars)
<1>0. cr \in Resource /\ pc \in [Operators -> Steps] /\ o \in Operators
  BY DEF TypeOK
<1>1. CASE cr.exists /\ Publish(new) /\ GoTo(o, to)
  <2>1. cr' = new /\ pc'[o] = to
    BY <1>0, <1>1 DEF Publish, crVars, GoTo
  <2>2. UpToDate'
    BY <1>0, <1>1, <2>1 DEF UpToDate, Follows
  <2>3. QED
    BY <1>0, <1>1, <2>1, <2>2, AlongIsStep DEF Follows
<1>2. CASE UNCHANGED crVars /\ GoTo(o, "idle")
  <2>1. cr' = cr /\ pc'[o] = "idle"
    BY <1>0, <1>2 DEF crVars, GoTo
  <2>2. UpToDate'
    BY <1>0, <2>1 DEF UpToDate
  <2>3. QED
    BY <2>1, <2>2 DEF Lifecycle!lifecycleVars, Outside, infraVars
<1>3. QED
  BY <1>1, <1>2 DEF Patch

LEMMA WritesFollow ==
    ASSUME TypeOK, OrphanInv, CleanupInv, UpToDate, NEW o, Operators = {o},
           \/ MarkFailed(o)
           \/ FinishDryRun(o) \/ AddFinalizer(o) \/ ToPreparing(o)
           \/ ToInitializing(o) \/ ToRunning(o)
           \/ AnnotateSince(o) \/ ToAggregating(o)
           \/ FetchResults(o) \/ JobDone(o)
           \/ DropFinalizer(o) \/ MarkCleaned(o)
    PROVE  UpToDate' /\ [Lifecycle!Next]_(Lifecycle!lifecycleVars)
<1>0. /\ cr \in Resource
      /\ o \in Operators
      /\ pc \in [Operators -> Steps]
      /\ UNCHANGED <<view, infraVars, leaks>>
  BY DEF TypeOK, MarkFailed, FinishDryRun, AddFinalizer, ToPreparing, ToInitializing,
         ToRunning, AnnotateSince, ToAggregating, FetchResults, JobDone, DropFinalizer,
         MarkCleaned
<1>1. /\ StepOfView(o) /\ CleanupDone(o) /\ VersionsAt(o) /\ HandlerAt(o)
      /\ pc[o] # "idle" => view[o].phase = cr.phase
      /\ cr.phase \notin Terminal \cup {"Pending"} => cr.finalizer
  BY <1>0 DEF CleanupInv, OrphanInv, HandlerInv, UpToDate
\* A status patch that takes the run to the next phase, or to an end.
<1>2. ASSUME NEW p \in Phases,
             NEW c \in {"none", "progress", "complete", "failed", "cleaned"},
             cr.phase \notin Terminal,
             \/ p = Lifecycle!Successor[cr.phase]
             \/ p = "Failed"
             \/ cr.phase = "Pending" /\ p = "Completed",
             cr.exists /\ p \notin Terminal \cup {"Pending"} => cr.finalizer,
             cr.exists
      PROVE  Follows(StatusPatch(p, c), "idle", o)
  <2>1. StatusPatch(p, c) \in Resource
    BY <1>0, WrittenType
  <2>2. /\ StatusPatch(p, c).phase = p
        /\ StatusPatch(p, c).exists = cr.exists
        /\ StatusPatch(p, c).finalizer = cr.finalizer
    BY <1>0 DEF StatusPatch, Resource
  <2>3. QED
    BY <1>2, <2>1, <2>2 DEF Follows, Along
\* Another patch of the status that keeps the phase or takes it forward.
<1>3. ASSUME NEW new \in Resource, NEW to,
             new.exists = cr.exists, new.finalizer = cr.finalizer,
             \/ new.phase = cr.phase
             \/ /\ to = "idle" /\ cr.exists
                /\ cr.phase \notin Terminal \cup {"Pending"}
                /\ new.phase = Lifecycle!Successor[cr.phase],
             to # "idle" => pc[o] # "idle"
      PROVE  Follows(new, to, o)
  BY <1>1, <1>3 DEF Follows, Along, Terminal, Lifecycle!Successor
<1>4. CASE MarkFailed(o)
  <2>1. pc[o] \in {"fail", "reject"} /\ Patch(o, StatusPatch("Failed", "failed"), "idle")
    BY <1>4 DEF MarkFailed, At
  <2>2. cr.phase \in {"Pending", "Preparing", "Running"}
    BY <1>1, <2>1 DEF StepOfView
  <2>3. cr.exists => Follows(StatusPatch("Failed", "failed"), "idle", o)
    BY <1>2, <2>2 DEF Phases, Terminal
  <2>4. QED
    BY <1>0, <2>1, <2>3, PatchFollows
<1>5. CASE FinishDryRun(o)
  <2>1. pc[o] = "dryRun" /\ Patch(o, StatusPatch("Completed", "cleaned"), "idle")
    BY <1>5 DEF FinishDryRun, At
  <2>2. cr.phase = "Pending"
    BY <1>1, <2>1 DEF StepOfView
  <2>3. cr.exists => Follows(StatusPatch("Completed", "cleaned"), "idle", o)
    BY <1>2, <2>2 DEF Phases, Terminal
  <2>4. QED
    BY <1>0, <2>1, <2>3, PatchFollows
<1>6. CASE AddFinalizer(o)
  <2>1. pc[o] = "finalize" /\ (view[o].finalizer => cr.exists)
    BY <1>1, <1>6 DEF AddFinalizer, At, HandlerAt, Kept
  <2>2. CASE view[o].finalizer
    <3>1. Patch(o, cr, "toPreparing")
      BY <1>6, <2>1, <2>2 DEF AddFinalizer, Patch, Publish
    <3>2. Follows(cr, "toPreparing", o)
      BY <1>0, <1>3, <2>1
    <3>3. QED
      BY <1>0, <3>1, <3>2, PatchFollows
  <2>3. CASE ~view[o].finalizer
    <3>1. /\ FinalizerSet(cr) \in Resource
          /\ FinalizerSet(cr).phase = cr.phase
          /\ FinalizerSet(cr).exists = cr.exists
          /\ FinalizerSet(cr).finalizer
      BY <1>0, WrittenType DEF FinalizerSet, Resource
    <3>2. Patch(o, FinalizerSet(cr), "toPreparing")
      BY <1>6, <2>3 DEF AddFinalizer
    <3>3. Follows(FinalizerSet(cr), "toPreparing", o)
      BY <2>1, <3>1 DEF Follows, Along
    <3>4. QED
      BY <1>0, <3>2, <3>3, PatchFollows
  <2>4. QED
    BY <2>2, <2>3
<1>7. CASE ToPreparing(o)
  <2>1. pc[o] = "toPreparing" /\ Patch(o, StatusPatch("Preparing", "progress"), "idle")
    BY <1>7 DEF ToPreparing, At
  <2>2. cr.phase = "Pending" /\ (cr.exists => cr.finalizer)
    BY <1>1, <2>1 DEF StepOfView, HandlerAt
  <2>3. cr.exists => Follows(StatusPatch("Preparing", "progress"), "idle", o)
    BY <1>2, <2>2 DEF Phases, Terminal, Lifecycle!Successor
  <2>4. QED
    BY <1>0, <2>1, <2>3, PatchFollows
<1>8. CASE ToInitializing(o)
  <2>1. pc[o] = "toInitializing" /\ Patch(o, StatusPatch("Initializing", "progress"), "idle")
    BY <1>8 DEF ToInitializing, At
  <2>2. cr.phase = "Preparing" /\ cr.finalizer
    BY <1>1, <2>1 DEF StepOfView, PreparingSteps, Terminal
  <2>3. cr.exists => Follows(StatusPatch("Initializing", "progress"), "idle", o)
    BY <1>2, <2>2 DEF Phases, Terminal, Lifecycle!Successor
  <2>4. QED
    BY <1>0, <2>1, <2>3, PatchFollows
<1>9. CASE ToRunning(o)
  <2>1. pc[o] = "deploy" /\ Patch(o, StatusPatch("Running", "progress"), "idle")
    BY <1>9 DEF ToRunning, At
  <2>2. cr.phase = "Initializing" /\ cr.finalizer
    BY <1>1, <2>1 DEF StepOfView, Terminal
  <2>3. cr.exists => Follows(StatusPatch("Running", "progress"), "idle", o)
    BY <1>2, <2>2 DEF Phases, Terminal, Lifecycle!Successor
  <2>4. QED
    BY <1>0, <2>1, <2>3, PatchFollows
<1>10. CASE AnnotateSince(o)
  <2> DEFINE new == [cr EXCEPT !.since = TRUE]
  <2>1. /\ new \in Resource
        /\ new.phase = cr.phase /\ new.exists = cr.exists /\ new.finalizer = cr.finalizer
    BY <1>0, WrittenType DEF Resource
  <2>2. pc[o] = "scale" /\ Patch(o, new, "toAggregating")
    BY <1>10 DEF AnnotateSince, At
  <2> HIDE DEF new
  <2>3. Follows(new, "toAggregating", o)
    BY <1>3, <2>1, <2>2
  <2>4. QED
    BY <1>0, <2>2, <2>3, PatchFollows
<1>11. CASE ToAggregating(o)
  <2> DEFINE new == [cr EXCEPT !.phase = "Aggregating"]
  <2>1. /\ new \in Resource
        /\ new.phase = "Aggregating"
        /\ new.exists = cr.exists /\ new.finalizer = cr.finalizer
    BY <1>0, WrittenType DEF Resource
  <2>2. pc[o] = "toAggregating" /\ Patch(o, new, "idle")
    BY <1>11 DEF ToAggregating, At
  <2> HIDE DEF new
  <2>3. cr.phase = "Running"
    BY <1>1, <2>2 DEF StepOfView
  <2>4. cr.phase \notin Terminal \cup {"Pending"} /\ new.phase = Lifecycle!Successor[cr.phase]
    BY <2>1, <2>3 DEF Terminal, Lifecycle!Successor
  <2>5. cr.exists => Follows(new, "idle", o)
    BY <1>3, <2>1, <2>4
  <2>6. QED
    BY <1>0, <2>2, <2>5, PatchFollows
<1>12. CASE FetchResults(o)
  <2>1. PICK results \in {"metrics", "empty"} : Patch(o, ReportingWith(results), "idle")
    BY <1>12 DEF FetchResults
  <2> DEFINE new == ReportingWith(results)
  <2>2. new \in Resource
    BY <1>0, WrittenType
  <2>3. /\ new.phase = "Reporting"
        /\ new.exists = cr.exists /\ new.finalizer = cr.finalizer
    BY <1>0 DEF ReportingWith, Resource
  <2>4. Patch(o, new, "idle")
    BY <2>1
  <2> HIDE DEF new
  <2>5. cr.phase = "Aggregating"
    BY <1>1, <1>12 DEF FetchResults, At, StepOfView
  <2>6. cr.phase \notin Terminal \cup {"Pending"} /\ new.phase = Lifecycle!Successor[cr.phase]
    BY <2>3, <2>5 DEF Terminal, Lifecycle!Successor
  <2>7. cr.exists => Follows(new, "idle", o)
    BY <1>3, <2>2, <2>3, <2>6
  <2>8. QED
    BY <1>0, <2>4, <2>7, PatchFollows
<1>13. CASE JobDone(o)
  <2>1. pc[o] = "checkJob" /\ Patch(o, StatusPatch("Completed", "complete"), "idle")
    BY <1>13 DEF JobDone, At
  <2>2. cr.phase = "Reporting"
    BY <1>1, <2>1 DEF StepOfView
  <2>3. cr.exists => Follows(StatusPatch("Completed", "complete"), "idle", o)
    BY <1>2, <2>2 DEF Phases, Terminal, Lifecycle!Successor
  <2>4. QED
    BY <1>0, <2>1, <2>3, PatchFollows
<1>14. CASE DropFinalizer(o)
  <2> DEFINE new == FinalizerDropped(cr)
  <2>1. /\ new \in Resource
        /\ new.phase = cr.phase
        /\ new.exists \in BOOLEAN
    BY <1>0, WrittenType DEF Resource, FinalizerDropped
  <2>2. pc[o] = "deleteTopics" /\ Patch(o, new, "markCleaned") /\ ~InLoop(o, StreamSeq)
    BY <1>14 DEF DropFinalizer, At
  <2> HIDE DEF new
  <2>3. Outside \subseteq leaks
    BY <2>2, AllTried DEF CleanupInv
  <2>4. cr.phase \in Terminal
    BY <1>1, <2>2 DEF StepOfView, CleanupSteps
  <2>5. cr.exists => Follows(new, "markCleaned", o)
    BY <1>0, <2>1, <2>2, <2>3, <2>4 DEF Follows, Along, Resource
  <2>6. QED
    BY <1>0, <2>2, <2>5, PatchFollows
<1>15. CASE MarkCleaned(o)
  <2> DEFINE new == [cr EXCEPT !.cond = "cleaned"]
  <2>1. /\ new \in Resource
        /\ new.phase = cr.phase /\ new.exists = cr.exists /\ new.finalizer = cr.finalizer
    BY <1>0, WrittenType DEF Resource
  <2>2. Patch(o, new, "idle")
    BY <1>15 DEF MarkCleaned, At
  <2> HIDE DEF new
  <2>3. Follows(new, "idle", o)
    BY <1>3, <2>1
  <2>4. QED
    BY <1>0, <2>2, <2>3, PatchFollows
<1>16. QED
  BY <1>4, <1>5, <1>6, <1>7, <1>8, <1>9, <1>10, <1>11, <1>12, <1>13, <1>14, <1>15

LEMMA CallsFollow ==
    ASSUME TypeOK, OrphanInv, CleanupInv, UpToDate, MaxLag = 0, NEW o, Operators = {o},
           \/ Reconcile(o)
           \/ CreateTopic(o) \/ PrepareAdapter(o) \/ StorePrepare(o)
           \/ ReadPrepare(o) \/ Deploy(o)
           \/ CheckHealth(o) \/ Poll(o) \/ ScaleDown(o)
           \/ AskAggregator(o) \/ FindJob(o) \/ JobPending(o)
           \/ DeleteChild(o) \/ DeletePrepare(o) \/ CleanAdapter(o) \/ DeleteTopic(o)
    PROVE  UpToDate' /\ [Lifecycle!Next]_(Lifecycle!lifecycleVars)
<1>0. /\ o \in Operators
      /\ pc \in [Operators -> Steps]
      /\ view \in [Operators -> Resource]
      /\ n[o] \in Nat \ {0}
      /\ topics \subseteq StreamSet
      /\ platform \in BOOLEAN
      /\ cr' = cr
  <2>1. UNCHANGED crVars
    BY DEF Reconcile, CreateTopic, PrepareAdapter, StorePrepare, ReadPrepare, Deploy,
           CheckHealth, Poll, ScaleDown, AskAggregator, FindJob, JobPending,
           DeleteChild, DeletePrepare, CleanAdapter, DeleteTopic
  <2>2. QED
    BY <2>1, LoopLengths DEF TypeOK, crVars
<1>1. /\ StepOfView(o) /\ HandlerAt(o) /\ InfraProtected
      /\ pc[o] # "idle" => view[o].phase = cr.phase
      /\ cr.phase \notin Terminal \cup {"Pending"} => cr.finalizer
  BY <1>0 DEF CleanupInv, OrphanInv, HandlerInv, UpToDate
<1>2. CASE Reconcile(o)
  <2>1. cache[o] = cr
    BY <1>0, NoLag DEF CleanupInv, StoreIsCurrent
  <2>2. view'[o] = cr /\ UNCHANGED <<infraVars, leaks>>
    BY <1>0, <1>2, <2>1 DEF Reconcile
  <2>3. UpToDate'
    BY <1>0, <1>1, <2>2 DEF UpToDate
  <2>4. QED
    BY <1>0, <2>2, <2>3 DEF Lifecycle!lifecycleVars, Outside, infraVars
<1> DEFINE Called == pc[o] # "idle" /\ view' = view
<1>3. Called => UpToDate'
  BY <1>0, <1>1 DEF UpToDate
<1>4. CASE CreateTopic(o) \/ PrepareAdapter(o)
  <2>1. /\ Called /\ pc[o] = "topics"
        /\ topics \subseteq topics'
        /\ platform => platform'
        /\ leaks' = leaks
    <3>1. CASE CreateTopic(o)
      BY <3>1 DEF CreateTopic, At
    <3>2. CASE PrepareAdapter(o)
      <4>1. platform' = TRUE \/ platform' \in {platform, TRUE}
        BY <3>2 DEF PrepareAdapter
      <4>2. pc[o] = "topics" /\ view' = view /\ topics' = topics /\ leaks' = leaks
        BY <3>2 DEF PrepareAdapter, At
      <4>3. platform => platform'
        BY <4>1, Zenon
      <4>4. QED
        BY <4>2, <4>3
    <3>3. QED
      BY <1>4, <3>1, <3>2
  <2>2. cr.phase = "Preparing" /\ cr.exists
    BY <1>1, <2>1 DEF StepOfView, PreparingSteps, HandlerAt, Kept
  <2>3. Outside \ leaks \subseteq Outside' \ leaks'
    BY <2>1 DEF Outside
  <2>4. CASE Outside' \ leaks' = {}
    BY <1>0, <1>3, <2>1, <2>3, <2>4 DEF Lifecycle!lifecycleVars
  <2>5. CASE Outside' \ leaks' # {}
    <3>1. Lifecycle!Provision
      BY <1>0, <2>2, <2>5 DEF Lifecycle!Provision
    <3>2. QED
      BY <1>3, <2>1, <3>1 DEF Lifecycle!Next
  <2>6. QED
    BY <2>4, <2>5
<1>5. CASE \/ StorePrepare(o) \/ ReadPrepare(o) \/ Deploy(o)
           \/ CheckHealth(o) \/ Poll(o) \/ ScaleDown(o)
           \/ AskAggregator(o) \/ FindJob(o) \/ JobPending(o)
  <2>1. Called /\ UNCHANGED <<infraVars, leaks>>
    BY <1>5 DEF StorePrepare, ReadPrepare, Deploy, CheckHealth, Poll, ScaleDown,
                AskAggregator, FindJob, JobPending, At
  <2>2. QED
    BY <1>0, <1>3, <2>1 DEF Lifecycle!lifecycleVars, Outside, infraVars
<1>6. CASE DeleteChild(o) \/ DeletePrepare(o) \/ CleanAdapter(o) \/ DeleteTopic(o)
  <2>1. Called /\ pc[o] \in CleanupSteps
    BY <1>6 DEF DeleteChild, DeletePrepare, CleanAdapter, DeleteTopic, At, CleanupSteps
  <2>2. cr.phase \in Terminal
    BY <1>1, <2>1 DEF StepOfView
  <2>3. Outside' \ leaks' \subseteq Outside \ leaks
    <3>1. CASE DeleteChild(o)
      <4>1. PICK c \in Children : leaks' = leaks \ {c} \/ leaks' = leaks \cup {c}
        BY <1>0, <3>1, LoopLengths DEF DeleteChild, InLoop
      <4>2. QED
        BY <1>0, <3>1, <4>1, DistinctNames DEF DeleteChild, infraVars, Outside
    <3>2. CASE DeletePrepare(o)
      BY <1>0, <3>2, DistinctNames DEF DeletePrepare, infraVars, Outside
    <3>3. CASE CleanAdapter(o)
      BY <1>0, <3>3, DistinctNames DEF CleanAdapter, Outside
    <3>4. CASE DeleteTopic(o)
      <4>1. StreamSeq[n[o]] \in StreamSet
        BY <1>0, <3>4, LoopLengths DEF DeleteTopic, InLoop
      <4>2. QED
        BY <1>0, <3>4, <4>1, DistinctNames DEF DeleteTopic, Outside
    <3>5. QED
      BY <1>6, <3>1, <3>2, <3>3, <3>4
  <2>4. CASE Outside \ leaks = {}
    BY <1>0, <1>3, <2>1, <2>3, <2>4 DEF Lifecycle!lifecycleVars
  <2>5. CASE Outside' \ leaks' # {}
    BY <1>0, <1>3, <2>1, <2>3, <2>5 DEF Lifecycle!lifecycleVars
  <2>6. CASE Outside \ leaks # {} /\ Outside' \ leaks' = {}
    <3>1. cr.exists
      BY <1>1, <2>6 DEF InfraProtected
    <3>2. Lifecycle!TearDown
      BY <1>0, <2>2, <2>6, <3>1 DEF Lifecycle!TearDown, Lifecycle!Terminal, Terminal
    <3>3. QED
      BY <1>3, <2>1, <3>2 DEF Lifecycle!Next
  <2>7. QED
    BY <2>4, <2>5, <2>6
<1>7. QED
  BY <1>2, <1>4, <1>5, <1>6

LEMMA SurroundingsFollow ==
    ASSUME TypeOK, OrphanInv, CleanupInv, UpToDate, NEW o, Operators = {o},
           \/ WatchDelivers(o) \/ OperatorRestarts(o)
           \/ Benchmark
           \/ Cluster
    PROVE  UpToDate' /\ [Lifecycle!Next]_(Lifecycle!lifecycleVars)
<1>0. /\ o \in Operators
      /\ cr \in Resource
      /\ pc \in [Operators -> Steps]
  BY DEF TypeOK
<1>1. /\ InfraProtected
      /\ cr.phase \notin Terminal \cup {"Pending"} => cr.finalizer
  BY DEF OrphanInv, UpToDate
<1>2. CASE \/ WatchDelivers(o) \/ Benchmark
           \/ CollectGarbage \/ ReporterEnds \/ JobExpires
  <2>1. UNCHANGED <<cr, localVars, infraVars, leaks>>
    BY <1>2 DEF WatchDelivers, Benchmark, TimelineEnds, ControllerRestarts,
                AggregationCompletes, AggregatorRestarts, GraceElapses, CollectGarbage,
                ReporterEnds, JobExpires, crVars
  <2>2. UpToDate'
    BY <2>1 DEF UpToDate, localVars
  <2>3. QED
    BY <2>1, <2>2 DEF Lifecycle!lifecycleVars, Outside, infraVars
<1>3. CASE OperatorRestarts(o)
  <2>1. UNCHANGED <<cr, infraVars, leaks>> /\ pc'[o] = "idle"
    BY <1>0, <1>3 DEF OperatorRestarts, GoToLoop, GoTo
  <2>2. UpToDate'
    BY <1>0, <2>1 DEF UpToDate
  <2>3. QED
    BY <2>1, <2>2 DEF Lifecycle!lifecycleVars, Outside, infraVars
<1>4. CASE UserDeletes
  <2> DEFINE new == [cr EXCEPT !.deleting = TRUE, !.exists = cr.finalizer]
  <2>1. /\ new \in Resource
        /\ new.exists = cr.finalizer /\ new.finalizer = cr.finalizer
        /\ new.phase = cr.phase
    BY <1>0, WrittenType DEF Resource
  <2>2. Publish(new) /\ cr.exists /\ UNCHANGED <<localVars, infraVars, leaks>>
    BY <1>4 DEF UserDeletes
  <2> HIDE DEF new
  <2>3. cr' = new
    BY <2>2 DEF Publish, crVars
  <2>4. UpToDate'
    BY <2>1, <2>2, <2>3 DEF UpToDate, localVars
  <2>5. Along(new)
    <3>1. CASE cr.finalizer
      BY <2>1, <2>2, <3>1 DEF Along
    <3>2. CASE ~cr.finalizer
      BY <1>1, <2>1, <3>2 DEF Along, InfraProtected
    <3>3. QED
      BY <3>1, <3>2
  <2>6. QED
    BY <1>0, <2>1, <2>2, <2>3, <2>4, <2>5, AlongIsStep
<1>5. QED
  BY <1>2, <1>3, <1>4 DEF Cluster

LEMMA InitFollows == Init => UpToDate /\ Lifecycle!Init
<1> SUFFICES ASSUME Init
             PROVE  UpToDate /\ Lifecycle!Init
  OBVIOUS
<1>1. cr.phase = "Pending" /\ cr.exists = TRUE
  BY DEF Init, NewRun
<1>2. Outside \ leaks = {}
  BY DEF Init, Outside
<1>3. Lifecycle!Init
  BY <1>1, <1>2 DEF Lifecycle!Init
<1>4. UpToDate
  BY <1>1 DEF UpToDate, Init
<1>5. QED
  BY <1>3, <1>4

LEMMA NextFollows ==
    ASSUME SingleOperator, MaxLag = 0
    PROVE  TypeOK /\ OrphanInv /\ CleanupInv /\ UpToDate /\ [Next]_vars
              => UpToDate' /\ [Lifecycle!Next]_(Lifecycle!lifecycleVars)
<1> SUFFICES ASSUME TypeOK, OrphanInv, CleanupInv, UpToDate, [Next]_vars
             PROVE  UpToDate' /\ [Lifecycle!Next]_(Lifecycle!lifecycleVars)
  OBVIOUS
<1>1. PICK o : Operators = {o}
  BY DEF SingleOperator
<1>2. CASE UNCHANGED vars
  BY <1>2 DEF vars, crVars, localVars, infraVars, UpToDate, Lifecycle!lifecycleVars, Outside
<1>3. CASE HandlerStep(o)
  BY <1>1, <1>3, WritesFollow, CallsFollow DEF HandlerStep
<1>4. CASE OperatorNext(o)
  BY <1>1, <1>3, <1>4, CallsFollow, SurroundingsFollow DEF OperatorNext
<1>5. QED
  BY <1>1, <1>2, <1>4, SurroundingsFollow DEF Next

\* A single operator that reads its own writes takes the run through the linear
\* lifecycle of the specification, with the outside infrastructure only inside it,
\* whatever fails (reconcile and its handlers, controller.rs:70-1207).
THEOREM FollowsLifecycle ==
    ASSUME SingleOperator, MaxLag = 0
    PROVE  Spec => LifecycleSpec
<1>1. TypeOK /\ OrphanInv /\ [Next]_vars => OrphanInv'
  BY NextOrphanInv
<1>2. TypeOK /\ OrphanInv /\ CleanupInv /\ [Next]_vars => CleanupInv'
  <2>1. MaxLag <= 2
    OBVIOUS
  <2>2. QED
    BY <2>1, NextCleanup
<1>3. TypeOK /\ OrphanInv /\ CleanupInv /\ UpToDate /\ [Next]_vars
         => UpToDate' /\ [Lifecycle!Next]_(Lifecycle!lifecycleVars)
  BY NextFollows
<1>4. QED
  BY <1>1, <1>2, <1>3, InitFollows, InitCleanup, InitOrphanInv, TypeCorrect, PTL
     DEF Spec, LifecycleSpec, Lifecycle!Spec

\* With such a store, a run that has ended stays as it ended: no handler writes a
\* phase over a terminal one (the state machine of section 2.4 of the specification).
THEOREM EndIsFinal ==
    ASSUME SingleOperator, MaxLag = 0
    PROVE  Spec => TerminalIsFinal
<1>1. [Lifecycle!Next]_(Lifecycle!lifecycleVars)
         => [cr.phase \in Terminal => cr'.phase = cr.phase]_vars
  BY DEF Lifecycle!Next, Lifecycle!Advance, Lifecycle!DryRun, Lifecycle!Fail,
         Lifecycle!Provision, Lifecycle!TearDown, Lifecycle!Vanish,
         Lifecycle!lifecycleVars, Lifecycle!Terminal, Terminal
<1>2. QED
  BY <1>1, FollowsLifecycle, PTL DEF LifecycleSpec, Lifecycle!Spec, TerminalIsFinal
=============================================================================
