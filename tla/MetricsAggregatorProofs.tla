----------------------- MODULE MetricsAggregatorProofs -----------------------
(***************************************************************************)
(* Theorems about MetricsAggregator for any number of workers, streams,    *)
(* subscribers, seconds and snapshots, any capacities and any faults.      *)
(***************************************************************************)
EXTENDS MetricsAggregator, FiniteSetTheorems, TLAPS

\* The handlers that were counted and have not been uncounted.
Counted == {s \in Streams : st[s] \in {"open", "stale", "ended", "dropped"}}

\* A stream that its worker has not opened has no handler.
StreamsInOrder ==
    \A w \in Workers, k \in 1..MaxStreams : k > calls[w] => st[<<w, k>>] = "none"

\* The timeline, point by point.
TimelineInv ==
    /\ \A j \in 1..Len(timeline) :
          /\ timeline[j] = PointOf(timeline[j].t, buckets[timeline[j].t])
          /\ buckets[timeline[j].t] # Empty
    /\ \A i, j \in 1..Len(timeline) : timeline[i].t = timeline[j].t => i = j
    /\ \A t \in Seconds :
          buckets[t] # Empty => \E j \in 1..Len(timeline) : timeline[j].t = t

Queued(u, t) == \E j \in 1..Len(liveQ[u]) : liveQ[u][j].t = t

\* The last point that is queued for a second is the current one.
LatestQueued(u) ==
    \A j \in 1..Len(liveQ[u]) :
        (\A i \in (j + 1)..Len(liveQ[u]) : liveQ[u][i].t # liveQ[u][j].t)
            => liveQ[u][j] = PointOf(liveQ[u][j].t, buckets[liveQ[u][j].t])

\* What a subscriber has been sent, by the state of its task.
SubscriberInv(u) ==
    /\ sub[u] = "off" => liveQ[u] = << >> /\ ~lagged[u]
    /\ sub[u] \in {"off", "subscribed"} => view[u] = NoView /\ history[u] = 1
    /\ sub[u] = "history" =>
          /\ lock = u
          /\ \A j \in 1..Len(timeline) :
                j < history[u] => view[u][timeline[j].t] = buckets[timeline[j].t]
          /\ \A t \in Seconds : buckets[t] = Empty => view[u][t] = Empty
    /\ Listening(u) /\ ~lagged[u] => LatestQueued(u)
    /\ sub[u] = "live" /\ ~lagged[u] =>
          \A t \in Seconds :
              ~Queued(u, t) =>
                  view[u][t] = buckets[t] \/ (~wants[u] /\ view[u][t] = Empty)

ViewInv == \A u \in Subscribers : SubscriberInv(u)

GateInv == ConnectedIsExact /\ DrainedIsComplete /\ StreamsInOrder

AggregatorInv == GateInv /\ TimelineInv /\ ViewInv

-----------------------------------------------------------------------------
(* Lemmas *)

LEMMA FiniteStreams ==
    /\ IsFiniteSet(Streams)
    /\ \A S \in SUBSET Streams :
          IsFiniteSet(S) /\ Cardinality(S) \in 0..Cardinality(Streams)
<1>1. IsFiniteSet(Workers)
  BY WorkersAssumption, FS_Union DEF Workers
<1>2. IsFiniteSet(1..MaxStreams)
  BY BoundsAssumption, FS_Interval
<1>3. IsFiniteSet(Streams)
  BY <1>1, <1>2, FS_Product DEF Streams
<1>4. QED
  BY <1>3, FS_Subset, FS_CardinalityType

\* What a snapshot does to the sums of its second.
LEMMA AddedSums ==
    ASSUME buckets \in [Seconds -> Counts], NEW s, NEW t \in Seconds
    PROVE  /\ Added(s, t) \in [Seconds -> Counts]
           /\ Added(s, t)[t] # Empty
           /\ \A x \in Seconds \ {t} : Added(s, t)[x] = buckets[x]
           /\ PointOf(t, Added(s, t)[t]) \in Points
           /\ PointOf(t, Added(s, t)[t]).t = t
<1> DEFINE c == buckets[t]
           d == IF IsIngest(s) THEN [c EXCEPT !.ingest = @ + 1] ELSE [c EXCEPT !.query = @ + 1]
<1>1. c \in Counts
  OBVIOUS
<1>2. /\ d \in Counts
      /\ d.ingest # 0 \/ d.query # 0
  BY <1>1 DEF Counts
<1>3. d # Empty
  BY <1>2 DEF Empty
<1>4. Added(s, t) = [buckets EXCEPT ![t] = d]
  <2>1. CASE IsIngest(s)
    BY <2>1 DEF Added
  <2>2. CASE ~IsIngest(s)
    BY <2>2 DEF Added
  <2>3. QED
    BY <2>1, <2>2
<1> HIDE DEF c, d
<1>5. PointOf(t, d) \in Points /\ PointOf(t, d).t = t
  BY <1>2 DEF PointOf, Points, Counts
<1>6. QED
  BY <1>2, <1>3, <1>4, <1>5

\* A point is put where the point of its second stands, or at the end.
LEMMA WithPointShape ==
    ASSUME timeline \in Seq(Points), NEW p \in Points
    PROVE  /\ WithPoint(p) \in Seq(Points)
           /\ \/ /\ \A j \in 1..Len(timeline) : timeline[j].t # p.t
                 /\ Len(WithPoint(p)) = Len(timeline) + 1
                 /\ WithPoint(p)[Len(timeline) + 1] = p
                 /\ \A j \in 1..Len(timeline) : WithPoint(p)[j] = timeline[j]
              \/ /\ \E j \in 1..Len(timeline) : timeline[j].t = p.t
                 /\ Len(WithPoint(p)) = Len(timeline)
                 /\ \A j \in 1..Len(timeline) :
                       WithPoint(p)[j] = IF timeline[j].t = p.t THEN p ELSE timeline[j]
<1>1. Len(timeline) \in Nat /\ \A j \in 1..Len(timeline) : timeline[j] \in Points
  OBVIOUS
<1>2. CASE IndexOfSecond(p.t) = {}
  <2>1. WithPoint(p) = Append(timeline, p)
    BY <1>2 DEF WithPoint
  <2>2. \A j \in 1..Len(timeline) : timeline[j].t # p.t
    BY <1>2 DEF IndexOfSecond
  <2>3. QED
    BY <2>1, <2>2
<1>3. CASE IndexOfSecond(p.t) # {}
  <2> DEFINE w == [j \in 1..Len(timeline) |-> IF timeline[j].t = p.t THEN p ELSE timeline[j]]
  <2>1. WithPoint(p) = w
    BY <1>3 DEF WithPoint
  <2>2. \E j \in 1..Len(timeline) : timeline[j].t = p.t
    BY <1>3 DEF IndexOfSecond
  <2>3. w \in [1..Len(timeline) -> Points]
    BY <1>1
  <2>4. w \in Seq(Points) /\ Len(w) = Len(timeline)
    BY <1>1, <2>3
  <2>5. QED
    BY <2>1, <2>2, <2>4
<1>4. QED
  BY <1>2, <1>3

\* A receiver that is not full gets the point as its newest; one that is full misses
\* its oldest and has lagged.
LEMMA BroadcastShape ==
    ASSUME TypeOK, NEW p \in Points, BroadcastPoint(p)
    PROVE  /\ liveQ' \in [Subscribers -> Seq(Points)]
           /\ lagged' \in [Subscribers -> BOOLEAN]
           /\ \A u \in Subscribers :
                 /\ Len(liveQ'[u]) <= LiveCapacity
                 /\ lagged[u] => lagged'[u]
                 /\ ~Listening(u) => liveQ'[u] = liveQ[u] /\ lagged'[u] = lagged[u]
                 /\ Listening(u) /\ ~lagged'[u] =>
                       /\ ~lagged[u]
                       /\ Len(liveQ'[u]) = Len(liveQ[u]) + 1
                       /\ liveQ'[u][Len(liveQ[u]) + 1] = p
                       /\ \A j \in 1..Len(liveQ[u]) : liveQ'[u][j] = liveQ[u][j]
<1>1. /\ liveQ' = [u \in Subscribers |->
                      IF ~Listening(u) THEN liveQ[u]
                      ELSE Append(IF Full(u) THEN Tail(liveQ[u]) ELSE liveQ[u], p)]
      /\ lagged' = [u \in Subscribers |-> lagged[u] \/ (Listening(u) /\ Full(u))]
  BY DEF BroadcastPoint
<1>2. /\ liveQ \in [Subscribers -> Seq(Points)]
      /\ lagged \in [Subscribers -> BOOLEAN]
      /\ \A u \in Subscribers : Len(liveQ[u]) <= LiveCapacity
      /\ LiveCapacity \in Nat \ {0}
  BY BoundsAssumption DEF TypeOK
<1>3. ASSUME NEW u \in Subscribers
      PROVE  /\ liveQ'[u] \in Seq(Points)
             /\ Len(liveQ'[u]) <= LiveCapacity
             /\ Listening(u) /\ ~Full(u) =>
                   /\ Len(liveQ'[u]) = Len(liveQ[u]) + 1
                   /\ liveQ'[u][Len(liveQ[u]) + 1] = p
                   /\ \A j \in 1..Len(liveQ[u]) : liveQ'[u][j] = liveQ[u][j]
  <2> DEFINE q == liveQ[u]
  <2>1. q \in Seq(Points) /\ Len(q) \in Nat /\ Len(q) <= LiveCapacity
    BY <1>2
  <2>2. CASE ~Listening(u)
    BY <1>1, <2>1, <2>2
  <2>3. CASE Listening(u) /\ ~Full(u)
    <3>1. liveQ'[u] = Append(q, p) /\ Len(q) # LiveCapacity
      BY <1>1, <2>3 DEF Full
    <3> HIDE DEF q
    <3>2. /\ Append(q, p) \in Seq(Points)
          /\ Len(Append(q, p)) = Len(q) + 1
          /\ Append(q, p)[Len(q) + 1] = p
          /\ \A j \in 1..Len(q) : Append(q, p)[j] = q[j]
      BY <2>1
    <3>3. Len(q) + 1 <= LiveCapacity
      BY <1>2, <2>1, <3>1
    <3>4. QED
      BY <3>1, <3>2, <3>3 DEF q
  <2>4. CASE Listening(u) /\ Full(u)
    <3>1. liveQ'[u] = Append(Tail(q), p) /\ Len(q) = LiveCapacity
      BY <1>1, <2>4 DEF Full
    <3> HIDE DEF q
    <3>2. q # << >>
      BY <1>2, <2>1, <3>1
    <3>3. Tail(q) \in Seq(Points) /\ Len(Tail(q)) = Len(q) - 1
      BY <2>1, <3>2
    <3>4. Append(Tail(q), p) \in Seq(Points) /\ Len(Append(Tail(q), p)) = Len(q)
      BY <2>1, <3>3
    <3>5. QED
      BY <2>4, <3>1, <3>4, <1>2
  <2>5. QED
    BY <2>2, <2>3, <2>4
<1>4. liveQ' \in [Subscribers -> Seq(Points)]
  BY <1>1, <1>3
<1>5. QED
  BY <1>1, <1>2, <1>3, <1>4

LEMMA RecordsBounded ==
    ASSUME NEW m \in 0..MaxErrorRecords, NEW k \in Nat
    PROVE  RecordsAfter(m, k) \in 0..MaxErrorRecords
BY BoundsAssumption DEF RecordsAfter, SmallerOf

-----------------------------------------------------------------------------
(* Types and the number of counted workers *)

DataType ==
    /\ buckets \in [Seconds -> Counts]
    /\ timeline \in Seq(Points)
    /\ snapshots \in 0..MaxSnapshots
    /\ errorRecords \in 0..MaxErrorRecords

GateType ==
    /\ connected \in 0..Cardinality(Streams)
    /\ hadWorkers \in BOOLEAN
    /\ agg \in {"collecting", "complete"}

FileType ==
    /\ saving \in {NoData} \cup [Seconds -> Counts]
    /\ file \in {NoData} \cup [Seconds -> Counts]

StreamType ==
    /\ calls \in [Workers -> 0..MaxStreams]
    /\ st \in [Streams -> HandlerStates]
    /\ last \in [Streams -> 0..MaxSecond]
    /\ runOver \in BOOLEAN

SubscriberType ==
    /\ sub \in [Subscribers -> {"off", "subscribed", "history", "live", "ended"}]
    /\ wants \in [Subscribers -> BOOLEAN]
    /\ history \in [Subscribers -> Nat \ {0}]
    /\ liveQ \in [Subscribers -> Seq(Points)]
    /\ \A u \in Subscribers : Len(liveQ[u]) <= LiveCapacity
    /\ lagged \in [Subscribers -> BOOLEAN]
    /\ out \in [Subscribers -> 0..OutCapacity]
    /\ view \in [Subscribers -> [Seconds -> Counts]]

LockType == lock \in {"free"} \cup Subscribers /\ faults \in 0..MaxFaults

LEMMA TypeParts ==
    TypeOK <=> /\ DataType /\ GateType /\ FileType
               /\ StreamType /\ SubscriberType /\ LockType
BY DEF TypeOK, DataType, GateType, FileType, StreamType, SubscriberType, LockType

LEMMA InitAggregator == Init => TypeOK /\ AggregatorInv
<1> SUFFICES ASSUME Init
             PROVE  TypeOK /\ AggregatorInv
  OBVIOUS
<1>1. Counted = {}
  BY DEF Init, Counted
<1>2. Cardinality({}) = 0 /\ Cardinality(Streams) \in Nat
  BY FiniteStreams, FS_EmptySet, FS_CardinalityType
<1>3. << >> \in Seq(Points) /\ Len(<< >>) = 0 /\ \A j : j \notin 1..Len(<< >>)
  OBVIOUS
<1>4. Empty \in Counts /\ NoView \in [Seconds -> Counts]
  BY DEF Empty, Counts, NoView
<1>5. TypeOK
  <2>1. /\ buckets \in [Seconds -> Counts]
        /\ timeline \in Seq(Points)
        /\ connected \in 0..Cardinality(Streams)
        /\ hadWorkers \in BOOLEAN
        /\ snapshots \in 0..MaxSnapshots
        /\ agg \in {"collecting", "complete"}
        /\ errorRecords \in 0..MaxErrorRecords
        /\ lock \in {"free"} \cup Subscribers
    <3>1. buckets \in [Seconds -> Counts]
      BY <1>4 DEF Init
    <3>2. timeline \in Seq(Points)
      BY <1>3 DEF Init
    <3>3. connected \in 0..Cardinality(Streams) /\ snapshots \in 0..MaxSnapshots
      BY <1>2, BoundsAssumption DEF Init
    <3>4. errorRecords \in 0..MaxErrorRecords
      BY BoundsAssumption DEF Init
    <3>5. /\ hadWorkers \in BOOLEAN
          /\ agg \in {"collecting", "complete"}
          /\ lock \in {"free"} \cup Subscribers
      BY DEF Init
    <3>6. QED
      BY <3>1, <3>2, <3>3, <3>4, <3>5
  <2>2. /\ saving \in {NoData} \cup [Seconds -> Counts]
        /\ file \in {NoData} \cup [Seconds -> Counts]
        /\ calls \in [Workers -> 0..MaxStreams]
        /\ st \in [Streams -> HandlerStates]
        /\ last \in [Streams -> 0..MaxSecond]
        /\ runOver \in BOOLEAN
        /\ faults \in 0..MaxFaults
    <3>1. saving \in {NoData} \cup [Seconds -> Counts]
      BY DEF Init
    <3>2. file \in {NoData} \cup [Seconds -> Counts]
      BY DEF Init
    <3>3. calls \in [Workers -> 0..MaxStreams]
      BY BoundsAssumption DEF Init
    <3>4. st \in [Streams -> HandlerStates]
      BY DEF Init, HandlerStates
    <3>5. last \in [Streams -> 0..MaxSecond] /\ faults \in 0..MaxFaults
      BY BoundsAssumption DEF Init
    <3>6. runOver \in BOOLEAN
      BY DEF Init
    <3>7. QED
      BY <3>1, <3>2, <3>3, <3>4, <3>5, <3>6
  <2>3. /\ sub \in [Subscribers -> {"off", "subscribed", "history", "live", "ended"}]
        /\ wants \in [Subscribers -> BOOLEAN]
        /\ history \in [Subscribers -> Nat \ {0}]
        /\ lagged \in [Subscribers -> BOOLEAN]
        /\ out \in [Subscribers -> 0..OutCapacity]
    BY BoundsAssumption DEF Init
  <2>4. /\ liveQ \in [Subscribers -> Seq(Points)]
        /\ \A u \in Subscribers : Len(liveQ[u]) <= LiveCapacity
        /\ view \in [Subscribers -> [Seconds -> Counts]]
    BY <1>3, <1>4, BoundsAssumption DEF Init
  <2>5. QED
    BY <2>1, <2>2, <2>3, <2>4 DEF TypeOK
<1>6. ConnectedIsExact /\ DrainedIsComplete
  BY <1>1, <1>2 DEF Init, ConnectedIsExact, DrainedIsComplete, Counted
<1>7. TimelineInv
  BY <1>3 DEF Init, TimelineInv
<1>8. ViewInv
  BY <1>3 DEF Init, ViewInv, SubscriberInv, Listening
<1>9. StreamsInOrder
  BY DEF Init, StreamsInOrder, Streams
<1>10. QED
  BY <1>5, <1>6, <1>7, <1>8, <1>9 DEF AggregatorInv, GateInv

\* The number of counted handlers follows the state of one of them.
LEMMA CountFollows ==
    ASSUME TypeOK, ConnectedIsExact, NEW s \in Streams, NEW state, SetState(s, state),
           LET was == s \in Counted
               is  == state \in {"open", "stale", "ended", "dropped"}
           IN  /\ was = is => connected' = connected
               /\ ~was /\ is => connected' = connected + 1
               /\ was /\ ~is => connected' = SaturatingDec(connected)
    PROVE  /\ ConnectedIsExact'
           /\ connected' \in 0..Cardinality(Streams)
<1> DEFINE is == state \in {"open", "stale", "ended", "dropped"}
<1>1. /\ Counted \in SUBSET Streams
      /\ connected = Cardinality(Counted) /\ connected \in Nat
      /\ st' = [st EXCEPT ![s] = state] /\ st \in [Streams -> HandlerStates]
  BY DEF Counted, ConnectedIsExact, SetState, TypeOK
<1>2. IsFiniteSet(Counted)
  BY <1>1, FiniteStreams
<1>3. Counted' = IF is THEN Counted \cup {s} ELSE Counted \ {s}
  BY <1>1 DEF Counted
<1>4. connected' = Cardinality(Counted')
  <2>1. CASE (s \in Counted) = is
    <3>1. Counted' = Counted
      BY <1>3, <2>1
    <3>2. QED
      BY <1>1, <2>1, <3>1
  <2>2. CASE s \notin Counted /\ is
    <3>1. Cardinality(Counted \cup {s}) = Cardinality(Counted) + 1
      BY <1>2, <2>2, FS_AddElement
    <3>2. QED
      BY <1>1, <1>3, <2>2, <3>1
  <2>3. CASE s \in Counted /\ ~is
    <3>1. Cardinality(Counted \ {s}) = Cardinality(Counted) - 1
      BY <1>2, <2>3, FS_RemoveElement
    <3>2. connected # 0
      BY <1>1, <1>2, <2>3, FS_EmptySet
    <3>3. QED
      BY <1>1, <1>3, <2>3, <3>1, <3>2 DEF SaturatingDec
  <2>4. QED
    BY <2>1, <2>2, <2>3
<1>5. Counted' \in SUBSET Streams
  BY <1>1, <1>3
<1>6. Cardinality(Counted') \in 0..Cardinality(Streams)
  BY <1>5, FiniteStreams
<1>7. QED
  BY <1>4, <1>6 DEF ConnectedIsExact, Counted

LEMMA SetStateInOrder ==
    ASSUME StreamType, StreamsInOrder, NEW s \in Streams, NEW state, SetState(s, state),
           st[s] # "none", calls' = calls
    PROVE  StreamsInOrder'
BY DEF StreamsInOrder, StreamType, SetState, Streams

LEMMA FaultType ==
    ASSUME LockType, Fault
    PROVE  faults' \in 0..MaxFaults
BY BoundsAssumption DEF LockType, Fault

\* A step of the handler of one stream, but for its snapshots.
LEMMA HandlerGate ==
    ASSUME TypeOK, GateInv, NEW s \in Streams,
           CountWorker(s) \/ EndStream(s) \/ UncountWorker(s) \/ BreakStream(s)
    PROVE  TypeOK' /\ GateInv'
<1>0. /\ DataType /\ GateType /\ FileType
      /\ StreamType /\ SubscriberType /\ LockType
      /\ ConnectedIsExact /\ DrainedIsComplete /\ StreamsInOrder
      /\ connected \in Nat
  BY TypeParts, FiniteStreams DEF GateInv, GateType
<1>1. /\ DataType' /\ SubscriberType'
      /\ UNCHANGED <<file, calls, runOver, lock>>
  BY <1>0 DEF CountWorker, EndStream, UncountWorker, BreakStream, DataType, SubscriberType,
              dataVars, subVars, fileVars
<1>2. CASE CountWorker(s)
  <2>1. /\ SetState(s, "open") /\ st[s] = "accepted"
        /\ connected' = connected + 1 /\ hadWorkers' = TRUE
        /\ UNCHANGED <<agg, saving, file, last, faults>>
    BY <1>2 DEF CountWorker, fileVars
  <2>2. ConnectedIsExact' /\ connected' \in 0..Cardinality(Streams)
    BY <1>0, <2>1, CountFollows DEF Counted
  <2>3. GateType' /\ FileType' /\ LockType'
    BY <1>0, <1>1, <2>1, <2>2 DEF GateType, FileType, LockType
  <2>4. StreamType'
    BY <1>0, <1>1, <2>1 DEF StreamType, SetState, HandlerStates
  <2>5. DrainedIsComplete' /\ StreamsInOrder'
    BY <1>0, <1>1, <2>1, SetStateInOrder DEF DrainedIsComplete
  <2>6. QED
    BY <1>1, <2>2, <2>3, <2>4, <2>5
       DEF TypeOK, DataType, GateType, FileType, StreamType, SubscriberType, LockType, GateInv
<1>3. CASE EndStream(s) \/ BreakStream(s)
  <2>1. /\ UNCHANGED <<gateVars, fileVars>>
        /\ faults' = faults \/ Fault
        /\ \/ /\ st[s] = "open"
              /\ \E state \in {"ended", "dropped", "stale"} : StreamOver(s, state)
           \/ st[s] = "accepted" /\ StreamOver(s, "closed")
    BY <1>3 DEF EndStream, BreakStream
  <2>2. PICK state \in {"ended", "dropped", "stale", "closed"} :
           /\ SetState(s, state) /\ last' = [last EXCEPT ![s] = 0]
           /\ state = "closed" <=> st[s] = "accepted"
           /\ st[s] \in {"open", "accepted"}
    BY <2>1 DEF StreamOver
  <2>3. (s \in Counted) = (state \in {"open", "stale", "ended", "dropped"})
    BY <2>2 DEF Counted
  <2>4. ConnectedIsExact'
    BY <1>0, <2>1, <2>2, <2>3, CountFollows DEF gateVars
  <2>5. GateType' /\ FileType' /\ DrainedIsComplete' /\ StreamsInOrder'
    BY <1>0, <1>1, <2>1, <2>2, SetStateInOrder
       DEF GateType, FileType, DrainedIsComplete, gateVars, fileVars
  <2>6. StreamType'
    BY <1>0, <1>1, <2>2, BoundsAssumption DEF StreamType, SetState, HandlerStates
  <2>7. LockType'
    BY <1>0, <1>1, <2>1, FaultType DEF LockType
  <2>8. QED
    BY <1>1, <2>4, <2>5, <2>6, <2>7
       DEF TypeOK, DataType, GateType, FileType, StreamType, SubscriberType, LockType, GateInv
<1>4. CASE UncountWorker(s)
  <2>1. /\ SetState(s, "closed") /\ st[s] = "ended"
        /\ connected' = SaturatingDec(connected)
        /\ \/ connected' = 0 /\ agg' = "complete" /\ saving' \in {saving, buckets}
           \/ ~(connected' = 0 /\ hadWorkers) /\ UNCHANGED <<agg, saving>>
        /\ UNCHANGED <<hadWorkers, file, last, faults>>
    BY <1>4 DEF UncountWorker, AfterUncount, IsDrained, CompleteAggregation
  <2>2. ConnectedIsExact' /\ connected' \in 0..Cardinality(Streams)
    BY <1>0, <2>1, CountFollows DEF Counted
  <2>3. GateType' /\ FileType' /\ LockType'
    BY <1>0, <1>1, <2>1, <2>2 DEF GateType, FileType, LockType, DataType
  <2>4. StreamType'
    BY <1>0, <1>1, <2>1 DEF StreamType, SetState, HandlerStates
  <2>5. DrainedIsComplete' /\ StreamsInOrder'
    BY <1>0, <1>1, <2>1, SetStateInOrder DEF DrainedIsComplete
  <2>6. QED
    BY <1>1, <2>2, <2>3, <2>4, <2>5
       DEF TypeOK, DataType, GateType, FileType, StreamType, SubscriberType, LockType, GateInv
<1>5. QED
  BY <1>2, <1>3, <1>4

LEMMA SnapshotGate ==
    ASSUME TypeOK, GateInv, NEW s \in Streams, NEW t \in Seconds, NEW k \in Nat,
           ReceiveSnapshot(s, t, k)
    PROVE  TypeOK' /\ GateInv'
<1>0. /\ DataType /\ GateType /\ FileType
      /\ StreamType /\ SubscriberType /\ LockType
      /\ GateInv
  BY TypeParts
<1> DEFINE p == PointOf(t, Added(s, t)[t])
<1>1. /\ p \in Points
      /\ Added(s, t) \in [Seconds -> Counts]
  BY <1>0, AddedSums DEF DataType
<1>2. /\ buckets' = Added(s, t)
      /\ timeline' = WithPoint(p)
      /\ BroadcastPoint(p)
      /\ snapshots' = snapshots + 1 /\ snapshots < MaxSnapshots
      /\ errorRecords' = RecordsAfter(errorRecords, k)
      /\ last' = [last EXCEPT ![s] = t]
      /\ UNCHANGED <<gateVars, lock, fileVars, calls, st, runOver, sub, wants, history,
                     out, view, faults>>
  BY DEF ReceiveSnapshot
<1> HIDE DEF p
<1>3. timeline' \in Seq(Points)
  BY <1>0, <1>1, <1>2, WithPointShape DEF DataType
<1>4. DataType'
  <2>1. snapshots' \in 0..MaxSnapshots
    BY <1>0, <1>2, BoundsAssumption DEF DataType
  <2>2. errorRecords' \in 0..MaxErrorRecords
    BY <1>0, <1>2, RecordsBounded DEF DataType
  <2>3. QED
    BY <1>1, <1>2, <1>3, <2>1, <2>2 DEF DataType
<1>5. SubscriberType'
  BY <1>0, <1>1, <1>2, BroadcastShape DEF SubscriberType
<1>6. StreamType'
  BY <1>0, <1>2, BoundsAssumption DEF StreamType, Seconds
<1>7. GateType' /\ FileType' /\ LockType' /\ GateInv'
  BY <1>0, <1>2 DEF GateType, FileType, LockType, GateInv, ConnectedIsExact,
                    DrainedIsComplete, StreamsInOrder, gateVars, fileVars
<1>8. QED
  BY <1>4, <1>5, <1>6, <1>7
     DEF TypeOK, DataType, GateType, FileType, StreamType, SubscriberType, LockType

\* Whatever ends the tasks of subscribers.
LEMMA TasksEndType ==
    ASSUME SubscriberType, LockType, NEW U, TasksEnd(U)
    PROVE  SubscriberType' /\ lock' \in {"free"} \cup Subscribers
<1>1. << >> \in Seq(Points) /\ Len(<< >>) = 0
  OBVIOUS
<1>2. NoView \in [Seconds -> Counts]
  BY DEF NoView, Empty, Counts
<1>3. /\ liveQ' \in [Subscribers -> Seq(Points)]
      /\ \A u \in Subscribers : Len(liveQ'[u]) <= LiveCapacity
  BY <1>1, BoundsAssumption DEF TasksEnd, SubscriberType
<1>4. view' \in [Subscribers -> [Seconds -> Counts]]
  BY <1>2 DEF TasksEnd, SubscriberType
<1>5. /\ sub' \in [Subscribers -> {"off", "subscribed", "history", "live", "ended"}]
      /\ history' \in [Subscribers -> Nat \ {0}]
      /\ out' \in [Subscribers -> 0..OutCapacity]
      /\ wants' \in [Subscribers -> BOOLEAN]
  BY BoundsAssumption DEF TasksEnd, SubscriberType
<1>6. lagged' \in [Subscribers -> BOOLEAN]
  BY DEF TasksEnd
<1>7. lock' \in {"free"} \cup Subscribers
  BY DEF TasksEnd, LockType
<1>8. QED
  BY <1>3, <1>4, <1>5, <1>6, <1>7 DEF SubscriberType

LEMMA AroundGate ==
    ASSUME TypeOK, GateInv,
           \/ \E w \in Workers : OpenStream(w)
           \/ ForceComplete \/ WriteFiles \/ RunEnds \/ Restart
    PROVE  TypeOK' /\ GateInv'
<1>0. /\ DataType /\ GateType /\ FileType
      /\ StreamType /\ SubscriberType /\ LockType
      /\ ConnectedIsExact /\ DrainedIsComplete /\ StreamsInOrder
  BY TypeParts DEF GateInv
<1>1. CASE \E w \in Workers : OpenStream(w)
  <2>1. PICK w \in Workers : OpenStream(w)
    BY <1>1
  <2> DEFINE new == <<w, calls[w] + 1>>
  <2>2. /\ calls[w] \in 0..MaxStreams /\ calls[w] < MaxStreams
        /\ calls' = [calls EXCEPT ![w] = @ + 1]
        /\ SetState(new, "accepted")
        /\ UNCHANGED <<dataVars, gateVars, lock, fileVars, last, runOver, subVars, faults>>
    BY <1>0, <2>1 DEF OpenStream, StreamType
  <2>3. calls[w] + 1 \in 1..MaxStreams
    BY <2>2, BoundsAssumption
  <2>4. new \in Streams /\ st[new] = "none"
    BY <1>0, <2>2, <2>3 DEF Streams, StreamsInOrder
  <2>5. StreamsInOrder'
    <3> SUFFICES ASSUME NEW v \in Workers, NEW k \in 1..MaxStreams, k > calls'[v]
                 PROVE  st'[<<v, k>>] = "none"
      BY DEF StreamsInOrder
    <3>1. k > calls[v] /\ <<v, k>> # new
      BY <1>0, <2>2, <2>3 DEF StreamType
    <3>2. st'[<<v, k>>] = st[<<v, k>>]
      BY <1>0, <2>2, <3>1 DEF SetState, StreamType, Streams
    <3>3. QED
      BY <1>0, <3>1, <3>2 DEF StreamsInOrder
  <2> HIDE DEF new
  <2>6. ConnectedIsExact'
    BY <1>0, <2>2, <2>4, CountFollows DEF Counted, gateVars
  <2>7. StreamType'
    <3>1. calls[w] + 1 \in 0..MaxStreams
      BY <2>3, BoundsAssumption
    <3>2. calls' \in [Workers -> 0..MaxStreams]
      BY <1>0, <2>2, <3>1 DEF StreamType
    <3>3. st' \in [Streams -> HandlerStates]
      BY <1>0, <2>2, <2>4 DEF StreamType, SetState, HandlerStates
    <3>4. last' \in [Streams -> 0..MaxSecond] /\ runOver' \in BOOLEAN
      BY <1>0, <2>2 DEF StreamType
    <3>5. QED
      BY <3>2, <3>3, <3>4 DEF StreamType
  <2>8. /\ DataType' /\ GateType' /\ FileType' /\ SubscriberType' /\ LockType'
        /\ DrainedIsComplete'
    BY <1>0, <2>2 DEF DataType, GateType, FileType, SubscriberType, LockType,
                      DrainedIsComplete, dataVars, gateVars, fileVars, subVars
  <2>9. QED
    BY <2>5, <2>6, <2>7, <2>8
       DEF TypeOK, DataType, GateType, FileType, StreamType, SubscriberType, LockType, GateInv
<1>2. CASE ForceComplete \/ WriteFiles \/ RunEnds
  <2>1. /\ UNCHANGED <<dataVars, connected, hadWorkers, lock, calls, st, last, subVars,
                       faults>>
        /\ agg' \in {agg, "complete"}
        /\ saving' \in {saving, buckets, NoData}
        /\ file' \in {file, saving}
        /\ runOver' \in {runOver, TRUE}
    BY <1>2 DEF ForceComplete, WriteFiles, RunEnds, CompleteAggregation, gateVars, fileVars,
                streamVars
  <2>2. DataType' /\ GateType' /\ SubscriberType' /\ LockType'
    BY <1>0, <2>1 DEF DataType, GateType, SubscriberType, LockType, dataVars, subVars
  <2>3. FileType'
    BY <1>0, <2>1 DEF FileType, DataType
  <2>4. runOver' \in BOOLEAN
    BY <1>0, <2>1, Zenon DEF StreamType
  <2>5. StreamType'
    BY <1>0, <2>1, <2>4 DEF StreamType
  <2>6. ConnectedIsExact' /\ DrainedIsComplete' /\ StreamsInOrder'
    BY <1>0, <2>1 DEF ConnectedIsExact, DrainedIsComplete, StreamsInOrder
  <2>7. QED
    BY <2>2, <2>3, <2>5, <2>6
       DEF TypeOK, DataType, GateType, FileType, StreamType, SubscriberType, LockType, GateInv
<1>3. CASE Restart
  <2>1. /\ buckets' = [t \in Seconds |-> Empty]
        /\ timeline' = << >> /\ snapshots' = 0 /\ errorRecords' = 0
        /\ connected' = 0 /\ hadWorkers' = FALSE /\ agg' = "collecting"
        /\ saving' = NoData
        /\ st' = [s \in Streams |-> IF st[s] = "none" THEN "none" ELSE "closed"]
        /\ last' = [s \in Streams |-> 0]
        /\ Fault
        /\ UNCHANGED <<file, calls, runOver>>
    BY <1>3 DEF Restart
  <2>2. Empty \in Counts /\ << >> \in Seq(Points)
    BY DEF Empty, Counts
  <2>3. DataType' /\ FileType'
    BY <1>0, <2>1, <2>2, BoundsAssumption DEF DataType, FileType
  <2>4. Counted' = {}
    BY <2>1 DEF Counted
  <2>5. GateType'
    <3>1. Cardinality(Streams) \in Nat
      BY FiniteStreams, FS_CardinalityType
    <3>2. 0 \in 0..Cardinality(Streams)
      BY <3>1
    <3>3. QED
      BY <2>1, <3>2 DEF GateType
  <2>6. StreamType'
    BY <1>0, <2>1, BoundsAssumption DEF StreamType, HandlerStates
  <2>7. SubscriberType' /\ LockType'
    <3>1. TasksEnd({u \in Subscribers : Listening(u)})
      BY <1>3 DEF Restart
    <3>2. SubscriberType' /\ lock' \in {"free"} \cup Subscribers
      BY <1>0, <3>1, TasksEndType
    <3>3. faults' \in 0..MaxFaults
      BY <1>0, <2>1, FaultType
    <3>4. QED
      BY <3>2, <3>3 DEF LockType
  <2>8. ConnectedIsExact' /\ DrainedIsComplete'
    BY <2>1, <2>4, FS_EmptySet DEF ConnectedIsExact, DrainedIsComplete, Counted
  <2>9. StreamsInOrder'
    BY <1>0, <2>1 DEF StreamsInOrder, Streams
  <2>10. QED
    BY <2>3, <2>5, <2>6, <2>7, <2>8, <2>9
       DEF TypeOK, DataType, GateType, FileType, StreamType, SubscriberType, LockType, GateInv
<1>4. QED
  BY <1>1, <1>2, <1>3

LEMMA SubscriberGate ==
    ASSUME TypeOK, GateInv, NEW u \in Subscribers, SubscriberTask(u) \/ Client(u)
    PROVE  TypeOK' /\ GateInv'
<1>0. /\ DataType /\ GateType /\ FileType
      /\ StreamType /\ SubscriberType /\ LockType
      /\ GateInv
  BY TypeParts
<1>1. UNCHANGED <<dataVars, gateVars, fileVars, streamVars, faults>>
  BY DEF SubscriberTask, Client, StartHistory, SendHistory, EndHistory, Forward, LaggedEnds,
         Subscribe, ClientReads, ClientLeaves
<1>2. ASSUME NEW p \in Points, Put(u, p)
      PROVE  /\ out' \in [Subscribers -> 0..OutCapacity]
             /\ view' \in [Subscribers -> [Seconds -> Counts]]
  <2>1. [ingest |-> p.ingest, query |-> p.query] \in Counts /\ p.t \in Seconds
    BY DEF Points, Counts
  <2>2. view' \in [Subscribers -> [Seconds -> Counts]]
    BY <1>0, <1>2, <2>1 DEF Put, SubscriberType
  <2>3. out' \in [Subscribers -> 0..OutCapacity]
    BY <1>0, <1>2, BoundsAssumption DEF Put, SubscriberType
  <2>4. QED
    BY <2>2, <2>3
<1>3. SubscriberType' /\ lock' \in {"free"} \cup Subscribers
  <2>1. CASE Subscribe(u) \/ StartHistory(u) \/ EndHistory(u)
    <3>1. /\ sub' \in [Subscribers -> {"off", "subscribed", "history", "live", "ended"}]
          /\ UNCHANGED <<history, liveQ, lagged, out, view>>
      BY <1>0, <2>1 DEF Subscribe, StartHistory, EndHistory, SubscriberType
    <3>2. wants' \in [Subscribers -> BOOLEAN]
      BY <1>0, <2>1 DEF Subscribe, StartHistory, EndHistory, SubscriberType
    <3>3. lock' \in {"free"} \cup Subscribers
      BY <1>0, <2>1 DEF Subscribe, StartHistory, EndHistory, Unlock, LockType
    <3>4. QED
      BY <1>0, <3>1, <3>2, <3>3 DEF SubscriberType
  <2>2. CASE SendHistory(u)
    <3>1. history[u] \in 1..Len(timeline) /\ Put(u, timeline[history[u]])
      BY <1>0, <2>2 DEF SendHistory, SubscriberType, DataType
    <3>2. timeline[history[u]] \in Points
      BY <1>0, <3>1 DEF DataType
    <3>3. QED
      BY <1>0, <1>2, <2>2, <3>1, <3>2 DEF SendHistory, SubscriberType, LockType
  <2>3. CASE Forward(u)
    <3>1. liveQ[u] \in Seq(Points) /\ liveQ[u] # << >>
      BY <1>0, <2>3 DEF Forward, SubscriberType
    <3>2. /\ Head(liveQ[u]) \in Points
          /\ Tail(liveQ[u]) \in Seq(Points)
          /\ Len(Tail(liveQ[u])) = Len(liveQ[u]) - 1 /\ Len(liveQ[u]) \in Nat
      BY <3>1
    <3>3. Put(u, Head(liveQ[u])) /\ liveQ' = [liveQ EXCEPT ![u] = Tail(@)]
      BY <2>3 DEF Forward
    <3>4. /\ liveQ' \in [Subscribers -> Seq(Points)]
          /\ \A v \in Subscribers : Len(liveQ'[v]) <= LiveCapacity
      BY <1>0, <3>2, <3>3, BoundsAssumption DEF SubscriberType
    <3>5. QED
      BY <1>0, <1>2, <2>3, <3>2, <3>3, <3>4 DEF Forward, SubscriberType, LockType
  <2>4. CASE LaggedEnds(u) \/ ClientLeaves(u)
    BY <1>0, <2>4, TasksEndType DEF LaggedEnds, ClientLeaves
  <2>5. CASE ClientReads(u)
    BY <1>0, <2>5, BoundsAssumption DEF ClientReads, SubscriberType, LockType
  <2>6. QED
    BY <2>1, <2>2, <2>3, <2>4, <2>5 DEF SubscriberTask, Client
<1>4. DataType' /\ GateType' /\ FileType' /\ StreamType' /\ LockType'
  BY <1>0, <1>1, <1>3 DEF DataType, GateType, FileType, StreamType, LockType,
                          dataVars, gateVars, fileVars, streamVars
<1>5. GateInv'
  BY <1>0, <1>1 DEF GateInv, ConnectedIsExact, DrainedIsComplete, StreamsInOrder,
                    gateVars, streamVars
<1>6. QED
  BY <1>3, <1>4, <1>5
     DEF TypeOK, DataType, GateType, FileType, StreamType, SubscriberType, LockType

LEMMA NextGate == TypeOK /\ GateInv /\ [Next]_vars => TypeOK' /\ GateInv'
<1> SUFFICES ASSUME TypeOK, GateInv, [Next]_vars
             PROVE  TypeOK' /\ GateInv'
  OBVIOUS
<1>1. CASE UNCHANGED vars
  <2>1. TypeOK'
    BY <1>1 DEF TypeOK, vars, dataVars, gateVars, fileVars, streamVars, subVars
  <2>2. GateInv'
    BY <1>1 DEF GateInv, ConnectedIsExact, DrainedIsComplete, StreamsInOrder, vars,
                gateVars, streamVars
  <2>3. QED
    BY <2>1, <2>2
<1>2. ASSUME NEW s \in Streams, Handler(s)
      PROVE  TypeOK' /\ GateInv'
  <2>1. CASE \E t \in Seconds, records \in {0, 2} :
                ReceiveSnapshot(s, t, IF IsIngest(s) THEN 0 ELSE records)
    BY <2>1, SnapshotGate
  <2>2. QED
    BY <1>2, <2>1, HandlerGate DEF Handler
<1>3. QED
  BY <1>1, <1>2, AroundGate, SubscriberGate DEF Next

\* Every variable keeps its type: in particular the count of workers is never more
\* than the streams there are, and no channel holds more than its capacity.
THEOREM TypeCorrect == Spec => []TypeOK
<1>1. Init => TypeOK /\ GateInv
  BY InitAggregator DEF AggregatorInv
<1>2. QED
  BY <1>1, NextGate, PTL DEF Spec

\* connected_workers is exactly the number of handlers that were counted and have
\* not been uncounted (report_metrics, aggregator.rs:198-325).
THEOREM ConnectedAlwaysExact == Spec => []ConnectedIsExact
<1>1. Init => TypeOK /\ GateInv
  BY InitAggregator DEF AggregatorInv
<1>2. GateInv => ConnectedIsExact
  BY DEF GateInv
<1>3. QED
  BY <1>1, <1>2, NextGate, PTL DEF Spec

\* The aggregation is complete as soon as the last counted stream is gone.
THEOREM DrainedAlwaysComplete == Spec => []DrainedIsComplete
<1>1. Init => TypeOK /\ GateInv
  BY InitAggregator DEF AggregatorInv
<1>2. GateInv => DrainedIsComplete
  BY DEF GateInv
<1>3. QED
  BY <1>1, <1>2, NextGate, PTL DEF Spec
-----------------------------------------------------------------------------
(* The timeline *)

\* A snapshot changes the sums of one second and the point of that second.
LEMMA SnapshotTimeline ==
    ASSUME TypeOK, TimelineInv, NEW s, NEW t \in Seconds,
           buckets' = Added(s, t),
           timeline' = WithPoint(PointOf(t, Added(s, t)[t]))
    PROVE  TimelineInv'
<1> DEFINE p == PointOf(t, Added(s, t)[t])
           n == Len(timeline)
<1>1. /\ p \in Points /\ p.t = t /\ p = PointOf(t, buckets'[t])
      /\ buckets'[t] # Empty
      /\ \A x \in Seconds \ {t} : buckets'[x] = buckets[x]
  BY AddedSums DEF TypeOK
<1>2. /\ n \in Nat
      /\ \A j \in 1..n : timeline[j] \in Points /\ timeline[j].t \in Seconds
  <2>1. timeline \in Seq(Points)
    BY DEF TypeOK
  <2>2. n \in Nat /\ \A j \in 1..n : timeline[j] \in Points
    BY <2>1
  <2>3. QED
    BY <2>2 DEF Points
<1> HIDE DEF p
<1>3. /\ timeline' = WithPoint(p) /\ timeline \in Seq(Points)
      /\ WithPoint(p) \in Seq(Points)
  BY <1>1, WithPointShape DEF TypeOK
<1>4. \/ /\ \A j \in 1..n : timeline[j].t # p.t
         /\ Len(timeline') = n + 1
         /\ timeline'[n + 1] = p
         /\ \A j \in 1..n : timeline'[j] = timeline[j]
      \/ /\ \E j \in 1..n : timeline[j].t = p.t
         /\ Len(timeline') = n
         /\ \A j \in 1..n :
               timeline'[j] = IF timeline[j].t = p.t THEN p ELSE timeline[j]
  <2> DEFINE w == WithPoint(p)
  <2>1. \/ /\ \A j \in 1..Len(timeline) : timeline[j].t # p.t
           /\ Len(w) = Len(timeline) + 1
           /\ w[Len(timeline) + 1] = p
           /\ \A j \in 1..Len(timeline) : w[j] = timeline[j]
        \/ /\ \E j \in 1..Len(timeline) : timeline[j].t = p.t
           /\ Len(w) = Len(timeline)
           /\ \A j \in 1..Len(timeline) :
                 w[j] = IF timeline[j].t = p.t THEN p ELSE timeline[j]
    BY <1>1, <1>3, WithPointShape
  <2>2. timeline' = w
    BY <1>3
  <2> HIDE DEF w
  <2>3. QED
    BY <2>1, <2>2
<1>5. /\ \A j \in 1..n :
            /\ timeline[j] = PointOf(timeline[j].t, buckets[timeline[j].t])
            /\ buckets[timeline[j].t] # Empty
      /\ \A i, j \in 1..n : timeline[i].t = timeline[j].t => i = j
      /\ \A x \in Seconds : buckets[x] # Empty => \E j \in 1..n : timeline[j].t = x
  BY DEF TimelineInv
<1> HIDE DEF n
<1>6. CASE /\ \A j \in 1..n : timeline[j].t # p.t
           /\ Len(timeline') = n + 1
           /\ timeline'[n + 1] = p
           /\ \A j \in 1..n : timeline'[j] = timeline[j]
  <2>1. \A j \in 1..(n + 1) : j \in 1..n \/ j = n + 1
    BY <1>2
  <2>2. 1..n \subseteq 1..(n + 1) /\ n + 1 \in 1..(n + 1) /\ n + 1 \notin 1..n
    BY <1>2
  <2>3. \A j \in 1..(n + 1) :
            /\ timeline'[j] = PointOf(timeline'[j].t, buckets'[timeline'[j].t])
            /\ buckets'[timeline'[j].t] # Empty
    <3>1. ASSUME NEW j \in 1..n
          PROVE  /\ timeline'[j] = PointOf(timeline'[j].t, buckets'[timeline'[j].t])
                 /\ buckets'[timeline'[j].t] # Empty
      BY <1>1, <1>2, <1>5, <1>6
    <3>2. /\ timeline'[n + 1] = PointOf(timeline'[n + 1].t, buckets'[timeline'[n + 1].t])
          /\ buckets'[timeline'[n + 1].t] # Empty
      BY <1>1, <1>6
    <3>3. QED
      BY <2>1, <3>1, <3>2
  <2>4. \A i, j \in 1..(n + 1) : timeline'[i].t = timeline'[j].t => i = j
    BY <1>1, <1>5, <1>6, <2>1
  <2>5. ASSUME NEW x \in Seconds, buckets'[x] # Empty
        PROVE  \E j \in 1..(n + 1) : timeline'[j].t = x
    BY <1>1, <1>5, <1>6, <2>2, <2>5
  <2>6. QED
    BY <1>6, <2>3, <2>4, <2>5 DEF TimelineInv
<1>7. CASE /\ \E j \in 1..n : timeline[j].t = p.t
           /\ Len(timeline') = n
           /\ \A j \in 1..n :
                 timeline'[j] = IF timeline[j].t = p.t THEN p ELSE timeline[j]
  <2>1. \A j \in 1..n : timeline'[j].t = timeline[j].t
    BY <1>7
  <2>2. \A j \in 1..n :
            /\ timeline'[j] = PointOf(timeline'[j].t, buckets'[timeline'[j].t])
            /\ buckets'[timeline'[j].t] # Empty
    BY <1>1, <1>2, <1>5, <1>7
  <2>3. \A i, j \in 1..n : timeline'[i].t = timeline'[j].t => i = j
    BY <1>5, <2>1
  <2>4. ASSUME NEW x \in Seconds, buckets'[x] # Empty
        PROVE  \E j \in 1..n : timeline'[j].t = x
    BY <1>1, <1>5, <1>7, <2>1, <2>4
  <2>5. QED
    BY <1>7, <2>2, <2>3, <2>4 DEF TimelineInv
<1>8. QED
  BY <1>4, <1>6, <1>7

\* Only a snapshot and a restart touch the data.
LEMMA DataSteps ==
    ASSUME [Next]_vars
    PROVE  \/ UNCHANGED <<buckets, timeline>>
           \/ \E s \in Streams, t \in Seconds, k \in {0, 2} : ReceiveSnapshot(s, t, k)
           \/ Restart
<1>1. CASE UNCHANGED vars
  BY <1>1 DEF vars, dataVars
<1>2. CASE \/ \E w \in Workers : OpenStream(w)
           \/ ForceComplete \/ WriteFiles \/ RunEnds
  BY <1>2 DEF OpenStream, ForceComplete, WriteFiles, RunEnds, dataVars
<1>3. ASSUME NEW s \in Streams, Handler(s)
      PROVE  \/ UNCHANGED <<buckets, timeline>>
             \/ \E t \in Seconds, k \in {0, 2} : ReceiveSnapshot(s, t, k)
  <2>1. CASE CountWorker(s) \/ EndStream(s) \/ UncountWorker(s) \/ BreakStream(s)
    BY <2>1 DEF CountWorker, EndStream, UncountWorker, BreakStream, dataVars
  <2>2. CASE \E t \in Seconds, records \in {0, 2} :
                ReceiveSnapshot(s, t, IF IsIngest(s) THEN 0 ELSE records)
    BY <2>2
  <2>3. QED
    BY <1>3, <2>1, <2>2 DEF Handler
<1>4. ASSUME NEW u \in Subscribers, SubscriberTask(u) \/ Client(u)
      PROVE  UNCHANGED <<buckets, timeline>>
  BY <1>4 DEF SubscriberTask, Client, StartHistory, SendHistory, EndHistory, Forward,
              LaggedEnds, Subscribe, ClientReads, ClientLeaves, dataVars
<1>5. QED
  BY <1>1, <1>2, <1>3, <1>4 DEF Next

LEMMA NextTimeline == TypeOK /\ TimelineInv /\ [Next]_vars => TimelineInv'
<1> SUFFICES ASSUME TypeOK, TimelineInv, [Next]_vars
             PROVE  TimelineInv'
  OBVIOUS
<1>1. CASE UNCHANGED <<buckets, timeline>>
  BY <1>1 DEF TimelineInv
<1>2. CASE \E s \in Streams, t \in Seconds, k \in {0, 2} : ReceiveSnapshot(s, t, k)
  BY <1>2, SnapshotTimeline DEF ReceiveSnapshot
<1>3. CASE Restart
  <2>1. timeline' = << >> /\ buckets' = [t \in Seconds |-> Empty]
    BY <1>3 DEF Restart
  <2>2. \A j : j \notin 1..Len(timeline')
    BY <2>1
  <2>3. QED
    BY <2>1, <2>2 DEF TimelineInv
<1>4. QED
  BY <1>1, <1>2, <1>3, DataSteps

LEMMA TimelineInvMatches == TypeOK /\ TimelineInv => TimelineMatches
<1> SUFFICES ASSUME TypeOK, TimelineInv, NEW t \in Seconds
             PROVE  /\ {timeline[j] : j \in IndexOfSecond(t)}
                          = (IF buckets[t] = Empty THEN {} ELSE {PointOf(t, buckets[t])})
                    /\ Cardinality(IndexOfSecond(t)) <= 1
  BY DEF TimelineMatches
<1>1. CASE buckets[t] = Empty
  <2>1. IndexOfSecond(t) = {}
    BY <1>1 DEF IndexOfSecond, TimelineInv
  <2>2. {timeline[j] : j \in IndexOfSecond(t)} = {}
    BY <2>1
  <2>3. QED
    BY <1>1, <2>1, <2>2, FS_EmptySet
<1>2. CASE buckets[t] # Empty
  <2>1. PICK j \in 1..Len(timeline) : timeline[j].t = t
    BY <1>2 DEF TimelineInv
  <2>2. IndexOfSecond(t) = {j}
    BY <2>1 DEF IndexOfSecond, TimelineInv
  <2>3. timeline[j] = PointOf(t, buckets[t])
    BY <2>1 DEF TimelineInv
  <2>4. {timeline[i] : i \in IndexOfSecond(t)} = {PointOf(t, buckets[t])}
    BY <2>2, <2>3
  <2>5. Cardinality(IndexOfSecond(t)) = 1
    BY <2>2, FS_Singleton
  <2>6. Cardinality(IndexOfSecond(t)) <= 1
    BY <2>5
  <2>7. QED
    BY <1>2, <2>4, <2>6
<1>3. QED
  BY <1>1, <1>2

\* Every second with a snapshot has exactly one point, and it sums every snapshot of
\* the second, in whatever order the streams delivered them (try_aggregate_bucket,
\* and report_metrics that replaces or appends the point).
THEOREM TimelineAlwaysMatches == Spec => []TimelineMatches
<1>1. Init => TypeOK /\ GateInv /\ TimelineInv
  BY InitAggregator DEF AggregatorInv
<1>2. QED
  BY <1>1, NextGate, NextTimeline, TimelineInvMatches, PTL DEF Spec
-----------------------------------------------------------------------------
(* The views of the subscribers *)

\* A step that leaves a subscriber's task, its channels and the data alone.
LEMMA SameSubscriber ==
    ASSUME NEW v \in Subscribers, SubscriberInv(v), UNCHANGED <<buckets, timeline>>,
           sub'[v] = sub[v], wants'[v] = wants[v], history'[v] = history[v],
           liveQ'[v] = liveQ[v], lagged'[v] = lagged[v], view'[v] = view[v],
           sub[v] = "history" => lock' = lock
    PROVE  SubscriberInv(v)'
<1>1. Listening(v)' = Listening(v) /\ LatestQueued(v)' = LatestQueued(v)
  BY DEF Listening, LatestQueued
<1>2. \A t \in Seconds : Queued(v, t)' = Queued(v, t)
  BY DEF Queued
<1>3. QED
  BY <1>1, <1>2 DEF SubscriberInv

\* The snapshot's point is queued for everyone who listens, and nobody is being
\* sent the history while the mutex is free.
LEMMA SnapshotView ==
    ASSUME TypeOK, ViewInv, NEW s, NEW t \in Seconds, NEW k, ReceiveSnapshot(s, t, k)
    PROVE  ViewInv'
<1> DEFINE p == PointOf(t, Added(s, t)[t])
<1>1. /\ p \in Points /\ p.t = t /\ p = PointOf(t, buckets'[t])
      /\ \A x \in Seconds \ {t} : buckets'[x] = buckets[x]
  BY AddedSums DEF TypeOK, ReceiveSnapshot
<1>2. /\ BroadcastPoint(p) /\ lock = "free"
      /\ UNCHANGED <<sub, wants, history, view>>
  BY DEF ReceiveSnapshot
<1> HIDE DEF p
<1> SUFFICES ASSUME NEW u \in Subscribers
             PROVE  SubscriberInv(u)'
  BY DEF ViewInv
<1> DEFINE n == Len(liveQ[u])
<1>3. /\ SubscriberInv(u) /\ n \in Nat
      /\ \A j \in 1..n : liveQ[u][j].t \in Seconds
  <2>1. SubscriberInv(u) /\ liveQ[u] \in Seq(Points)
    BY DEF ViewInv, TypeOK
  <2>2. n \in Nat /\ \A j \in 1..n : liveQ[u][j] \in Points
    BY <2>1
  <2>3. QED
    BY <2>1, <2>2 DEF Points
<1>4. /\ lagged[u] => lagged'[u]
      /\ ~Listening(u) => liveQ'[u] = liveQ[u] /\ lagged'[u] = lagged[u]
      /\ Listening(u) /\ ~lagged'[u] =>
            /\ ~lagged[u]
            /\ Len(liveQ'[u]) = n + 1
            /\ liveQ'[u][n + 1] = p
            /\ \A j \in 1..n : liveQ'[u][j] = liveQ[u][j]
  BY <1>1, <1>2, BroadcastShape
<1>5. sub[u] # "history"
  BY <1>2, <1>3, SubscribersAssumption DEF SubscriberInv
<1>6. Listening(u)' = Listening(u)
  BY <1>2 DEF Listening
<1>7. ASSUME Listening(u), ~lagged'[u]
      PROVE  LatestQueued(u)'
  <2>1. LatestQueued(u)
    BY <1>3, <1>4, <1>7 DEF SubscriberInv
  <2> HIDE DEF n
  <2>2. SUFFICES ASSUME NEW j \in 1..(n + 1),
                        \A i \in (j + 1)..(n + 1) : liveQ'[u][i].t # liveQ'[u][j].t
                 PROVE  liveQ'[u][j] = PointOf(liveQ'[u][j].t, buckets'[liveQ'[u][j].t])
    BY <1>4, <1>7 DEF LatestQueued
  <2>3. CASE j = n + 1
    BY <1>1, <1>4, <1>7, <2>3
  <2>4. CASE j \in 1..n
    <3>1. n + 1 \in (j + 1)..(n + 1)
      BY <1>3, <2>4
    <3>2. liveQ'[u][j] = liveQ[u][j] /\ liveQ[u][j].t # t /\ liveQ[u][j].t \in Seconds
      BY <1>1, <1>3, <1>4, <1>7, <2>2, <2>4, <3>1
    <3>3. \A i \in (j + 1)..n : i \in 1..n /\ i \in (j + 1)..(n + 1)
      BY <1>3, <2>4
    <3>4. \A i \in (j + 1)..n : liveQ[u][i].t # liveQ[u][j].t
      BY <1>4, <1>7, <2>2, <2>4, <3>2, <3>3
    <3>5. liveQ[u][j] = PointOf(liveQ[u][j].t, buckets[liveQ[u][j].t])
      BY <2>1, <2>4, <3>4 DEF LatestQueued, n
    <3>6. QED
      BY <1>1, <3>2, <3>5
  <2>5. QED
    BY <1>3, <2>3, <2>4
<1>8. ASSUME sub[u] = "live", ~lagged'[u], NEW x \in Seconds, ~Queued(u, x)'
      PROVE  view[u][x] = buckets'[x] \/ (~wants[u] /\ view[u][x] = Empty)
  <2>1. Listening(u)
    BY <1>8 DEF Listening
  <2> HIDE DEF n
  <2>2. \A j \in 1..(n + 1) : liveQ'[u][j].t # x
    BY <1>4, <1>8, <2>1 DEF Queued
  <2>3. n + 1 \in 1..(n + 1) /\ 1..n \subseteq 1..(n + 1)
    BY <1>3
  <2>4. x # t
    BY <1>1, <1>4, <1>8, <2>1, <2>2, <2>3
  <2>5. ~Queued(u, x)
    BY <1>4, <1>8, <2>1, <2>2, <2>3 DEF Queued, n
  <2>6. QED
    BY <1>1, <1>3, <1>4, <1>8, <2>1, <2>4, <2>5 DEF SubscriberInv
<1>9. QED
  BY <1>2, <1>3, <1>4, <1>5, <1>6, <1>7, <1>8 DEF SubscriberInv, Listening

\* When tasks end, the mutex is freed only if one of them held it.
LEMMA TasksEndView ==
    ASSUME TypeOK, ViewInv, NEW U, TasksEnd(U), UNCHANGED <<buckets, timeline>>
    PROVE  ViewInv'
<1> SUFFICES ASSUME NEW v \in Subscribers
             PROVE  SubscriberInv(v)'
  BY DEF ViewInv
<1>1. CASE v \in U
  BY <1>1 DEF TasksEnd, SubscriberInv, Listening
<1>2. CASE v \notin U
  <2>1. /\ sub'[v] = sub[v] /\ wants'[v] = wants[v] /\ history'[v] = history[v]
        /\ liveQ'[v] = liveQ[v] /\ view'[v] = view[v]
    BY <1>2 DEF TasksEnd
  <2>2. lagged'[v] = lagged[v]
    BY <1>2 DEF TasksEnd, TypeOK
  <2>3. SubscriberInv(v)
    BY DEF ViewInv
  <2>4. sub[v] = "history" => lock' = lock
    BY <1>2, <2>3 DEF TasksEnd, SubscriberInv
  <2>5. QED
    BY <2>1, <2>2, <2>3, <2>4, SameSubscriber
<1>3. QED
  BY <1>1, <1>2

LEMMA RestartView ==
    ASSUME TypeOK, ViewInv, Restart
    PROVE  ViewInv'
<1> SUFFICES ASSUME NEW v \in Subscribers
             PROVE  SubscriberInv(v)'
  BY DEF ViewInv
<1>1. TasksEnd({u \in Subscribers : Listening(u)}) /\ SubscriberInv(v)
  BY DEF Restart, ViewInv
<1>2. CASE Listening(v)
  BY <1>1, <1>2 DEF TasksEnd, SubscriberInv, Listening
<1>3. CASE ~Listening(v)
  <2>1. /\ sub'[v] = sub[v] /\ history'[v] = history[v]
        /\ liveQ'[v] = liveQ[v] /\ view'[v] = view[v]
    BY <1>1, <1>3 DEF TasksEnd
  <2>2. lagged'[v] = lagged[v]
    BY <1>1, <1>3 DEF TasksEnd, TypeOK
  <2>3. QED
    BY <1>1, <1>3, <2>1, <2>2 DEF SubscriberInv, Listening
<1>4. QED
  BY <1>2, <1>3
\* A task that starts or stops sending the history.
LEMMA HistoryView ==
    ASSUME TypeOK, TimelineInv, ViewInv, NEW u \in Subscribers,
           Subscribe(u) \/ StartHistory(u) \/ EndHistory(u)
    PROVE  ViewInv'
<1> SUFFICES ASSUME NEW v \in Subscribers
             PROVE  SubscriberInv(v)'
  BY DEF ViewInv
<1>1. /\ SubscriberInv(u) /\ SubscriberInv(v)
      /\ sub \in [Subscribers -> {"off", "subscribed", "history", "live", "ended"}]
      /\ wants \in [Subscribers -> BOOLEAN]
      /\ UNCHANGED <<buckets, timeline, history, liveQ, lagged, view>>
  BY DEF ViewInv, TypeOK, Subscribe, StartHistory, EndHistory, dataVars
<1>2. LatestQueued(u)' = LatestQueued(u)
  BY <1>1 DEF LatestQueued
<1>3. ASSUME v # u
      PROVE  SubscriberInv(v)'
  <2>1. /\ sub'[v] = sub[v] /\ wants'[v] = wants[v]
        /\ lock' = lock \/ lock \in {"free", u}
    BY <1>1, <1>3 DEF Subscribe, StartHistory, EndHistory, SubscriberInv, ViewInv
  <2>2. sub[v] = "history" => lock' = lock
    BY <1>1, <1>3, <2>1, SubscribersAssumption DEF SubscriberInv
  <2>3. QED
    BY <1>1, <2>1, <2>2, SameSubscriber
<1>4. CASE v = u /\ Subscribe(u)
  <2>1. /\ sub[u] = "off" /\ liveQ[u] = << >> /\ ~lagged[u]
        /\ view[u] = NoView /\ history[u] = 1
        /\ \/ sub'[u] = "subscribed"
           \/ sub'[u] = "live" /\ wants'[u] = FALSE
    BY <1>1, <1>4 DEF Subscribe, SubscriberInv
  <2>2. LatestQueued(u)
    BY <2>1 DEF LatestQueued
  <2>3. \A t \in Seconds : view[u][t] = Empty
    BY <2>1 DEF NoView
  <2>4. QED
    BY <1>1, <1>2, <1>4, <2>1, <2>2, <2>3 DEF SubscriberInv, Listening
<1>5. CASE v = u /\ StartHistory(u)
  <2>1. /\ sub[u] = "subscribed" /\ view[u] = NoView /\ history[u] = 1
        /\ sub'[u] = "history" /\ lock' = u
    BY <1>1, <1>5 DEF StartHistory, SubscriberInv
  <2>2. ~lagged[u] => LatestQueued(u)
    BY <1>1, <2>1 DEF SubscriberInv, Listening
  <2>3. \A t \in Seconds : view[u][t] = Empty
    BY <2>1 DEF NoView
  <2>4. \A j \in 1..Len(timeline) : ~(j < 1)
    BY DEF TypeOK
  <2>5. QED
    BY <1>1, <1>2, <1>5, <2>1, <2>2, <2>3, <2>4 DEF SubscriberInv
<1>6. CASE v = u /\ EndHistory(u)
  <2>1. /\ sub[u] = "history" /\ sub'[u] = "live"
        /\ history[u] > Len(timeline)
    BY <1>1, <1>6 DEF EndHistory
  <2>2. ~lagged[u] => LatestQueued(u)
    BY <1>1, <2>1 DEF SubscriberInv, Listening
  <2>3. ASSUME NEW t \in Seconds
        PROVE  view[u][t] = buckets[t]
    <3>1. CASE buckets[t] = Empty
      BY <1>1, <2>1, <3>1 DEF SubscriberInv
    <3>2. CASE buckets[t] # Empty
      <4>1. PICK j \in 1..Len(timeline) : timeline[j].t = t
        BY <3>2 DEF TimelineInv
      <4>2. Len(timeline) \in Nat /\ history[u] \in Nat
        BY DEF TypeOK
      <4>3. j < history[u]
        BY <2>1, <4>2
      <4>4. QED
        BY <1>1, <2>1, <4>1, <4>3 DEF SubscriberInv
    <3>3. QED
      BY <3>1, <3>2
  <2>4. QED
    BY <1>1, <1>2, <1>6, <2>1, <2>2, <2>3 DEF SubscriberInv, Listening
<1>7. QED
  BY <1>3, <1>4, <1>5, <1>6

\* What a subscriber is sent replaces what it was sent before for the same second.
LEMMA PutShape ==
    ASSUME TypeOK, NEW u \in Subscribers, NEW p \in Points, Put(u, p)
    PROVE  /\ view'[u][p.t] = [ingest |-> p.ingest, query |-> p.query]
           /\ \A t \in Seconds \ {p.t} : view'[u][t] = view[u][t]
           /\ \A v \in Subscribers \ {u} : view'[v] = view[v]
           /\ p.t \in Seconds
           /\ p = PointOf(p.t, buckets[p.t]) => view'[u][p.t] = buckets[p.t]
<1>1. p.t \in Seconds
  BY DEF Points
<1>2. view \in [Subscribers -> [Seconds -> Counts]] /\ buckets[p.t] \in Counts
  BY <1>1 DEF TypeOK
<1>3. view' = [view EXCEPT ![u][p.t] = [ingest |-> p.ingest, query |-> p.query]]
  BY DEF Put
<1>4. p = PointOf(p.t, buckets[p.t])
         => [ingest |-> p.ingest, query |-> p.query] = buckets[p.t]
  BY <1>2 DEF PointOf, Counts
<1>5. QED
  BY <1>1, <1>2, <1>3, <1>4

\* One more point of the history has been sent.
LEMMA SendHistoryView ==
    ASSUME TypeOK, TimelineInv, ViewInv, NEW u \in Subscribers, SendHistory(u)
    PROVE  ViewInv'
<1> SUFFICES ASSUME NEW v \in Subscribers
             PROVE  SubscriberInv(v)'
  BY DEF ViewInv
<1> DEFINE h == history[u]
           p == timeline[h]
<1>1. /\ sub[u] = "history" /\ Put(u, p)
      /\ h \in Nat \ {0} /\ Len(timeline) \in Nat /\ h \in 1..Len(timeline)
      /\ history' = [history EXCEPT ![u] = @ + 1]
      /\ UNCHANGED <<buckets, timeline, lock, sub, wants, liveQ, lagged>>
      /\ SubscriberInv(u) /\ SubscriberInv(v)
  <2>1. /\ sub[u] = "history" /\ Put(u, p) /\ h <= Len(timeline)
        /\ history' = [history EXCEPT ![u] = @ + 1]
        /\ UNCHANGED <<buckets, timeline, lock, sub, wants, liveQ, lagged>>
    BY DEF SendHistory, dataVars
  <2>2. h \in Nat \ {0} /\ Len(timeline) \in Nat
    BY DEF TypeOK
  <2>3. h \in 1..Len(timeline)
    BY <2>1, <2>2
  <2>4. QED
    BY <2>1, <2>2, <2>3 DEF ViewInv
<1>2. p \in Points
  <2>1. timeline \in Seq(Points)
    BY DEF TypeOK
  <2>2. QED
    BY <1>1, <2>1
<1>3. /\ p = PointOf(p.t, buckets[p.t]) /\ buckets[p.t] # Empty
      /\ \A j \in 1..Len(timeline) : timeline[j].t = p.t => j = h
  BY <1>1 DEF TimelineInv
<1> HIDE DEF p
<1>4. /\ view'[u][p.t] = buckets[p.t]
      /\ \A t \in Seconds \ {p.t} : view'[u][t] = view[u][t]
      /\ \A w \in Subscribers \ {u} : view'[w] = view[w]
  <2>1. Put(u, p)
    BY <1>1
  <2>2. /\ \A t \in Seconds \ {p.t} : view'[u][t] = view[u][t]
        /\ \A w \in Subscribers \ {u} : view'[w] = view[w]
        /\ p = PointOf(p.t, buckets[p.t]) => view'[u][p.t] = buckets[p.t]
    BY <1>2, <2>1, PutShape
  <2>3. QED
    BY <1>3, <2>2
<1>5. CASE v # u
  <2>1. history'[v] = history[v]
    BY <1>1, <1>5 DEF TypeOK
  <2>2. QED
    BY <1>1, <1>4, <1>5, <2>1, SameSubscriber
<1>6. CASE v = u
  <2>1. history'[u] = h + 1
    BY <1>1 DEF TypeOK
  <2>2. LatestQueued(u)' = LatestQueued(u)
    BY <1>1 DEF LatestQueued
  <2>3. ASSUME NEW j \in 1..Len(timeline), j < h + 1
        PROVE  view'[u][timeline[j].t] = buckets[timeline[j].t]
    <3>1. CASE j = h
      BY <1>4, <3>1 DEF p
    <3>2. CASE j # h
      <4>1. j < h
        BY <1>1, <2>3, <3>2
      <4>2. timeline[j].t # p.t /\ timeline[j].t \in Seconds
        <5>1. timeline \in Seq(Points)
          BY DEF TypeOK
        <5>2. timeline[j] \in Points
          BY <5>1
        <5>3. QED
          BY <1>3, <3>2, <5>2 DEF Points
      <4>3. view[u][timeline[j].t] = buckets[timeline[j].t]
        BY <1>1, <4>1 DEF SubscriberInv
      <4>4. QED
        BY <1>4, <4>2, <4>3
    <3>3. QED
      BY <3>1, <3>2
  <2>4. ASSUME NEW t \in Seconds, buckets[t] = Empty
        PROVE  view'[u][t] = Empty
    BY <1>1, <1>3, <1>4, <2>4 DEF SubscriberInv
  <2>5. QED
    BY <1>1, <1>6, <2>1, <2>2, <2>3, <2>4 DEF SubscriberInv, Listening
<1>7. QED
  BY <1>5, <1>6

\* The oldest queued point has been sent.
LEMMA ForwardView ==
    ASSUME TypeOK, ViewInv, NEW u \in Subscribers, Forward(u)
    PROVE  ViewInv'
<1> SUFFICES ASSUME NEW v \in Subscribers
             PROVE  SubscriberInv(v)'
  BY DEF ViewInv
<1> DEFINE q == liveQ[u]
           p == Head(q)
           n == Len(q)
<1>1. /\ sub[u] = "live" /\ ~lagged[u] /\ q # << >> /\ Put(u, p)
      /\ liveQ' = [liveQ EXCEPT ![u] = Tail(@)]
      /\ UNCHANGED <<buckets, timeline, lock, sub, wants, history, lagged>>
      /\ SubscriberInv(u) /\ SubscriberInv(v)
  BY DEF Forward, dataVars, ViewInv
<1>2. /\ liveQ \in [Subscribers -> Seq(Points)]
      /\ liveQ'[u] = Tail(q) /\ \A w \in Subscribers \ {u} : liveQ'[w] = liveQ[w]
  BY <1>1 DEF TypeOK
<1> HIDE DEF q
<1>3. q \in Seq(Points)
  BY <1>2 DEF q
<1>4. /\ p \in Points /\ p = q[1] /\ n \in Nat \ {0}
      /\ Len(Tail(q)) = n - 1
      /\ \A j \in 1..(n - 1) : Tail(q)[j] = q[j + 1]
  <2>1. n \in Nat \ {0}
    BY <1>1, <1>3
  <2>2. p = q[1] /\ p \in Points
    BY <1>3, <2>1
  <2>3. Len(Tail(q)) = n - 1
    BY <1>1, <1>3
  <2>4. \A j \in 1..(n - 1) : Tail(q)[j] = q[j + 1]
    BY <1>1, <1>3
  <2>5. QED
    BY <2>1, <2>2, <2>3, <2>4
<1> HIDE DEF p, n
<1>5. /\ p = PointOf(p.t, buckets[p.t]) => view'[u][p.t] = buckets[p.t]
      /\ \A t \in Seconds \ {p.t} : view'[u][t] = view[u][t]
      /\ \A w \in Subscribers \ {u} : view'[w] = view[w]
  <2>1. Put(u, p)
    BY <1>1
  <2>2. QED
    BY <1>4, <2>1, PutShape
<1>6. CASE v # u
  BY <1>1, <1>2, <1>5, <1>6, SameSubscriber
<1>7. CASE v = u
  <2>1. /\ \A j \in 1..n :
              (\A i \in (j + 1)..n : q[i].t # q[j].t)
                  => q[j] = PointOf(q[j].t, buckets[q[j].t])
        /\ \A x \in Seconds :
              (\A j \in 1..n : q[j].t # x) =>
                  view[u][x] = buckets[x] \/ (~wants[u] /\ view[u][x] = Empty)
    BY <1>1 DEF SubscriberInv, Listening, LatestQueued, Queued, q, n
  <2>2. ASSUME NEW j \in 1..(n - 1),
               \A i \in (j + 1)..(n - 1) : q[i + 1].t # q[j + 1].t
        PROVE  q[j + 1] = PointOf(q[j + 1].t, buckets[q[j + 1].t])
    <3>1. j + 1 \in 1..n
      BY <1>4
    <3>2. ASSUME NEW i \in (j + 2)..n
          PROVE  q[i].t # q[j + 1].t
      <4>1. i - 1 \in (j + 1)..(n - 1) /\ (i - 1) + 1 = i
        BY <1>4
      <4>2. QED
        BY <2>2, <4>1
    <3>3. (j + 1) + 1 = j + 2
      OBVIOUS
    <3>4. QED
      BY <2>1, <3>1, <3>2, <3>3
  <2>3. LatestQueued(u)'
    <3> DEFINE r == Tail(q)
    <3>a. liveQ'[u] = r /\ Len(r) = n - 1 /\ buckets' = buckets
      BY <1>1, <1>2, <1>4
    <3>b. \A j \in 1..(n - 1) : r[j] = q[j + 1]
      BY <1>4
    <3> HIDE DEF r
    <3> SUFFICES ASSUME NEW j \in 1..(n - 1),
                        \A i \in (j + 1)..(n - 1) : r[i].t # r[j].t
                 PROVE  r[j] = PointOf(r[j].t, buckets[r[j].t])
      BY <3>a DEF LatestQueued, PointOf
    <3>1. r[j] = q[j + 1]
      BY <3>b
    <3>2. \A i \in (j + 1)..(n - 1) : i \in 1..(n - 1)
      BY <1>4
    <3>3. \A i \in (j + 1)..(n - 1) : q[i + 1].t # q[j + 1].t
      BY <3>b, <3>1, <3>2
    <3>4. QED
      BY <2>2, <3>1, <3>3
  <2>4. ASSUME NEW x \in Seconds, ~Queued(u, x)'
        PROVE  view'[u][x] = buckets[x] \/ (~wants[u] /\ view'[u][x] = Empty)
    <3>1. \A j \in 1..(n - 1) : q[j + 1].t # x
      BY <1>2, <1>4, <2>4 DEF Queued
    <3>2. ASSUME NEW i \in 2..n
          PROVE  q[i].t # x
      <4>1. i - 1 \in 1..(n - 1) /\ (i - 1) + 1 = i
        BY <1>4
      <4>2. QED
        BY <3>1, <4>1
    <3>3. CASE x = p.t
      <4>1. 1 \in 1..n /\ 1 + 1 = 2
        BY <1>4
      <4>2. p = PointOf(p.t, buckets[p.t])
        BY <1>4, <2>1, <3>2, <3>3, <4>1
      <4>3. QED
        BY <1>5, <3>3, <4>2
    <3>4. CASE x # p.t
      <4>1. \A j \in 1..n : j = 1 \/ j \in 2..n
        BY <1>4
      <4>2. \A j \in 1..n : q[j].t # x
        BY <1>4, <3>2, <3>4, <4>1
      <4>3. QED
        BY <1>5, <2>1, <3>4, <4>2
    <3>5. QED
      BY <3>3, <3>4
  <2>5. QED
    BY <1>1, <1>7, <2>3, <2>4 DEF SubscriberInv, Listening
<1>8. QED
  BY <1>6, <1>7

LEMMA NextView == TypeOK /\ TimelineInv /\ ViewInv /\ [Next]_vars => ViewInv'
<1> SUFFICES ASSUME TypeOK, TimelineInv, ViewInv, [Next]_vars
             PROVE  ViewInv'
  OBVIOUS
<1>1. CASE UNCHANGED <<buckets, timeline, lock, sub, wants, history, liveQ, lagged, view>>
  BY <1>1, SameSubscriber DEF ViewInv
<1>2. CASE UNCHANGED vars
  BY <1>1, <1>2 DEF vars, dataVars, subVars
<1>3. CASE \/ \E w \in Workers : OpenStream(w)
           \/ ForceComplete \/ WriteFiles \/ RunEnds
  BY <1>1, <1>3 DEF OpenStream, ForceComplete, WriteFiles, RunEnds, dataVars, subVars
<1>4. CASE Restart
  BY <1>4, RestartView
<1>5. ASSUME NEW s \in Streams, Handler(s)
      PROVE  ViewInv'
  <2>1. CASE CountWorker(s) \/ EndStream(s) \/ UncountWorker(s) \/ BreakStream(s)
    BY <1>1, <2>1
       DEF CountWorker, EndStream, UncountWorker, BreakStream, dataVars, subVars
  <2>2. CASE \E t \in Seconds, records \in {0, 2} :
                ReceiveSnapshot(s, t, IF IsIngest(s) THEN 0 ELSE records)
    BY <2>2, SnapshotView
  <2>3. QED
    BY <1>5, <2>1, <2>2 DEF Handler
<1>6. ASSUME NEW u \in Subscribers, SubscriberTask(u) \/ Client(u)
      PROVE  ViewInv'
  <2>1. CASE Subscribe(u) \/ StartHistory(u) \/ EndHistory(u)
    BY <2>1, HistoryView
  <2>2. CASE SendHistory(u)
    BY <2>2, SendHistoryView
  <2>3. CASE Forward(u)
    BY <2>3, ForwardView
  <2>4. CASE LaggedEnds(u) \/ ClientLeaves(u)
    BY <2>4, TasksEndView DEF LaggedEnds, ClientLeaves, dataVars
  <2>5. CASE ClientReads(u)
    BY <1>1, <2>5 DEF ClientReads, dataVars
  <2>6. QED
    BY <1>6, <2>1, <2>2, <2>3, <2>4, <2>5 DEF SubscriberTask, Client
<1>7. QED
  BY <1>2, <1>3, <1>4, <1>5, <1>6 DEF Next

\* A subscriber that is sent live points, has not lagged and has nothing queued has
\* the current point of every second it was to see: nothing falls between the end of
\* the history and the first live point (stream_metrics, aggregator.rs:327-359).
THEOREM ViewAlwaysCurrent == Spec => []ViewIsCurrent
<1>1. Init => TypeOK /\ GateInv /\ TimelineInv /\ ViewInv
  BY InitAggregator DEF AggregatorInv
<1>2. ViewInv => ViewIsCurrent
  <2> SUFFICES ASSUME ViewInv, NEW u \in Subscribers,
                      sub[u] = "live", ~lagged[u], liveQ[u] = << >>, NEW t \in Seconds
               PROVE  view[u][t] = buckets[t] \/ (~wants[u] /\ view[u][t] = Empty)
    BY DEF ViewIsCurrent
  <2>1. ~Queued(u, t)
    BY DEF Queued
  <2>2. QED
    BY <2>1 DEF ViewInv, SubscriberInv
<1>3. QED
  BY <1>1, <1>2, NextGate, NextTimeline, NextView, PTL DEF Spec
=============================================================================
