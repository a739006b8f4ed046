-------------------------- MODULE PhaseGateProofs --------------------------
(***************************************************************************)
(* Theorems about PhaseGate for every set of workers, number of phases and *)
(* bound on lives, boots and failures: types, the counters and registry of *)
(* the barrier, the timeline that is reported complete was held phase by   *)
(* phase, and every worker enters the phases one after the other.          *)
(***************************************************************************)
EXTENDS PhaseGate, FiniteSetTheorems, SequenceTheorems, TLAPS

\* Inside an iteration of the timeline loop the index is that of a phase.
LoopBound ==
    pc \in {"mark", "prepare", "acks", "transition", "hold"} => i < NumPhases

TypeInv == TypeOK /\ LoopBound

\* A message of the controller is typed when its phase is an index of the loop.
LEMMA MessageType ==
    ASSUME NEW t \in {"prepare", "transition", "complete"}, NEW p \in 0..NumPhases
    PROVE  Message(t, p) \in ControllerMessage
BY DEF Message, ControllerMessage

LEMMA BroadcastType ==
    ASSUME TypeOK, NEW m \in ControllerMessage, Broadcast(m)
    PROVE  toWorker' \in [Workers -> Seq(ControllerMessage)]
<1>1. \A w \in Workers : Append(toWorker[w], m) \in Seq(ControllerMessage)
  BY DEF TypeOK
<1>2. QED
  BY <1>1 DEF Broadcast, TypeOK

LEMMA EmptyQueues ==
    /\ [s \in Streams |-> << >>] \in [Streams -> Seq(WorkerMessage)]
    /\ [w \in Workers |-> << >>] \in [Workers -> Seq(ControllerMessage)]
<1>1. << >> \in Seq(WorkerMessage) /\ << >> \in Seq(ControllerMessage)
  OBVIOUS
<1>2. QED
  BY <1>1

LEMMA InitType == Init => TypeInv
<1> SUFFICES ASSUME Init
             PROVE  TypeInv
  OBVIOUS
<1>1. /\ toServer \in [Streams -> Seq(WorkerMessage)]
      /\ toWorker \in [Workers -> Seq(ControllerMessage)]
      /\ events \in [Workers -> Seq(ControllerMessage)]
  BY EmptyQueues DEF Init
<1>2. /\ workers \in [Workers -> 0..MaxLives]
      /\ life \in [Workers -> 0..MaxLives]
      /\ wphase \in [Workers -> 0..NumPhases]
  BY CountsAssumption DEF Init
<1>3. /\ srvOpen \in [Streams -> BOOLEAN]
      /\ named \in [Streams -> BOOLEAN]
      /\ linkUp \in [Workers -> BOOLEAN]
      /\ evOpen \in [Workers -> BOOLEAN]
      /\ wpc \in [Workers -> {"off", "waiting", "running"}]
  BY Zenon DEF Init
<1>4. LoopBound
  BY DEF Init, LoopBound
<1>5. /\ pc = "down" /\ i \in 0..NumPhases /\ resume \in 0..NumPhases
      /\ curIdx \in 0..NumPhases /\ checkpoint \in 0..NumPhases
      /\ boots \in 0..MaxBoots /\ faults \in 0..MaxFaults
      /\ prepareAcks \in Nat /\ readyIngest \in Nat /\ readyQuery \in Nat
  BY CountsAssumption DEF Init
<1>6. /\ seen \subseteq Workers
      /\ held \subseteq 0..NumPhases
      /\ runStarted \in BOOLEAN /\ complete \in BOOLEAN /\ allReady \in BOOLEAN
  BY DEF Init
<1>7. QED
  BY <1>1, <1>2, <1>3, <1>4, <1>5, <1>6 DEF TypeInv, TypeOK

LEMMA ProcessEndsType ==
    ASSUME TypeInv, ProcessEnds, UNCHANGED <<checkpoint, held>>,
           boots' \in 0..MaxBoots, faults' \in 0..MaxFaults
    PROVE  TypeInv'
<1>1. toServer' \in [Streams -> Seq(WorkerMessage)]
  BY EmptyQueues DEF ProcessEnds
<1>2. workers' \in [Workers -> 0..MaxLives]
  BY CountsAssumption DEF ProcessEnds
<1>3. /\ srvOpen' \in [Streams -> BOOLEAN]
      /\ named' \in [Streams -> BOOLEAN]
      /\ linkUp' \in [Workers -> BOOLEAN]
  BY Zenon DEF ProcessEnds
<1>4. LoopBound'
  BY DEF ProcessEnds, LoopBound
<1>5. /\ pc' = "down" /\ i' \in 0..NumPhases /\ resume' \in 0..NumPhases
      /\ curIdx' \in 0..NumPhases
      /\ prepareAcks' \in Nat /\ readyIngest' \in Nat /\ readyQuery' \in Nat
  BY CountsAssumption DEF ProcessEnds
<1>6. /\ seen' \subseteq Workers
      /\ runStarted' \in BOOLEAN /\ complete' \in BOOLEAN
      /\ allReady' \in BOOLEAN
  BY DEF ProcessEnds
<1>7. /\ wpc' = wpc /\ life' = life /\ toWorker' = toWorker
      /\ evOpen' = evOpen /\ events' = events /\ wphase' = wphase
      /\ checkpoint' = checkpoint /\ held' = held
  BY DEF ProcessEnds
<1>8. QED
  BY <1>1, <1>2, <1>3, <1>4, <1>5, <1>6, <1>7 DEF TypeInv, TypeOK

LEMMA MainTaskType ==
    ASSUME TypeInv, MainTask
    PROVE  TypeInv'
<1> USE CountsAssumption DEF TypeInv, LoopBound, mainVars, stateVars, gateVars,
        serverVars, workerVars, envVars
<1>1. CASE AllReadyReceived
  BY <1>1 DEF AllReadyReceived, TypeOK
<1>2. CASE SkipPhase
  BY <1>2 DEF SkipPhase, MorePhases, TypeOK
<1>3. CASE WriteCheckpoint
  <2>1. checkpoint' \in 0..NumPhases
    BY <1>3 DEF WriteCheckpoint, MorePhases, CheckpointValue, TypeOK
  <2>2. faults' \in 0..MaxFaults
    BY <1>3 DEF WriteCheckpoint, Fault, TypeOK
  <2>3. /\ pc = "loop" /\ pc' = "mark" /\ i < NumPhases
        /\ UNCHANGED <<i, resume, stateVars, gateVars, serverVars, workerVars, boots,
                       held>>
    BY <1>3 DEF WriteCheckpoint, MorePhases
  <2>4. QED
    BY <2>1, <2>2, <2>3 DEF TypeOK
<1>4. CASE MarkPhase
  BY <1>4 DEF MarkPhase, NeedsPrepare, TypeOK
<1>5. CASE SendPrepare
  <2>1. Message("prepare", i) \in ControllerMessage
    BY MessageType DEF TypeOK
  <2>2. toWorker' \in [Workers -> Seq(ControllerMessage)]
    BY <1>5, <2>1, BroadcastType DEF SendPrepare
  <2>3. QED
    BY <1>5, <2>2 DEF SendPrepare, TypeOK
<1>6. CASE AckPause
  BY <1>6 DEF AckPause, TypeOK
<1>7. CASE SendTransition
  <2>1. Message("transition", i) \in ControllerMessage
    BY MessageType DEF TypeOK
  <2>2. toWorker' \in [Workers -> Seq(ControllerMessage)]
    BY <1>7, <2>1, BroadcastType DEF SendTransition
  <2>3. QED
    BY <1>7, <2>2 DEF SendTransition, TypeOK
<1>8. CASE HoldPhase
  BY <1>8 DEF HoldPhase, TypeOK
<1>9. CASE FinishTimeline
  <2>1. Message("complete", i) \in ControllerMessage
    BY MessageType DEF TypeOK
  <2>2. toWorker' \in [Workers -> Seq(ControllerMessage)]
    BY <1>9, <2>1, BroadcastType DEF FinishTimeline
  <2>3. QED
    BY <1>9, <2>2 DEF FinishTimeline, TypeOK
<1>10. CASE RemoveCheckpoint
  BY <1>10 DEF RemoveCheckpoint, Fault, TypeOK
<1>11. CASE ExitProcess
  BY <1>11, ProcessEndsType DEF ExitProcess, TypeOK
<1>12. QED
  BY <1>1, <1>2, <1>3, <1>4, <1>5, <1>6, <1>7, <1>8, <1>9, <1>10, <1>11
     DEF MainTask

LEMMA ServerType ==
    ASSUME TypeInv, NEW w \in Workers, NEW k \in 1..MaxLives, ServerStream(w, k)
    PROVE  TypeInv'
<1> USE CountsAssumption DEF TypeInv, LoopBound, mainVars, stateVars, gateVars,
        serverVars, workerVars, envVars
<1>0. <<w, k>> \in Streams
  BY DEF Streams
<1>1. ASSUME NEW m, Delivered(w, k, m)
      PROVE  toServer' \in [Streams -> Seq(WorkerMessage)]
  <2>1. Tail(toServer[<<w, k>>]) \in Seq(WorkerMessage)
    BY <1>0, <1>1 DEF Delivered, TypeOK
  <2>2. QED
    BY <1>0, <1>1, <2>1 DEF Delivered, TypeOK
<1>2. CASE ReceiveReady(w, k)
  <2>1. toServer' \in [Streams -> Seq(WorkerMessage)]
    BY <1>1, <1>2 DEF ReceiveReady
  <2>2. readyIngest' \in Nat /\ readyQuery' \in Nat
    BY <1>2 DEF ReceiveReady, CountReady, TypeOK
  <2>3. allReady' \in BOOLEAN
    BY <1>2, <2>2 DEF ReceiveReady, AllExpected, TypeOK
  <2>4. named' \in [Streams -> BOOLEAN]
    BY <1>2 DEF ReceiveReady, TypeOK
  <2>5. workers' \in [Workers -> 0..MaxLives]
    BY <1>2 DEF ReceiveReady, TypeOK
  <2>6. seen' \subseteq Workers
    BY <1>2 DEF ReceiveReady, TypeOK
  <2>7. QED
    BY <1>2, <2>1, <2>2, <2>3, <2>4, <2>5, <2>6 DEF ReceiveReady, TypeOK
<1>3. CASE ReceiveAck(w, k)
  <2>1. toServer' \in [Streams -> Seq(WorkerMessage)]
    BY <1>1, <1>3 DEF ReceiveAck
  <2>2. QED
    BY <1>3, <2>1 DEF ReceiveAck, TypeOK
<1>4. CASE ReceiveDone(w, k)
  <2>1. toServer' \in [Streams -> Seq(WorkerMessage)]
    BY <1>1, <1>4 DEF ReceiveDone, Unregistered
  <2>2. QED
    BY <1>4, <2>1 DEF ReceiveDone, Unregistered, TypeOK
<1>5. CASE Disconnect(w, k)
  <2>1. toServer' \in [Streams -> Seq(WorkerMessage)]
    <3>1. << >> \in Seq(WorkerMessage)
      OBVIOUS
    <3>2. QED
      BY <1>5, <3>1 DEF Disconnect, Unregistered, TypeOK
  <2>2. readyIngest' \in Nat /\ readyQuery' \in Nat
    BY <1>5 DEF Disconnect, Unregistered, SaturatingDec, TypeOK
  <2>3. workers' \in [Workers -> 0..MaxLives]
    <3>1. workers' = workers \/ workers' = [workers EXCEPT ![w] = 0]
      BY <1>5 DEF Disconnect, Unregistered
    <3>2. workers \in [Workers -> 0..MaxLives] /\ 0 \in 0..MaxLives
      BY DEF TypeOK
    <3>3. [workers EXCEPT ![w] = 0] \in [Workers -> 0..MaxLives]
      BY <3>2
    <3>4. QED
      BY <3>1, <3>2, <3>3
  <2>4. /\ srvOpen' \in [Streams -> BOOLEAN]
        /\ named' \in [Streams -> BOOLEAN]
    BY <1>5 DEF Disconnect, Unregistered, TypeOK
  <2>5. QED
    BY <1>5, <2>1, <2>2, <2>3, <2>4 DEF Disconnect, Unregistered, TypeOK
<1>6. QED
  BY <1>2, <1>3, <1>4, <1>5 DEF ServerStream

LEMMA WorkerEndsType ==
    ASSUME TypeOK, NEW w \in Workers, WorkerProcessEnds(w)
    PROVE  /\ wpc' \in [Workers -> {"off", "waiting", "running"}]
           /\ life' \in [Workers -> 0..MaxLives]
           /\ linkUp' \in [Workers -> BOOLEAN]
           /\ toWorker' \in [Workers -> Seq(ControllerMessage)]
           /\ evOpen' \in [Workers -> BOOLEAN]
           /\ events' \in [Workers -> Seq(ControllerMessage)]
           /\ wphase' \in [Workers -> 0..NumPhases]
<1>1. << >> \in Seq(ControllerMessage) /\ 0 \in 0..NumPhases
  BY CountsAssumption
<1>2. QED
  BY <1>1 DEF WorkerProcessEnds, TypeOK

LEMMA ReplyType ==
    ASSUME TypeOK, NEW w \in Workers, NEW m \in WorkerMessage, Reply(w, m)
    PROVE  toServer' \in [Streams -> Seq(WorkerMessage)]
<1>1. CASE <<w, life[w]>> \in Streams
  <2>1. Append(toServer[<<w, life[w]>>], m) \in Seq(WorkerMessage)
    BY <1>1 DEF TypeOK
  <2>2. QED
    BY <2>1 DEF Reply, TypeOK
<1>2. CASE <<w, life[w]>> \notin Streams
  BY <1>2 DEF Reply, TypeOK
<1>3. QED
  BY <1>1, <1>2

LEMMA WorkerType ==
    ASSUME TypeInv, NEW w \in Workers, WorkerStep(w) \/ WorkerFault(w)
    PROVE  TypeInv'
<1> USE CountsAssumption DEF TypeInv, LoopBound, mainVars, stateVars, gateVars,
        serverVars, workerVars, envVars
<1>1. CASE Connect(w)
  <2>1. life' \in [Workers -> 0..MaxLives]
    BY <1>1 DEF Connect, TypeOK
  <2>2. /\ srvOpen' \in [Streams -> BOOLEAN]
        /\ toServer' \in [Streams -> Seq(WorkerMessage)]
    <3>1. <<"ready">> \in Seq(WorkerMessage)
      BY DEF WorkerMessage
    <3>2. QED
      BY <1>1, <3>1 DEF Connect, TypeOK
  <2>3. /\ wpc' \in [Workers -> {"off", "waiting", "running"}]
        /\ linkUp' \in [Workers -> BOOLEAN]
        /\ toWorker' \in [Workers -> Seq(ControllerMessage)]
        /\ evOpen' \in [Workers -> BOOLEAN]
    BY <1>1 DEF Connect, TypeOK
  <2>4. QED
    BY <1>1, <2>1, <2>2, <2>3 DEF Connect, TypeOK
<1>2. CASE Inbound(w)
  <2>1. /\ Head(toWorker[w]) \in ControllerMessage
        /\ Tail(toWorker[w]) \in Seq(ControllerMessage)
        /\ Append(events[w], Head(toWorker[w])) \in Seq(ControllerMessage)
    BY <1>2 DEF Inbound, TypeOK
  <2>2. /\ toWorker' \in [Workers -> Seq(ControllerMessage)]
        /\ events' \in [Workers -> Seq(ControllerMessage)]
        /\ evOpen' \in [Workers -> BOOLEAN]
    BY <1>2, <2>1 DEF Inbound, TypeOK
  <2>3. toServer' \in [Streams -> Seq(WorkerMessage)]
    BY <1>2, ReplyType DEF Inbound, TypeOK, WorkerMessage
  <2>4. QED
    BY <1>2, <2>2, <2>3 DEF Inbound, TypeOK
<1>3. CASE InboundEnds(w)
  BY <1>3 DEF InboundEnds, TypeOK
<1>4. CASE TakePrepare(w)
  <2>1. Tail(events[w]) \in Seq(ControllerMessage)
    BY <1>4 DEF TakePrepare, TypeOK
  <2>2. QED
    BY <1>4, <2>1 DEF TakePrepare, TypeOK
<1>5. CASE TakeTransition(w)
  <2>1. /\ Tail(events[w]) \in Seq(ControllerMessage)
        /\ Head(events[w]) \in ControllerMessage
    BY <1>5 DEF TakeTransition, TypeOK
  <2>2. Head(events[w]).phase \in 0..NumPhases
    BY <2>1 DEF ControllerMessage
  <2>3. /\ wpc' \in [Workers -> {"off", "waiting", "running"}]
        /\ events' \in [Workers -> Seq(ControllerMessage)]
        /\ wphase' \in [Workers -> 0..NumPhases]
    BY <1>5, <2>1, <2>2 DEF TakeTransition, TypeOK
  <2>4. QED
    BY <1>5, <2>3 DEF TakeTransition, TypeOK
<1>6. CASE LeaveLoop(w)
  <2>1. toServer' \in [Streams -> Seq(WorkerMessage)]
    BY <1>6, ReplyType DEF LeaveLoop, TypeOK, WorkerMessage
  <2>2. QED
    BY <1>6, <2>1, WorkerEndsType DEF LeaveLoop, TypeOK
<1>7. CASE CrashWorker(w)
  <2>1. faults' \in 0..MaxFaults
    BY <1>7 DEF CrashWorker, Fault, TypeOK
  <2>2. WorkerProcessEnds(w)
    BY <1>7 DEF CrashWorker
  <2>3. QED
    BY <1>7, <2>1, <2>2, WorkerEndsType DEF CrashWorker, TypeOK
<1>8. CASE BreakLink(w)
  BY <1>8 DEF BreakLink, Fault, TypeOK
<1>9. QED
  BY <1>1, <1>2, <1>3, <1>4, <1>5, <1>6, <1>7, <1>8 DEF WorkerStep, WorkerFault

LEMMA NextType == TypeInv /\ [Next]_vars => TypeInv'
<1> SUFFICES ASSUME TypeInv, [Next]_vars
             PROVE  TypeInv'
  OBVIOUS
<1>1. CASE Boot
  BY <1>1, CountsAssumption, CheckpointingAssumption
     DEF Boot, TypeInv, TypeOK, LoopBound, mainVars, stateVars, gateVars,
         serverVars, workerVars
<1>2. CASE MainTask
  BY <1>2, MainTaskType
<1>3. CASE ControllerFault
  <2>1. ProcessEnds /\ UNCHANGED <<checkpoint, boots, held>> /\ Fault
    BY <1>3 DEF ControllerFault, WaitTimesOut, CrashController
  <2>2. faults' \in 0..MaxFaults /\ boots' \in 0..MaxBoots
    BY <2>1, CountsAssumption DEF Fault, TypeInv, TypeOK
  <2>3. QED
    BY <2>1, <2>2, ProcessEndsType
<1>4. CASE \E w \in Workers, k \in 1..MaxLives : ServerStream(w, k)
  BY <1>4, ServerType
<1>5. CASE \E w \in Workers : WorkerStep(w) \/ WorkerFault(w)
  BY <1>5, WorkerType
<1>6. CASE UNCHANGED vars
  BY <1>6 DEF vars, mainVars, stateVars, gateVars, serverVars, workerVars,
              envVars, TypeInv, TypeOK, LoopBound
<1>7. QED
  BY <1>1, <1>2, <1>3, <1>4, <1>5, <1>6 DEF Next

LEMMA TypeInvariant == Spec => []TypeInv
BY InitType, NextType, PTL DEF Spec

\* Type correctness: every variable keeps its type, in particular the loop index
\* stays within the phases and a queue holds only messages of its protocol.
THEOREM TypeCorrect == Spec => []TypeOK
<1>1. TypeInv => TypeOK
  BY DEF TypeInv
<1>2. QED
  BY <1>1, TypeInvariant, PTL

-----------------------------------------------------------------------------
(***************************************************************************)
(* The ready counts.  READY is counted once per message, a disconnection   *)
(* is subtracted only when it takes a registration with it, and DONE takes *)
(* the registration without touching the counts.  What is inductive is     *)
(* therefore an inequality, together with the fact that only open streams  *)
(* are named and registered.                                               *)
(***************************************************************************)

NamedIsOpen == \A s \in Streams : named[s] => srvOpen[s]

GateInv ==
    /\ NamedIsOpen
    /\ RegistryIsLive
    /\ ReadyCoversStreams

LEMMA StreamsFinite ==
    ASSUME NEW W
    PROVE  /\ IsFiniteSet(NamedStreams(W))
           /\ Cardinality(NamedStreams(W)) \in Nat
<1>1. IsFiniteSet(Workers)
  BY WorkersAssumption, FS_Union DEF Workers
<1>2. IsFiniteSet(1..MaxLives)
  BY CountsAssumption, FS_Interval
<1>3. IsFiniteSet(Streams)
  BY <1>1, <1>2, FS_Product DEF Streams
<1>4. NamedStreams(W) \in SUBSET Streams
  BY DEF NamedStreams
<1>5. QED
  BY <1>3, <1>4, FS_Subset, FS_CardinalityType

LEMMA AddOne ==
    ASSUME NEW S, IsFiniteSet(S), NEW x
    PROVE  /\ Cardinality(S) \in Nat
           /\ Cardinality(S \cup {x}) \in Nat
           /\ Cardinality(S \cup {x}) <= Cardinality(S) + 1
<1>1. Cardinality(S) \in Nat
  BY FS_CardinalityType
<1>2. Cardinality(S \cup {x}) = IF x \in S THEN Cardinality(S)
                                          ELSE Cardinality(S) + 1
  BY FS_AddElement
<1>3. QED
  BY <1>1, <1>2

LEMMA RemoveOne ==
    ASSUME NEW S, IsFiniteSet(S), NEW x
    PROVE  /\ Cardinality(S \ {x}) \in Nat
           /\ Cardinality(S \ {x}) <= Cardinality(S)
           /\ x \in S => Cardinality(S \ {x}) = Cardinality(S) - 1
<1>1. Cardinality(S) \in Nat /\ Cardinality(S \ {x}) \in Nat
  BY FS_CardinalityType, FS_RemoveElement
<1>2. Cardinality(S \ {x}) = IF x \in S THEN Cardinality(S) - 1
                                       ELSE Cardinality(S)
  BY FS_RemoveElement
<1>3. QED
  BY <1>1, <1>2

\* Most steps concern neither the registry nor the streams' tasks.
LEMMA GateUnchanged ==
    ASSUME GateInv,
           UNCHANGED <<srvOpen, named, workers, readyIngest, readyQuery>>
    PROVE  GateInv'
BY DEF GateInv, NamedIsOpen, RegistryIsLive, ReadyCoversStreams, NamedStreams

LEMMA GateProcessEnds ==
    ASSUME ProcessEnds
    PROVE  GateInv'
<1>1. /\ NamedStreams(IngestWorkers)' = {}
      /\ NamedStreams(QueryWorkers)' = {}
  BY DEF ProcessEnds, NamedStreams
<1>2. NamedIsOpen'
  BY DEF ProcessEnds, NamedIsOpen
<1>3. RegistryIsLive'
  BY DEF ProcessEnds, RegistryIsLive
<1>4. readyIngest' = 0 /\ readyQuery' = 0
  BY DEF ProcessEnds
<1>5. QED
  BY <1>1, <1>2, <1>3, <1>4, FS_EmptySet DEF GateInv, ReadyCoversStreams

LEMMA GateConnect ==
    ASSUME TypeOK, GateInv, NEW w \in Workers, Connect(w)
    PROVE  GateInv'
<1>1. /\ srvOpen' = [srvOpen EXCEPT ![<<w, life[w] + 1>>] = TRUE]
      /\ UNCHANGED <<named, workers, readyIngest, readyQuery>>
  BY DEF Connect, gateVars
<1>2. \A s \in Streams : srvOpen[s] => srvOpen'[s]
  BY <1>1 DEF TypeOK
<1>3. NamedIsOpen'
  BY <1>1, <1>2 DEF GateInv, NamedIsOpen
<1>4. \A v \in Workers : workers[v] # 0 => <<v, workers[v]>> \in Streams
  BY CountsAssumption DEF TypeOK, Streams
<1>5. RegistryIsLive'
  BY <1>1, <1>2, <1>4 DEF GateInv, RegistryIsLive
<1>6. ASSUME NEW W
      PROVE  NamedStreams(W)' = NamedStreams(W)
  BY <1>1, <1>2, <1>3 DEF NamedStreams, GateInv, NamedIsOpen
<1>7. QED
  BY <1>1, <1>3, <1>5, <1>6 DEF GateInv, ReadyCoversStreams

LEMMA GateReady ==
    ASSUME TypeOK, GateInv, NEW w \in Workers, NEW k \in 1..MaxLives,
           ReceiveReady(w, k)
    PROVE  GateInv'
<1>1. <<w, k>> \in Streams /\ srvOpen[<<w, k>>]
  BY DEF Streams, ReceiveReady, Delivered
<1>2. /\ named' = [named EXCEPT ![<<w, k>>] = TRUE]
      /\ workers' = [workers EXCEPT ![w] = k]
      /\ srvOpen' = srvOpen
      /\ CountReady(w)
  BY DEF ReceiveReady
<1>3. NamedIsOpen'
  BY <1>1, <1>2 DEF GateInv, NamedIsOpen, TypeOK
<1>4. RegistryIsLive'
  <2>1. SUFFICES ASSUME NEW v \in Workers, workers'[v] # 0
                 PROVE  srvOpen'[<<v, workers'[v]>>] /\ named'[<<v, workers'[v]>>]
    BY DEF RegistryIsLive
  <2>2. CASE v = w
    BY <1>1, <1>2, <2>2 DEF TypeOK
  <2>3. CASE v # w
    <3>1. workers'[v] = workers[v] /\ <<v, workers[v]>> # <<w, k>>
      BY <1>2, <2>3 DEF TypeOK
    <3>2. srvOpen[<<v, workers[v]>>] /\ named[<<v, workers[v]>>]
      BY <2>1, <3>1 DEF GateInv, RegistryIsLive
    <3>3. <<v, workers[v]>> \in Streams
      BY <2>1, <3>1, CountsAssumption DEF TypeOK, Streams
    <3>4. QED
      BY <1>2, <3>1, <3>2, <3>3 DEF TypeOK
  <2>4. QED
    BY <2>2, <2>3
<1>5. ASSUME NEW W
      PROVE  NamedStreams(W)' = IF w \in W THEN NamedStreams(W) \cup {<<w, k>>}
                                           ELSE NamedStreams(W)
  <2>1. \A s \in Streams : srvOpen'[s] = srvOpen[s]
    BY <1>2
  <2>2. \A s \in Streams : s # <<w, k>> => named'[s] = named[s]
    BY <1>2 DEF TypeOK
  <2>3. named'[<<w, k>>] = TRUE
    BY <1>1, <1>2 DEF TypeOK
  <2>4. <<w, k>>[1] = w
    OBVIOUS
  <2>5. QED
    BY <1>1, <2>1, <2>2, <2>3, <2>4, Zenon DEF NamedStreams
<1>6. ASSUME NEW W, NEW n \in Nat, Cardinality(NamedStreams(W)) <= n
      PROVE  Cardinality(NamedStreams(W)') <= n + (IF w \in W THEN 1 ELSE 0)
  <2>1. CASE w \in W
    <3>1. NamedStreams(W)' = NamedStreams(W) \cup {<<w, k>>}
      BY <1>5, <2>1
    <3>2. /\ Cardinality(NamedStreams(W)) \in Nat
          /\ Cardinality(NamedStreams(W)') \in Nat
          /\ Cardinality(NamedStreams(W)') <= Cardinality(NamedStreams(W)) + 1
      BY <3>1, StreamsFinite, AddOne
    <3>3. QED
      BY <1>6, <2>1, <3>2
  <2>2. CASE w \notin W
    <3>1. NamedStreams(W)' = NamedStreams(W)
      BY <1>5, <2>2
    <3>2. QED
      BY <1>6, <2>2, <3>1, StreamsFinite
  <2>3. QED
    BY <2>1, <2>2
<1>7. /\ readyIngest' = readyIngest + (IF w \in IngestWorkers THEN 1 ELSE 0)
      /\ readyQuery' = readyQuery + (IF w \in QueryWorkers THEN 1 ELSE 0)
  BY <1>2 DEF CountReady
<1>8. ReadyCoversStreams'
  BY <1>6, <1>7 DEF GateInv, ReadyCoversStreams, TypeOK
<1>9. QED
  BY <1>3, <1>4, <1>8 DEF GateInv

LEMMA GateDone ==
    ASSUME TypeOK, GateInv, NEW w \in Workers, NEW k \in 1..MaxLives,
           ReceiveDone(w, k)
    PROVE  GateInv'
<1>1. /\ workers' = [workers EXCEPT ![w] = 0]
      /\ UNCHANGED <<srvOpen, named, readyIngest, readyQuery>>
  BY DEF ReceiveDone, Unregistered
<1>2. RegistryIsLive'
  BY <1>1 DEF GateInv, RegistryIsLive, TypeOK
<1>3. QED
  BY <1>1, <1>2 DEF GateInv, NamedIsOpen, ReadyCoversStreams, NamedStreams

LEMMA GateDisconnect ==
    ASSUME TypeOK, GateInv, NEW w \in Workers, NEW k \in 1..MaxLives,
           Disconnect(w, k)
    PROVE  GateInv'
<1>1. <<w, k>> \in Streams
  BY DEF Streams
<1>2. /\ srvOpen' = [srvOpen EXCEPT ![<<w, k>>] = FALSE]
      /\ named' = [named EXCEPT ![<<w, k>>] = FALSE]
  BY DEF Disconnect, Unregistered
<1>3. NamedIsOpen'
  BY <1>1, <1>2 DEF GateInv, NamedIsOpen, TypeOK
<1>4. ASSUME NEW W
      PROVE  NamedStreams(W)' = NamedStreams(W) \ {<<w, k>>}
  BY <1>1, <1>2 DEF NamedStreams, TypeOK
<1>5. \A v \in Workers : v # w => workers'[v] = workers[v]
  BY DEF Disconnect, Unregistered, TypeOK
<1>6. ~(named[<<w, k>>] /\ workers[w] # 0) \/ workers'[w] = 0
  BY DEF Disconnect, Unregistered, TypeOK
<1>7. RegistryIsLive'
  <2>1. SUFFICES ASSUME NEW v \in Workers, workers'[v] # 0
                 PROVE  srvOpen'[<<v, workers'[v]>>] /\ named'[<<v, workers'[v]>>]
    BY DEF RegistryIsLive
  <2>2. workers'[v] = workers[v]
    BY <1>5, <1>6, <2>1 DEF Disconnect, Unregistered
  <2>3. srvOpen[<<v, workers[v]>>] /\ named[<<v, workers[v]>>]
    BY <2>1, <2>2 DEF GateInv, RegistryIsLive
  <2>4. <<v, workers[v]>> # <<w, k>>
    BY <1>6, <2>1, <2>2, <2>3
  <2>5. <<v, workers[v]>> \in Streams
    BY <2>1, <2>2, CountsAssumption DEF TypeOK, Streams
  <2>6. QED
    BY <1>2, <2>2, <2>3, <2>4, <2>5 DEF TypeOK
<1>8. ReadyCoversStreams'
  <2>1. CASE named[<<w, k>>] /\ workers[w] # 0
    <3>1. /\ readyIngest' = IF w \in IngestWorkers THEN SaturatingDec(readyIngest)
                                                   ELSE readyIngest
          /\ readyQuery' = IF w \in QueryWorkers THEN SaturatingDec(readyQuery)
                                                 ELSE readyQuery
      BY <2>1 DEF Disconnect, Unregistered
    <3>2. ASSUME NEW W, NEW n \in Nat, Cardinality(NamedStreams(W)) <= n
          PROVE  Cardinality(NamedStreams(W)')
                    <= (IF w \in W THEN SaturatingDec(n) ELSE n)
      <4>1. <<w, k>> \in NamedStreams(W) <=> w \in W
        BY <1>1, <2>1 DEF NamedStreams, Disconnect, Unregistered
      <4>2. /\ Cardinality(NamedStreams(W)) \in Nat
            /\ Cardinality(NamedStreams(W)') \in Nat
            /\ Cardinality(NamedStreams(W)') <= Cardinality(NamedStreams(W))
            /\ w \in W => Cardinality(NamedStreams(W)')
                              = Cardinality(NamedStreams(W)) - 1
        BY <1>4, <4>1, StreamsFinite, RemoveOne
      <4>3. QED
        BY <3>2, <4>2 DEF SaturatingDec
    <3>3. QED
      BY <3>1, <3>2 DEF GateInv, ReadyCoversStreams, TypeOK
  <2>2. CASE ~(named[<<w, k>>] /\ workers[w] # 0)
    <3>1. readyIngest' = readyIngest /\ readyQuery' = readyQuery
      BY <2>2 DEF Disconnect, Unregistered
    <3>2. ASSUME NEW W, NEW n \in Nat, Cardinality(NamedStreams(W)) <= n
          PROVE  Cardinality(NamedStreams(W)') <= n
      <4>1. /\ Cardinality(NamedStreams(W)) \in Nat
            /\ Cardinality(NamedStreams(W)') \in Nat
            /\ Cardinality(NamedStreams(W)') <= Cardinality(NamedStreams(W))
        BY <1>4, StreamsFinite, RemoveOne
      <4>2. QED
        BY <3>2, <4>1
    <3>3. QED
      BY <3>1, <3>2 DEF GateInv, ReadyCoversStreams, TypeOK
  <2>3. QED
    BY <2>1, <2>2
<1>9. QED
  BY <1>3, <1>7, <1>8 DEF GateInv

LEMMA NextGate == TypeInv /\ GateInv /\ [Next]_vars => GateInv'
<1> SUFFICES ASSUME TypeInv, GateInv, [Next]_vars
             PROVE  GateInv'
  OBVIOUS
<1> USE DEF mainVars, stateVars, gateVars, serverVars, workerVars, envVars
<1>1. CASE Boot
  BY <1>1, GateUnchanged DEF Boot
<1>2. CASE MainTask
  <2>1. CASE ExitProcess
    BY <2>1, GateProcessEnds DEF ExitProcess
  <2>2. CASE ~ExitProcess
    BY <1>2, <2>2, GateUnchanged
       DEF MainTask, AllReadyReceived, SkipPhase, WriteCheckpoint, MarkPhase,
           SendPrepare, AckPause, SendTransition, HoldPhase, FinishTimeline,
           RemoveCheckpoint
  <2>3. QED
    BY <2>1, <2>2
<1>3. CASE ControllerFault
  BY <1>3, GateProcessEnds DEF ControllerFault, WaitTimesOut, CrashController
<1>4. ASSUME NEW w \in Workers, NEW k \in 1..MaxLives, ServerStream(w, k)
      PROVE  GateInv'
  <2>1. CASE ReceiveReady(w, k)
    BY <2>1, GateReady DEF TypeInv
  <2>2. CASE ReceiveAck(w, k)
    BY <2>2, GateUnchanged DEF ReceiveAck
  <2>3. CASE ReceiveDone(w, k)
    BY <2>3, GateDone DEF TypeInv
  <2>4. CASE Disconnect(w, k)
    BY <2>4, GateDisconnect DEF TypeInv
  <2>5. QED
    BY <1>4, <2>1, <2>2, <2>3, <2>4 DEF ServerStream
<1>5. ASSUME NEW w \in Workers, WorkerStep(w) \/ WorkerFault(w)
      PROVE  GateInv'
  <2>1. CASE Connect(w)
    BY <2>1, GateConnect DEF TypeInv
  <2>2. CASE ~Connect(w)
    BY <1>5, <2>2, GateUnchanged
       DEF WorkerStep, WorkerFault, Inbound, InboundEnds, TakePrepare,
           TakeTransition, LeaveLoop, CrashWorker, BreakLink
  <2>3. QED
    BY <2>1, <2>2
<1>6. CASE UNCHANGED vars
  BY <1>6, GateUnchanged DEF vars
<1>7. QED
  BY <1>1, <1>2, <1>3, <1>4, <1>5, <1>6 DEF Next

LEMMA InitGate == Init => GateInv
<1> SUFFICES ASSUME Init
             PROVE  GateInv
  OBVIOUS
<1>1. NamedStreams(IngestWorkers) = {} /\ NamedStreams(QueryWorkers) = {}
  BY DEF Init, NamedStreams
<1>2. NamedIsOpen
  BY DEF Init, NamedIsOpen
<1>3. RegistryIsLive
  BY DEF Init, RegistryIsLive
<1>4. readyIngest = 0 /\ readyQuery = 0
  BY DEF Init
<1>5. QED
  BY <1>1, <1>2, <1>3, <1>4, FS_EmptySet DEF GateInv, ReadyCoversStreams

LEMMA GateInvariant == Spec => []GateInv
BY InitGate, TypeInvariant, NextGate, PTL DEF Spec

\* However workers restart and streams end late, the ready counts never fall
\* below the number of live streams that reported READY: the barrier is never
\* kept shut by its counters.
THEOREM ReadyNeverUndercounts == Spec => []ReadyCoversStreams
<1>1. GateInv => ReadyCoversStreams
  BY DEF GateInv
<1>2. QED
  BY <1>1, GateInvariant, PTL

\* The registry never keeps the sender of a stream that has ended.
THEOREM RegistryHoldsLiveStreams == Spec => []RegistryIsLive
<1>1. GateInv => RegistryIsLive
  BY DEF GateInv
<1>2. QED
  BY <1>1, GateInvariant, PTL

-----------------------------------------------------------------------------
(***************************************************************************)
(* No worker ahead of the controller.  current_phase_index is set before   *)
(* the phase is announced and never goes back while the process lives, so  *)
(* every transition in flight on a live stream names a phase already       *)
(* begun; a stream of an earlier process is not up.                        *)
(***************************************************************************)

\* No transition in queue q is to a phase beyond n.
NoneBeyond(q, n) ==
    \A j \in 1..Len(q) : q[j].type = "transition" => q[j].phase <= n

WorkerWithin(w) ==
    /\ wpc[w] = "off" => events[w] = << >> /\ ~linkUp[w] /\ ~evOpen[w]
    /\ linkUp[w] => /\ wpc[w] = "running" => wphase[w] <= curIdx
                    /\ NoneBeyond(toWorker[w], curIdx)
                    /\ NoneBeyond(events[w], curIdx)

PhaseInv ==
    /\ curIdx <= i
    /\ pc \in {"prepare", "acks", "transition", "hold"} => curIdx = i
    /\ \A w \in Workers : WorkerWithin(w)

LEMMA NoneBeyondEmpty == \A n : NoneBeyond(<< >>, n)
BY DEF NoneBeyond

LEMMA NoneBeyondTail ==
    ASSUME NEW q \in Seq(ControllerMessage), q # << >>, NEW n, NoneBeyond(q, n)
    PROVE  NoneBeyond(Tail(q), n)
<1>1. \A j \in 1..Len(Tail(q)) : Tail(q)[j] = q[j + 1] /\ j + 1 \in 1..Len(q)
  OBVIOUS
<1>2. QED
  BY <1>1 DEF NoneBeyond

LEMMA NoneBeyondHead ==
    ASSUME NEW q \in Seq(ControllerMessage), q # << >>, NEW n, NoneBeyond(q, n),
           Head(q).type = "transition"
    PROVE  Head(q).phase <= n
<1>1. Head(q) = q[1] /\ 1 \in 1..Len(q)
  OBVIOUS
<1>2. QED
  BY <1>1 DEF NoneBeyond

LEMMA NoneBeyondAppend ==
    ASSUME NEW q \in Seq(ControllerMessage), NEW m \in ControllerMessage, NEW n,
           NoneBeyond(q, n), m.type = "transition" => m.phase <= n
    PROVE  NoneBeyond(Append(q, m), n)
<1>1. \A j \in 1..Len(Append(q, m)) :
        \/ j \in 1..Len(q) /\ Append(q, m)[j] = q[j]
        \/ Append(q, m)[j] = m
  OBVIOUS
<1>2. QED
  BY <1>1 DEF NoneBeyond

LEMMA NoneBeyondMonotone ==
    ASSUME NEW q \in Seq(ControllerMessage), NEW n \in Nat, NEW p \in Nat,
           NoneBeyond(q, n), n <= p
    PROVE  NoneBeyond(q, p)
<1>1. \A j \in 1..Len(q) : q[j] \in ControllerMessage
  OBVIOUS
<1>2. \A m \in ControllerMessage : m.phase \in Nat
  BY CountsAssumption DEF ControllerMessage
<1>3. QED
  BY <1>1, <1>2 DEF NoneBeyond

\* A step that leaves the workers alone may only advance the current phase.
LEMMA WithinAdvance ==
    ASSUME TypeOK, NEW w \in Workers, WorkerWithin(w), UNCHANGED workerVars,
           curIdx' \in Nat, curIdx <= curIdx'
    PROVE  WorkerWithin(w)'
<1>1. /\ wpc'[w] = wpc[w] /\ events'[w] = events[w] /\ linkUp'[w] = linkUp[w]
      /\ wphase'[w] = wphase[w] /\ toWorker'[w] = toWorker[w]
      /\ evOpen'[w] = evOpen[w]
  BY DEF workerVars
<1>2. /\ toWorker[w] \in Seq(ControllerMessage)
      /\ events[w] \in Seq(ControllerMessage)
      /\ wphase[w] \in Nat /\ curIdx \in Nat
  BY CountsAssumption DEF TypeOK
<1>3. NoneBeyond(toWorker[w], curIdx) => NoneBeyond(toWorker[w], curIdx')
  BY <1>2, NoneBeyondMonotone
<1>4. NoneBeyond(events[w], curIdx) => NoneBeyond(events[w], curIdx')
  BY <1>2, NoneBeyondMonotone
<1>5. wphase[w] <= curIdx => wphase[w] <= curIdx'
  BY <1>2
<1>6. QED
  BY <1>1, <1>3, <1>4, <1>5 DEF WorkerWithin

LEMMA WithinBroadcast ==
    ASSUME TypeOK, NEW w \in Workers, WorkerWithin(w), NEW m \in ControllerMessage,
           Broadcast(m), m.type = "transition" => m.phase <= curIdx,
           UNCHANGED <<curIdx, wpc, linkUp, evOpen, events, wphase>>
    PROVE  WorkerWithin(w)'
<1>1. toWorker'[w] = toWorker[w] \/ toWorker'[w] = Append(toWorker[w], m)
  BY DEF Broadcast
<1>2. toWorker[w] \in Seq(ControllerMessage)
  BY DEF TypeOK
<1>3. NoneBeyond(toWorker[w], curIdx) => NoneBeyond(toWorker'[w], curIdx)
  BY <1>1, <1>2, NoneBeyondAppend
<1>4. QED
  BY <1>3 DEF WorkerWithin

LEMMA WithinProcessEnds ==
    ASSUME PhaseInv, ProcessEnds
    PROVE  PhaseInv'
<1>1. \A w \in Workers : ~linkUp'[w]
  BY DEF ProcessEnds
<1>2. \A w \in Workers : /\ wpc'[w] = wpc[w] /\ events'[w] = events[w]
                        /\ evOpen'[w] = evOpen[w]
  BY DEF ProcessEnds
<1>3. \A w \in Workers : WorkerWithin(w)'
  BY <1>1, <1>2 DEF PhaseInv, WorkerWithin
<1>4. curIdx' = 0 /\ i' = 0 /\ pc' = "down"
  BY DEF ProcessEnds
<1>5. QED
  BY <1>3, <1>4 DEF PhaseInv

LEMMA PhaseMainTask ==
    ASSUME TypeInv, PhaseInv, MainTask
    PROVE  PhaseInv'
<1> USE DEF mainVars, stateVars, gateVars, serverVars, envVars
<1>0. i \in Nat /\ curIdx \in Nat /\ i \in 0..NumPhases
  BY CountsAssumption DEF TypeInv, TypeOK
<1>a. ASSUME UNCHANGED workerVars, curIdx' \in Nat, curIdx <= curIdx'
      PROVE  \A w \in Workers : WorkerWithin(w)'
  BY <1>a, WithinAdvance DEF PhaseInv, TypeInv
<1>b. ASSUME NEW m \in ControllerMessage, Broadcast(m),
             m.type = "transition" => m.phase <= curIdx,
             UNCHANGED <<curIdx, wpc, linkUp, evOpen, events, wphase>>
      PROVE  \A w \in Workers : WorkerWithin(w)'
  BY <1>b, WithinBroadcast DEF PhaseInv, TypeInv
<1>1. CASE AllReadyReceived
  BY <1>0, <1>1, <1>a DEF AllReadyReceived, PhaseInv
<1>2. CASE SkipPhase
  BY <1>0, <1>2, <1>a DEF SkipPhase, PhaseInv
<1>3. CASE WriteCheckpoint
  BY <1>0, <1>3, <1>a DEF WriteCheckpoint, PhaseInv
<1>4. CASE MarkPhase
  <2>1. curIdx' = i /\ i' = i /\ UNCHANGED workerVars
    BY <1>4 DEF MarkPhase
  <2>2. QED
    BY <1>0, <2>1, <1>a DEF PhaseInv
<1>5. CASE SendPrepare
  <2>1. Message("prepare", i) \in ControllerMessage
    BY <1>0, MessageType
  <2>2. Message("prepare", i).type # "transition"
    BY DEF Message
  <2>3. \A w \in Workers : WorkerWithin(w)'
    BY <1>5, <2>1, <2>2, <1>b DEF SendPrepare
  <2>4. QED
    BY <1>5, <2>3 DEF SendPrepare, PhaseInv
<1>6. CASE AckPause
  BY <1>0, <1>6, <1>a DEF AckPause, PhaseInv
<1>7. CASE SendTransition
  <2>1. Message("transition", i) \in ControllerMessage
    BY <1>0, MessageType
  <2>2. Message("transition", i).phase <= curIdx
    BY <1>0, <1>7 DEF Message, SendTransition, PhaseInv
  <2>3. \A w \in Workers : WorkerWithin(w)'
    BY <1>7, <2>1, <2>2, <1>b DEF SendTransition
  <2>4. QED
    BY <1>7, <2>3 DEF SendTransition, PhaseInv
<1>8. CASE HoldPhase
  BY <1>0, <1>8, <1>a DEF HoldPhase, PhaseInv
<1>9. CASE FinishTimeline
  <2>1. Message("complete", i) \in ControllerMessage
    BY <1>0, MessageType
  <2>2. Message("complete", i).type # "transition"
    BY DEF Message
  <2>3. \A w \in Workers : WorkerWithin(w)'
    BY <1>9, <2>1, <2>2, <1>b DEF FinishTimeline
  <2>4. QED
    BY <1>9, <2>3 DEF FinishTimeline, PhaseInv
<1>10. CASE RemoveCheckpoint
  BY <1>0, <1>10, <1>a DEF RemoveCheckpoint, PhaseInv
<1>11. CASE ExitProcess
  BY <1>11, WithinProcessEnds DEF ExitProcess
<1>12. QED
  BY <1>1, <1>2, <1>3, <1>4, <1>5, <1>6, <1>7, <1>8, <1>9, <1>10, <1>11
     DEF MainTask

\* A step of worker w keeps every other worker within bounds.
LEMMA WithinOther ==
    ASSUME TypeOK, PhaseInv, NEW w \in Workers, NEW v \in Workers, v # w,
           WorkerStep(w) \/ WorkerFault(w)
    PROVE  WorkerWithin(v)'
<1>1. /\ wpc'[v] = wpc[v] /\ events'[v] = events[v] /\ linkUp'[v] = linkUp[v]
      /\ wphase'[v] = wphase[v] /\ toWorker'[v] = toWorker[v]
      /\ evOpen'[v] = evOpen[v] /\ curIdx' = curIdx
  BY DEF WorkerStep, WorkerFault, Connect, Inbound, InboundEnds, TakePrepare,
         TakeTransition, LeaveLoop, CrashWorker, BreakLink, WorkerProcessEnds,
         stateVars, TypeOK
<1>2. QED
  BY <1>1 DEF PhaseInv, WorkerWithin

LEMMA WithinSelf ==
    ASSUME TypeOK, PhaseInv, NEW w \in Workers, WorkerStep(w) \/ WorkerFault(w)
    PROVE  WorkerWithin(w)'
<1> USE DEF stateVars
<1>0. /\ WorkerWithin(w)
      /\ toWorker[w] \in Seq(ControllerMessage)
      /\ events[w] \in Seq(ControllerMessage)
  BY DEF PhaseInv, TypeOK
<1>1. CASE Connect(w)
  <2>1. /\ wpc'[w] = "waiting" /\ toWorker'[w] = << >>
        /\ events'[w] = events[w] /\ wpc[w] = "off"
    BY <1>1 DEF Connect, TypeOK
  <2>2. QED
    BY <1>0, <2>1, NoneBeyondEmpty DEF WorkerWithin
<1>2. CASE Inbound(w)
  <2>1. /\ wpc'[w] = wpc[w] /\ linkUp'[w] = linkUp[w] /\ wphase'[w] = wphase[w]
        /\ curIdx' = curIdx /\ toWorker[w] # << >>
        /\ toWorker'[w] = Tail(toWorker[w])
        /\ events'[w] = Append(events[w], Head(toWorker[w]))
    BY <1>2 DEF Inbound, TypeOK
  <2>2. NoneBeyond(toWorker[w], curIdx) => NoneBeyond(toWorker'[w], curIdx)
    BY <1>0, <2>1, NoneBeyondTail
  <2>3. NoneBeyond(toWorker[w], curIdx) /\ NoneBeyond(events[w], curIdx)
          => NoneBeyond(events'[w], curIdx)
    <3>1. Head(toWorker[w]) \in ControllerMessage
      BY <1>0, <2>1
    <3>2. QED
      BY <1>0, <2>1, <3>1, NoneBeyondHead, NoneBeyondAppend
  <2>4. wpc[w] # "off"
    BY <1>0, <1>2 DEF Inbound, WorkerWithin
  <2>5. QED
    BY <1>0, <2>1, <2>2, <2>3, <2>4 DEF WorkerWithin
<1>3. CASE InboundEnds(w)
  <2>1. /\ wpc'[w] = wpc[w] /\ linkUp'[w] = linkUp[w] /\ events'[w] = events[w]
        /\ ~linkUp[w] /\ ~evOpen'[w]
    BY <1>3 DEF InboundEnds, TypeOK
  <2>2. QED
    BY <1>0, <2>1 DEF WorkerWithin
<1>4. CASE TakePrepare(w)
  <2>1. /\ wpc'[w] = wpc[w] /\ linkUp'[w] = linkUp[w] /\ wphase'[w] = wphase[w]
        /\ curIdx' = curIdx /\ toWorker'[w] = toWorker[w]
        /\ evOpen'[w] = evOpen[w]
        /\ events[w] # << >> /\ events'[w] = Tail(events[w])
    BY <1>4 DEF TakePrepare, TypeOK
  <2>2. QED
    BY <1>0, <2>1, NoneBeyondTail DEF WorkerWithin
<1>5. CASE TakeTransition(w)
  <2>1. /\ wpc'[w] = "running" /\ linkUp'[w] = linkUp[w]
        /\ wphase'[w] = Head(events[w]).phase
        /\ Head(events[w]).type = "transition"
        /\ curIdx' = curIdx /\ toWorker'[w] = toWorker[w]
        /\ events[w] # << >> /\ events'[w] = Tail(events[w])
    BY <1>5 DEF TakeTransition, TypeOK
  <2>2. NoneBeyond(events[w], curIdx) => /\ NoneBeyond(events'[w], curIdx)
                                        /\ wphase'[w] <= curIdx
    BY <1>0, <2>1, NoneBeyondTail, NoneBeyondHead
  <2>3. QED
    BY <1>0, <2>1, <2>2 DEF WorkerWithin
<1>6. CASE WorkerProcessEnds(w)
  <2>1. ~linkUp'[w] /\ ~evOpen'[w] /\ events'[w] = << >>
    BY <1>6 DEF WorkerProcessEnds, TypeOK
  <2>2. QED
    BY <2>1 DEF WorkerWithin
<1>7. CASE BreakLink(w)
  <2>1. /\ ~linkUp'[w] /\ events'[w] = events[w] /\ wpc'[w] = wpc[w]
        /\ evOpen'[w] = evOpen[w]
    BY <1>7 DEF BreakLink, TypeOK
  <2>2. QED
    BY <1>0, <2>1 DEF WorkerWithin
<1>8. QED
  BY <1>1, <1>2, <1>3, <1>4, <1>5, <1>6, <1>7
     DEF WorkerStep, WorkerFault, LeaveLoop, CrashWorker

LEMMA NextPhase == TypeInv /\ PhaseInv /\ [Next]_vars => PhaseInv'
<1> SUFFICES ASSUME TypeInv, PhaseInv, [Next]_vars
             PROVE  PhaseInv'
  OBVIOUS
<1> USE DEF mainVars, stateVars, TypeInv
<1>a. curIdx \in Nat
  BY CountsAssumption DEF TypeOK
<1>b. ASSUME UNCHANGED workerVars, UNCHANGED <<i, curIdx>>,
             pc' = pc \/ pc' = "waiting"
      PROVE  PhaseInv'
  BY <1>a, <1>b, WithinAdvance DEF PhaseInv
<1>1. CASE Boot
  BY <1>1, <1>b DEF Boot
<1>2. CASE MainTask
  BY <1>2, PhaseMainTask
<1>3. CASE ControllerFault
  BY <1>3, WithinProcessEnds DEF ControllerFault, WaitTimesOut, CrashController
<1>4. CASE \E w \in Workers, k \in 1..MaxLives : ServerStream(w, k)
  BY <1>4, <1>b
     DEF ServerStream, ReceiveReady, ReceiveAck, ReceiveDone, Unregistered, Disconnect
<1>5. ASSUME NEW w \in Workers, WorkerStep(w) \/ WorkerFault(w)
      PROVE  PhaseInv'
  <2>1. UNCHANGED <<pc, i, curIdx>>
    BY <1>5
       DEF WorkerStep, WorkerFault, Connect, Inbound, InboundEnds, TakePrepare,
           TakeTransition, LeaveLoop, CrashWorker, BreakLink
  <2>2. \A v \in Workers : WorkerWithin(v)'
    BY <1>5, WithinSelf, WithinOther
  <2>3. QED
    BY <2>1, <2>2 DEF PhaseInv
<1>6. CASE UNCHANGED vars
  BY <1>6, <1>b DEF vars
<1>7. QED
  BY <1>1, <1>2, <1>3, <1>4, <1>5, <1>6 DEF Next

LEMMA InitPhase == Init => PhaseInv
BY DEF Init, PhaseInv, WorkerWithin

\* A worker connected to the controller never runs a phase later than the one
\* the controller has begun and reports in get_status.
THEOREM WorkersNeverAhead == Spec => []NoWorkerAhead
<1>1. PhaseInv => NoWorkerAhead
  BY DEF PhaseInv, WorkerWithin, NoWorkerAhead
<1>2. Spec => []PhaseInv
  BY InitPhase, TypeInvariant, NextPhase, PTL DEF Spec
<1>3. QED
  BY <1>1, <1>2, PTL

-----------------------------------------------------------------------------
(***************************************************************************)
(* Phases held.  The checkpoint is written when its phase begins, so all   *)
(* phases before it were held; a process that resumes skips only those.    *)
(***************************************************************************)

HeldBelow(n) == \A p \in 0..(NumPhases - 1) : p < n => p \in held

CoverInv ==
    /\ HeldBelow(checkpoint) /\ HeldBelow(resume) /\ HeldBelow(i)
    /\ complete => pc \in {"cleanup", "linger"} /\ i >= NumPhases

LEMMA NoneBelowZero == \A p \in 0..(NumPhases - 1) : ~(p < 0)
BY CountsAssumption

LEMMA CoverProcessEnds ==
    ASSUME CoverInv, ProcessEnds, UNCHANGED <<checkpoint, held>>
    PROVE  CoverInv'
<1>1. i' = 0 /\ resume' = 0 /\ complete' = FALSE
  BY DEF ProcessEnds
<1>2. HeldBelow(checkpoint)'
  BY DEF CoverInv, HeldBelow
<1>3. HeldBelow(resume)' /\ HeldBelow(i)'
  BY <1>1, NoneBelowZero DEF HeldBelow
<1>4. QED
  BY <1>1, <1>2, <1>3 DEF CoverInv

LEMMA CoverMainTask ==
    ASSUME TypeInv, CoverInv, MainTask
    PROVE  CoverInv'
<1> USE DEF mainVars, stateVars, gateVars, serverVars, envVars
<1>0. /\ i \in 0..NumPhases /\ resume \in 0..NumPhases /\ checkpoint \in 0..NumPhases
      /\ NumPhases \in Nat
      /\ HeldBelow(checkpoint) /\ HeldBelow(resume) /\ HeldBelow(i)
      /\ complete => pc \in {"cleanup", "linger"} /\ i >= NumPhases
  BY CountsAssumption DEF TypeInv, TypeOK, CoverInv
<1>1. CASE AllReadyReceived \/ MarkPhase \/ SendPrepare \/ AckPause \/ SendTransition
  <2>1. /\ UNCHANGED <<i, resume, complete, checkpoint, held>>
        /\ pc \notin {"cleanup", "linger"}
    BY <1>1 DEF AllReadyReceived, MarkPhase, SendPrepare, AckPause, SendTransition
  <2>2. QED
    BY <1>0, <2>1 DEF CoverInv, HeldBelow
<1>2. CASE SkipPhase
  <2>1. /\ i < resume /\ i' = i + 1 /\ pc = "loop"
        /\ UNCHANGED <<resume, complete, checkpoint, held>>
    BY <1>2 DEF SkipPhase
  <2>2. HeldBelow(i)'
    BY <1>0, <2>1 DEF HeldBelow
  <2>3. QED
    BY <1>0, <2>1, <2>2 DEF CoverInv, HeldBelow
<1>3. CASE WriteCheckpoint
  <2>1. /\ checkpoint' \in {checkpoint, i} /\ pc = "loop"
        /\ UNCHANGED <<i, resume, complete, held>>
    BY <1>3 DEF WriteCheckpoint, CheckpointValue
  <2>2. HeldBelow(checkpoint)'
    BY <1>0, <2>1 DEF HeldBelow
  <2>3. QED
    BY <1>0, <2>1, <2>2 DEF CoverInv, HeldBelow
<1>4. CASE HoldPhase
  <2>1. /\ i' = i + 1 /\ held' = held \cup {i} /\ pc = "hold"
        /\ UNCHANGED <<resume, complete, checkpoint>>
    BY <1>4 DEF HoldPhase
  <2>2. HeldBelow(i)'
    BY <1>0, <2>1 DEF HeldBelow
  <2>3. QED
    BY <1>0, <2>1, <2>2 DEF CoverInv, HeldBelow
<1>5. CASE FinishTimeline
  <2>1. /\ ~(i < NumPhases) /\ pc' = "cleanup"
        /\ UNCHANGED <<i, resume, checkpoint, held>>
    BY <1>5 DEF FinishTimeline, MorePhases
  <2>2. QED
    BY <1>0, <2>1 DEF CoverInv, HeldBelow
<1>6. CASE RemoveCheckpoint
  <2>1. /\ checkpoint' \in {checkpoint, 0} /\ pc' = "linger"
        /\ UNCHANGED <<i, resume, complete, held>>
    BY <1>6 DEF RemoveCheckpoint
  <2>2. HeldBelow(checkpoint)'
    BY <1>0, <2>1, NoneBelowZero DEF HeldBelow
  <2>3. QED
    BY <1>0, <2>1, <2>2 DEF CoverInv, HeldBelow
<1>7. CASE ExitProcess
  BY <1>7, CoverProcessEnds DEF ExitProcess
<1>8. QED
  BY <1>1, <1>2, <1>3, <1>4, <1>5, <1>6, <1>7 DEF MainTask

LEMMA NextCover == TypeInv /\ CoverInv /\ [Next]_vars => CoverInv'
<1> SUFFICES ASSUME TypeInv, CoverInv, [Next]_vars
             PROVE  CoverInv'
  OBVIOUS
<1>1. CASE UNCHANGED <<pc, i, resume, complete, checkpoint, held>>
  BY <1>1 DEF CoverInv, HeldBelow
<1>2. CASE UNCHANGED vars
  BY <1>1, <1>2 DEF vars, mainVars, stateVars, envVars
<1>3. CASE Boot
  <2>1. /\ resume' \in {checkpoint, 0} /\ pc = "down"
        /\ UNCHANGED <<i, complete, checkpoint, held>>
    BY <1>3 DEF Boot, stateVars
  <2>2. HeldBelow(resume)'
    BY <2>1, NoneBelowZero DEF CoverInv, HeldBelow
  <2>3. QED
    BY <2>1, <2>2 DEF CoverInv, HeldBelow
<1>4. CASE ControllerFault
  BY <1>4, CoverProcessEnds DEF ControllerFault, WaitTimesOut, CrashController
<1>5. CASE \E w \in Workers, k \in 1..MaxLives : ServerStream(w, k)
  BY <1>1, <1>5
     DEF ServerStream, ReceiveReady, ReceiveAck, ReceiveDone, Disconnect,
         mainVars, stateVars, envVars
<1>6. CASE \E w \in Workers : WorkerStep(w) \/ WorkerFault(w)
  BY <1>1, <1>6
     DEF WorkerStep, WorkerFault, Connect, Inbound, InboundEnds, TakePrepare,
         TakeTransition, LeaveLoop, CrashWorker, BreakLink, mainVars, stateVars, envVars
<1>7. QED
  BY <1>2, <1>3, <1>4, <1>5, <1>6, CoverMainTask DEF Next

LEMMA InitCover == Init => CoverInv
BY NoneBelowZero DEF Init, CoverInv, HeldBelow

\* When a process reports timeline_complete, every phase was held to its end, by it or
\* by one before it whose checkpoint it resumed from.
THEOREM TimelineFullyHeld == Spec => []CompleteCoversTimeline
<1>1. TypeInv /\ CoverInv => CompleteCoversTimeline
  BY CountsAssumption DEF CoverInv, HeldBelow, CompleteCoversTimeline, TypeInv, TypeOK
<1>2. Spec => []CoverInv
  BY InitCover, TypeInvariant, NextCover, PTL DEF Spec
<1>3. QED
  BY <1>1, <1>2, TypeInvariant, PTL
-----------------------------------------------------------------------------
(***************************************************************************)
(* Phases one after the other.  What a worker process has been announced   *)
(* and has not yet begun is its event channel followed by the messages on  *)
(* the way.  A worker joins a stream once (READY is sent once), and from   *)
(* then on it is announced every phase until its registration or its link  *)
(* is lost; neither comes back in the life of the process.                 *)
(***************************************************************************)

Sent(w) == events[w] \o toWorker[w]

Running(w) == wpc[w] = "running"

\* The places of the phases in a queue of messages.
Announced(q) == {j \in 1..Len(q) : q[j].type = "transition"}

\* The phases in q rise by one, from the phase p that runs if there is one.
InOrder(q, run, p) ==
    /\ \A a, b \in Announced(q) : a < b => q[a].phase < q[b].phase
    /\ run => \A b \in Announced(q) : p < q[b].phase
    /\ \A b \in Announced(q) :
          \/ run /\ q[b].phase = p + 1
          \/ ~run /\ \A a \in Announced(q) : b <= a
          \/ \E a \in Announced(q) : a < b /\ q[b].phase = q[a].phase + 1

\* The phase n comes next after those that run or are announced.
EndsAt(q, run, p, n) ==
    /\ \A b \in Announced(q) : q[b].phase < n
    /\ run => p < n
    /\ \/ run /\ p + 1 = n
       \/ \E b \in Announced(q) : q[b].phase + 1 = n

\* The phase that the main task announces next.
NextAnnounced == IF pc = "hold" THEN i + 1 ELSE i

Untouched(w) == ~Running(w) /\ Announced(Sent(w)) = {}

WorkerOrder(w) ==
    /\ wpc[w] # "off" => InOrder(Sent(w), Running(w), wphase[w])
    /\ Reaches(w) =>
          \/ Untouched(w)
          \/ /\ i >= resume /\ pc # "waiting"
             /\ EndsAt(Sent(w), Running(w), wphase[w], NextAnnounced)
    /\ linkUp[w] =>
          /\ life[w] \in 1..MaxLives /\ pc # "down"
          /\ ~named[<<w, life[w]>>] => wpc[w] = "waiting" /\ Sent(w) = << >>

NoReady(q) == \A j \in 1..Len(q) : q[j] # "ready"

\* READY is the first message of its stream and is sent once.
ReadyOnce(s) ==
    /\ \A j \in 2..Len(toServer[s]) : toServer[s][j] # "ready"
    /\ named[s] => NoReady(toServer[s])
    /\ s[2] > life[s[1]] => ~named[s] /\ toServer[s] = << >>

LoopResumed ==
    pc \in {"mark", "prepare", "acks", "transition", "hold"} => i >= resume

OrderInv ==
    /\ LoopResumed
    /\ \A s \in Streams : ReadyOnce(s)
    /\ \A w \in Workers : WorkerOrder(w)

-----------------------------------------------------------------------------
(* Lemmas about queues of messages *)

LEMMA SentType ==
    ASSUME TypeOK, NEW w \in Workers
    PROVE  /\ events[w] \in Seq(ControllerMessage)
           /\ toWorker[w] \in Seq(ControllerMessage)
           /\ Sent(w) \in Seq(ControllerMessage)
<1>1. /\ events[w] \in Seq(ControllerMessage)
      /\ toWorker[w] \in Seq(ControllerMessage)
  BY DEF TypeOK
<1>2. QED
  BY <1>1, ConcatProperties DEF Sent

LEMMA MovedOver ==
    ASSUME NEW S, NEW e \in Seq(S), NEW t \in Seq(S), t # << >>
    PROVE  Append(e, Head(t)) \o Tail(t) = e \o t
<1>1. Head(t) \in S /\ <<Head(t)>> \in Seq(S) /\ Tail(t) \in Seq(S)
  BY HeadTailProperties
<1>2. Append(e, Head(t)) = e \o <<Head(t)>>
  BY <1>1, AppendIsConcat
<1>3. (e \o <<Head(t)>>) \o Tail(t) = e \o (<<Head(t)>> \o Tail(t))
  BY <1>1, ConcatAssociative
<1>4. <<Head(t)>> \o Tail(t) = t
  <2>1. /\ <<Head(t)>> \o Tail(t) \in Seq(S)
        /\ Len(<<Head(t)>> \o Tail(t)) = 1 + Len(Tail(t))
        /\ \A j \in 1..(1 + Len(Tail(t))) :
              (<<Head(t)>> \o Tail(t))[j] = IF j <= 1 THEN Head(t) ELSE Tail(t)[j - 1]
    BY <1>1, ConcatProperties
  <2>2. /\ Len(t) \in Nat /\ Len(Tail(t)) = Len(t) - 1 /\ Head(t) = t[1]
        /\ \A j \in 1..(Len(t) - 1) : Tail(t)[j] = t[j + 1]
    BY HeadTailProperties
  <2>3. \A j \in 1..Len(t) : (<<Head(t)>> \o Tail(t))[j] = t[j]
    BY <2>1, <2>2
  <2>4. QED
    BY <2>1, <2>2, <2>3, SeqEqual
<1>5. QED
  BY <1>2, <1>3, <1>4

LEMMA AppendedOver ==
    ASSUME NEW e \in Seq(ControllerMessage), NEW t \in Seq(ControllerMessage),
           NEW m \in ControllerMessage
    PROVE  e \o Append(t, m) = Append(e \o t, m)
<1>1. <<m>> \in Seq(ControllerMessage) /\ e \o t \in Seq(ControllerMessage)
  BY ConcatProperties
<1>2. Append(t, m) = t \o <<m>> /\ Append(e \o t, m) = (e \o t) \o <<m>>
  BY <1>1, AppendIsConcat
<1>3. QED
  BY <1>1, <1>2, ConcatAssociative

LEMMA TailOver ==
    ASSUME NEW S, NEW e \in Seq(S), NEW t \in Seq(S), e # << >>
    PROVE  /\ Tail(e) \o t = Tail(e \o t)
           /\ Head(e) = Head(e \o t)
           /\ e \o t # << >>
<1>1. /\ e \o t \in Seq(S)
      /\ Len(e \o t) = Len(e) + Len(t)
      /\ \A j \in 1..(Len(e) + Len(t)) :
            (e \o t)[j] = IF j <= Len(e) THEN e[j] ELSE t[j - Len(e)]
  BY ConcatProperties
<1>2. /\ Tail(e) \in Seq(S) /\ Len(Tail(e)) = Len(e) - 1 /\ Head(e) = e[1]
      /\ \A j \in 1..(Len(e) - 1) : Tail(e)[j] = e[j + 1]
      /\ Len(e) \in Nat \ {0} /\ Len(t) \in Nat
  BY HeadTailProperties
<1>3. e \o t # << >>
  BY <1>1, <1>2
<1>4. /\ Tail(e \o t) \in Seq(S) /\ Len(Tail(e \o t)) = Len(e) + Len(t) - 1
      /\ Head(e \o t) = (e \o t)[1]
      /\ \A j \in 1..(Len(e) + Len(t) - 1) : Tail(e \o t)[j] = (e \o t)[j + 1]
  BY <1>1, <1>2, <1>3, HeadTailProperties
<1>5. /\ Tail(e) \o t \in Seq(S)
      /\ Len(Tail(e) \o t) = (Len(e) - 1) + Len(t)
      /\ \A j \in 1..((Len(e) - 1) + Len(t)) :
            (Tail(e) \o t)[j] = IF j <= Len(e) - 1 THEN Tail(e)[j] ELSE t[j - (Len(e) - 1)]
  BY <1>2, ConcatProperties
<1>6. ASSUME NEW j \in 1..((Len(e) - 1) + Len(t))
      PROVE  (Tail(e) \o t)[j] = Tail(e \o t)[j]
  <2>1. CASE j <= Len(e) - 1
    BY <1>1, <1>2, <1>4, <1>5, <2>1
  <2>2. CASE j > Len(e) - 1
    <3>1. (e \o t)[j + 1] = t[(j + 1) - Len(e)] /\ (j + 1) - Len(e) = j - (Len(e) - 1)
      BY <1>1, <1>2, <2>2
    <3>2. QED
      BY <1>2, <1>4, <1>5, <2>2, <3>1
  <2>3. QED
    BY <1>2, <2>1, <2>2
<1>7. Tail(e) \o t = Tail(e \o t)
  BY <1>2, <1>4, <1>5, <1>6, SeqEqual
<1>8. Head(e) = Head(e \o t)
  BY <1>1, <1>2, <1>4
<1>9. QED
  BY <1>3, <1>7, <1>8

\* Dropping the messages on the way leaves a beginning of the queue.
LEMMA InOrderDropped ==
    ASSUME NEW e \in Seq(ControllerMessage), NEW t \in Seq(ControllerMessage),
           NEW run, NEW p, InOrder(e \o t, run, p)
    PROVE  InOrder(e, run, p)
<1>1. /\ Len(e \o t) = Len(e) + Len(t) /\ Len(e) \in Nat /\ Len(t) \in Nat
      /\ \A j \in 1..Len(e) : (e \o t)[j] = e[j]
  BY ConcatProperties
<1>2. \A j \in 1..Len(e) : j \in 1..Len(e \o t)
  BY <1>1
<1>3. /\ \A j \in Announced(e) : j \in Announced(e \o t) /\ (e \o t)[j] = e[j]
      /\ \A b \in Announced(e) : \A a \in Announced(e \o t) : a < b => a \in Announced(e)
  BY <1>1, <1>2 DEF Announced
<1>4. QED
  BY <1>3 DEF InOrder

\* A message that announces no phase changes nothing.
LEMMA AppendOther ==
    ASSUME NEW q \in Seq(ControllerMessage), NEW m \in ControllerMessage,
           m.type # "transition"
    PROVE  /\ Announced(Append(q, m)) = Announced(q)
           /\ \A j \in Announced(q) : Append(q, m)[j] = q[j]
           /\ \A run, p : InOrder(q, run, p) => InOrder(Append(q, m), run, p)
           /\ \A run, p, n : EndsAt(q, run, p, n) => EndsAt(Append(q, m), run, p, n)
<1> DEFINE r == Append(q, m)
<1>1. /\ Len(q) \in Nat /\ Len(r) = Len(q) + 1 /\ r[Len(q) + 1] = m
      /\ \A j \in 1..Len(q) : r[j] = q[j]
  <2>1. Len(q) \in Nat /\ DOMAIN q = 1..Len(q)
    BY LenProperties
  <2>2. Len(r) = Len(q) + 1
    BY AppendProperties
  <2>3. r[Len(q) + 1] = m
    BY AppendProperties
  <2>4. \A j \in 1..Len(q) : r[j] = q[j]
    BY AppendProperties
  <2>5. QED
    BY <2>1, <2>2, <2>3, <2>4
<1> HIDE DEF r
<1>2. \A j \in 1..(Len(q) + 1) : j \in 1..Len(q) \/ j = Len(q) + 1
  BY <1>1
<1>3. Announced(r) = Announced(q) /\ \A j \in Announced(q) : r[j] = q[j]
  BY <1>1, <1>2 DEF Announced
<1>4. \A run, p : InOrder(q, run, p) => InOrder(r, run, p)
  BY <1>3 DEF InOrder
<1>5. \A run, p, n : EndsAt(q, run, p, n) => EndsAt(r, run, p, n)
  BY <1>3 DEF EndsAt
<1>6. QED
  BY <1>3, <1>4, <1>5 DEF r

\* The next phase is announced.
LEMMA AppendNext ==
    ASSUME NEW q \in Seq(ControllerMessage), NEW m \in ControllerMessage,
           NEW run, NEW p \in Nat, m.type = "transition", InOrder(q, run, p),
           \/ ~run /\ Announced(q) = {}
           \/ EndsAt(q, run, p, m.phase)
    PROVE  /\ InOrder(Append(q, m), run, p)
           /\ EndsAt(Append(q, m), run, p, m.phase + 1)
<1> DEFINE r == Append(q, m)
           z == Len(q) + 1
<1>1. /\ Len(q) \in Nat /\ Len(r) = z /\ r[z] = m
      /\ \A j \in 1..Len(q) : r[j] = q[j]
  OBVIOUS
<1>2. \A j \in 1..Len(q) : q[j] \in ControllerMessage
  OBVIOUS
<1> HIDE DEF r
<1>3. /\ \A j \in 1..z : j \in 1..Len(q) \/ j = z
      /\ \A j \in 1..Len(q) : j < z /\ j \in 1..z
      /\ z \in 1..z
  BY <1>1
<1>4. /\ Announced(r) = Announced(q) \cup {z}
      /\ \A j \in Announced(q) : r[j] = q[j] /\ j < z /\ j \in Nat
      /\ z \in Nat
  BY <1>1, <1>3 DEF Announced
<1>5. /\ m.phase \in Nat
      /\ \A j \in Announced(q) : q[j].phase \in Nat
  BY <1>2, CountsAssumption DEF ControllerMessage, Announced
<1> HIDE DEF z
<1>6. CASE ~run /\ Announced(q) = {}
  <2>1. Announced(r) = {z} /\ r[z] = m /\ ~run /\ z <= z /\ ~(z < z)
    BY <1>1, <1>4, <1>6
  <2>2. InOrder(r, run, p)
    BY <2>1 DEF InOrder
  <2>3. m.phase < m.phase + 1
    BY <1>5
  <2>4. EndsAt(r, run, p, m.phase + 1)
    BY <2>1, <2>3 DEF EndsAt
  <2>5. QED
    BY <2>2, <2>4 DEF r
<1>7. CASE EndsAt(q, run, p, m.phase)
  <2>1. \A a, b \in Announced(r) : a < b => r[a].phase < r[b].phase
    BY <1>1, <1>4, <1>7 DEF InOrder, EndsAt
  <2>2. run => \A b \in Announced(r) : p < r[b].phase
    BY <1>1, <1>4, <1>7 DEF InOrder, EndsAt
  <2>3. ASSUME NEW b \in Announced(q)
        PROVE  \/ run /\ r[b].phase = p + 1
               \/ ~run /\ \A a \in Announced(r) : b <= a
               \/ \E a \in Announced(r) : a < b /\ r[b].phase = r[a].phase + 1
    BY <1>4 DEF InOrder
  <2>4. \/ run /\ r[z].phase = p + 1
        \/ \E a \in Announced(r) : a < z /\ r[z].phase = r[a].phase + 1
    BY <1>1, <1>4, <1>7 DEF EndsAt
  <2>5. InOrder(r, run, p)
    BY <1>4, <2>1, <2>2, <2>3, <2>4 DEF InOrder
  <2>6. EndsAt(r, run, p, m.phase + 1)
    <3>1. \A b \in Announced(r) : r[b].phase < m.phase + 1
      BY <1>1, <1>4, <1>5, <1>7 DEF EndsAt
    <3>2. run => p < m.phase + 1
      <4>1. ASSUME run
            PROVE  p < m.phase + 1
        <5>1. p < m.phase
          BY <1>7, <4>1 DEF EndsAt
        <5>2. QED
          BY <1>5, <5>1
      <4>2. QED
        BY <4>1
    <3>3. z \in Announced(r) /\ r[z].phase + 1 = m.phase + 1
      BY <1>1, <1>4
    <3>4. QED
      BY <3>1, <3>2, <3>3 DEF EndsAt
  <2>7. QED
    BY <2>5, <2>6 DEF r
<1>8. QED
  BY <1>6, <1>7 DEF r
\* The oldest message leaves the queue, and a phase that it announces begins.
LEMMA TakeHead ==
    ASSUME NEW q \in Seq(ControllerMessage), q # << >>, NEW run, NEW p \in Nat,
           InOrder(q, run, p)
    PROVE  /\ Head(q).type # "transition" =>
                 /\ InOrder(Tail(q), run, p)
                 /\ \A n : EndsAt(q, run, p, n) => EndsAt(Tail(q), run, p, n)
                 /\ Announced(q) = {} => Announced(Tail(q)) = {}
           /\ Head(q).type = "transition" =>
                 /\ Announced(q) # {}
                 /\ run => Head(q).phase = p + 1
                 /\ InOrder(Tail(q), TRUE, Head(q).phase)
                 /\ \A n : EndsAt(q, run, p, n)
                              => EndsAt(Tail(q), TRUE, Head(q).phase, n)
<1> DEFINE r == Tail(q)
           h == Head(q)
<1>1. /\ Len(q) \in Nat \ {0} /\ h = q[1] /\ Len(r) = Len(q) - 1
      /\ \A j \in 1..Len(r) : r[j] = q[j + 1]
  BY HeadTailProperties
<1>2. \A j \in 1..Len(q) : q[j] \in ControllerMessage
  OBVIOUS
<1> HIDE DEF r, h
<1>3. /\ \A j \in Announced(q) : q[j].phase \in Nat /\ j \in Nat /\ j >= 1
      /\ \A j \in Announced(r) : j \in Nat /\ j >= 1
  BY <1>1, <1>2, CountsAssumption DEF ControllerMessage, Announced
<1>4. \A j \in Announced(r) : j + 1 \in Announced(q) /\ r[j] = q[j + 1]
  BY <1>1 DEF Announced
<1>5. \A j \in Announced(q) : j # 1 => j - 1 \in Announced(r) /\ r[j - 1] = q[j]
  <2> SUFFICES ASSUME NEW j \in Announced(q), j # 1
               PROVE  j - 1 \in Announced(r) /\ r[j - 1] = q[j]
    OBVIOUS
  <2>1. j \in 1..Len(q) /\ q[j].type = "transition"
    BY DEF Announced
  <2>2. j - 1 \in 1..Len(r) /\ (j - 1) + 1 = j
    BY <1>1, <2>1
  <2>3. r[j - 1] = q[j]
    BY <1>1, <2>2
  <2>4. QED
    BY <2>1, <2>2, <2>3 DEF Announced
<1>6. \A a, b \in Announced(r) : a < b => r[a].phase < r[b].phase
  BY <1>3, <1>4 DEF InOrder
<1>7. 1 \in Announced(q) <=> h.type = "transition"
  BY <1>1 DEF Announced
<1>8. CASE h.type # "transition"
  <2>1. \A j \in Announced(q) : j - 1 \in Announced(r) /\ r[j - 1] = q[j]
    BY <1>5, <1>7, <1>8
  <2>2. run => \A b \in Announced(r) : p < r[b].phase
    BY <1>4 DEF InOrder
  <2>3. ASSUME NEW b \in Announced(r)
        PROVE  \/ run /\ r[b].phase = p + 1
               \/ ~run /\ \A a \in Announced(r) : b <= a
               \/ \E a \in Announced(r) : a < b /\ r[b].phase = r[a].phase + 1
    <3>1. \/ run /\ q[b + 1].phase = p + 1
          \/ ~run /\ \A a \in Announced(q) : b + 1 <= a
          \/ \E a \in Announced(q) : a < b + 1 /\ q[b + 1].phase = q[a].phase + 1
      BY <1>4 DEF InOrder
    <3>2. CASE ~run /\ \A a \in Announced(q) : b + 1 <= a
      BY <1>3, <1>4, <3>2
    <3>3. CASE \E a \in Announced(q) : a < b + 1 /\ q[b + 1].phase = q[a].phase + 1
      <4>1. PICK a \in Announced(q) : a < b + 1 /\ q[b + 1].phase = q[a].phase + 1
        BY <3>3
      <4>2. a - 1 \in Announced(r) /\ r[a - 1] = q[a] /\ a - 1 < b
        BY <1>3, <2>1, <4>1
      <4>3. QED
        BY <1>4, <4>1, <4>2
    <3>4. QED
      BY <1>4, <3>1, <3>2, <3>3
  <2>4. InOrder(r, run, p)
    BY <1>6, <2>2, <2>3 DEF InOrder
  <2>5. ASSUME NEW n, EndsAt(q, run, p, n)
        PROVE  EndsAt(r, run, p, n)
    BY <1>4, <2>1, <2>5 DEF EndsAt
  <2>6. Announced(q) = {} => Announced(r) = {}
    BY <1>4
  <2>7. QED
    BY <1>8, <2>4, <2>5, <2>6 DEF r, h
<1>9. CASE h.type = "transition"
  <2>1. 1 \in Announced(q) /\ q[1] = h /\ h.phase \in Nat
    BY <1>1, <1>3, <1>7, <1>9
  <2>2. run => h.phase = p + 1
    <3>1. ASSUME run
          PROVE  h.phase = p + 1
      <4>1. \/ run /\ q[1].phase = p + 1
            \/ ~run
            \/ \E a \in Announced(q) : a < 1 /\ q[1].phase = q[a].phase + 1
        BY <2>1 DEF InOrder
      <4>2. \A a \in Announced(q) : ~(a < 1)
        BY <1>3
      <4>3. QED
        BY <2>1, <3>1, <4>1, <4>2
    <3>2. QED
      BY <3>1
  <2>3. \A b \in Announced(r) : h.phase < r[b].phase
    <3> SUFFICES ASSUME NEW b \in Announced(r)
                 PROVE  h.phase < r[b].phase
      OBVIOUS
    <3>1. 1 < b + 1 /\ b + 1 \in Announced(q) /\ r[b] = q[b + 1]
      BY <1>3, <1>4
    <3>2. QED
      BY <2>1, <3>1 DEF InOrder
  <2>4. ASSUME NEW b \in Announced(r)
        PROVE  \/ r[b].phase = h.phase + 1
               \/ \E a \in Announced(r) : a < b /\ r[b].phase = r[a].phase + 1
    <3>1. /\ b + 1 \in Announced(q) /\ r[b] = q[b + 1] /\ ~(b + 1 <= 1)
          /\ h.phase < r[b].phase
      BY <1>3, <1>4, <2>3
    <3>2. \/ run /\ q[b + 1].phase = p + 1
          \/ ~run /\ \A a \in Announced(q) : b + 1 <= a
          \/ \E a \in Announced(q) : a < b + 1 /\ q[b + 1].phase = q[a].phase + 1
      BY <3>1 DEF InOrder
    <3>3. ~(run /\ q[b + 1].phase = p + 1)
      BY <1>3, <2>1, <2>2, <3>1
    <3>4. PICK a \in Announced(q) : a < b + 1 /\ q[b + 1].phase = q[a].phase + 1
      BY <2>1, <3>1, <3>2, <3>3
    <3>5. CASE a = 1
      BY <2>1, <3>1, <3>4, <3>5
    <3>6. CASE a # 1
      <4>1. a - 1 \in Announced(r) /\ r[a - 1] = q[a] /\ a - 1 < b
        BY <1>3, <1>5, <3>4, <3>6
      <4>2. QED
        BY <3>1, <3>4, <4>1
    <3>7. QED
      BY <3>5, <3>6
  <2>5. InOrder(r, TRUE, h.phase)
    BY <1>6, <2>3, <2>4 DEF InOrder
  <2>6. ASSUME NEW n, EndsAt(q, run, p, n)
        PROVE  EndsAt(r, TRUE, h.phase, n)
    <3>1. h.phase < n /\ \A b \in Announced(r) : r[b].phase < n
      BY <1>4, <2>1, <2>6 DEF EndsAt
    <3>2. \/ run /\ p + 1 = n
          \/ \E b \in Announced(q) : q[b].phase + 1 = n
      BY <2>6 DEF EndsAt
    <3>3. ~(run /\ p + 1 = n)
      BY <2>1, <2>2, <3>1
    <3>4. PICK b \in Announced(q) : q[b].phase + 1 = n
      BY <3>2, <3>3
    <3>5. CASE b = 1
      BY <2>1, <3>1, <3>4, <3>5 DEF EndsAt
    <3>6. CASE b # 1
      BY <1>5, <3>1, <3>4, <3>6 DEF EndsAt
    <3>7. QED
      BY <3>5, <3>6
  <2>7. QED
    BY <1>9, <2>1, <2>2, <2>5, <2>6 DEF r, h
<1>10. QED
  BY <1>8, <1>9 DEF h
-----------------------------------------------------------------------------
(* READY is sent once *)

\* While a phase runs, the one that is announced first is the next.
LEMMA HeadIsNext ==
    ASSUME NEW q \in Seq(ControllerMessage), q # << >>, NEW run, run, NEW p \in Nat,
           InOrder(q, run, p), Head(q).type = "transition"
    PROVE  Head(q).phase = p + 1
<1>1. Head(q) = q[1] /\ Len(q) \in Nat \ {0}
  OBVIOUS
<1>2. 1 \in Announced(q) /\ \A a \in Announced(q) : ~(a < 1)
  BY <1>1 DEF Announced
<1>3. QED
  BY <1>1, <1>2 DEF InOrder

LEMMA ReadyTail ==
    ASSUME NEW q \in Seq(WorkerMessage), q # << >>,
           \A j \in 2..Len(q) : q[j] # "ready"
    PROVE  NoReady(Tail(q))
<1>1. Len(q) \in Nat /\ Len(Tail(q)) = Len(q) - 1
  BY HeadTailProperties
<1>2. \A j \in 1..Len(Tail(q)) : Tail(q)[j] = q[j + 1] /\ j + 1 \in 2..Len(q)
  BY <1>1, HeadTailProperties
<1>3. QED
  BY <1>2 DEF NoReady

LEMMA ReadyAppend ==
    ASSUME NEW q \in Seq(WorkerMessage), NEW m \in WorkerMessage, m # "ready",
           \A j \in 2..Len(q) : q[j] # "ready"
    PROVE  /\ \A j \in 2..Len(Append(q, m)) : Append(q, m)[j] # "ready"
           /\ NoReady(q) => NoReady(Append(q, m))
<1>1. \A j \in 1..Len(Append(q, m)) :
        \/ j \in 1..Len(q) /\ Append(q, m)[j] = q[j]
        \/ Append(q, m)[j] = m
  OBVIOUS
<1>2. Len(q) \in Nat /\ Len(Append(q, m)) \in Nat
  OBVIOUS
<1>3. QED
  BY <1>1, <1>2 DEF NoReady

LEMMA ReadyNone == NoReady(<< >>) /\ \A j : j \notin 2..Len(<< >>)
BY DEF NoReady

\* The server reads a message; the stream may get its worker's name.
LEMMA ReadyDelivered ==
    ASSUME TypeOK, \A s \in Streams : ReadyOnce(s),
           NEW w \in Workers, NEW k \in 1..MaxLives, NEW m, Delivered(w, k, m),
           life' = life, named' \in {named, [named EXCEPT ![<<w, k>>] = TRUE]}
    PROVE  \A s \in Streams : ReadyOnce(s)'
<1> SUFFICES ASSUME NEW s \in Streams
             PROVE  ReadyOnce(s)'
  OBVIOUS
<1>1. /\ toServer[<<w, k>>] # << >> /\ <<w, k>> \in Streams
      /\ toServer' = [toServer EXCEPT ![<<w, k>>] = Tail(@)]
      /\ toServer \in [Streams -> Seq(WorkerMessage)]
      /\ named \in [Streams -> BOOLEAN]
      /\ ReadyOnce(s)
  BY DEF Delivered, Streams, TypeOK
<1>2. CASE s = <<w, k>>
  <2>1. toServer'[s] = Tail(toServer[s]) /\ toServer[s] \in Seq(WorkerMessage)
    BY <1>1, <1>2
  <2>2. NoReady(Tail(toServer[s])) /\ ~(s[2] > life[s[1]])
    BY <1>1, <1>2, ReadyTail DEF ReadyOnce
  <2>3. \A j \in 2..Len(toServer'[s]) : j \in 1..Len(toServer'[s])
    OBVIOUS
  <2>4. QED
    BY <2>1, <2>2, <2>3 DEF ReadyOnce, NoReady
<1>3. CASE s # <<w, k>>
  <2>1. toServer'[s] = toServer[s] /\ named'[s] = named[s]
    BY <1>1, <1>3
  <2>2. QED
    BY <1>1, <2>1 DEF ReadyOnce
<1>4. QED
  BY <1>2, <1>3

\* A worker sends an ack or DONE on its latest stream.
LEMMA ReadyReplied ==
    ASSUME TypeOK, \A s \in Streams : ReadyOnce(s),
           NEW w \in Workers, NEW m \in {"ack", "done"}, Reply(w, m),
           linkUp[w] => life[w] \in 1..MaxLives, UNCHANGED <<life, named>>
    PROVE  \A s \in Streams : ReadyOnce(s)'
<1> SUFFICES ASSUME NEW s \in Streams
             PROVE  ReadyOnce(s)'
  OBVIOUS
<1>1. toServer \in [Streams -> Seq(WorkerMessage)] /\ ReadyOnce(s)
  BY DEF TypeOK
<1>2. CASE linkUp[w] /\ s = <<w, life[w]>>
  <2>1. toServer'[s] = Append(toServer[s], m) /\ toServer[s] \in Seq(WorkerMessage)
    BY <1>1, <1>2 DEF Reply
  <2>2. m \in WorkerMessage /\ m # "ready"
    BY DEF WorkerMessage
  <2>3. /\ \A j \in 2..Len(toServer'[s]) : toServer'[s][j] # "ready"
        /\ NoReady(toServer[s]) => NoReady(toServer'[s])
    BY <1>1, <2>1, <2>2, ReadyAppend DEF ReadyOnce
  <2>4. ~(s[2] > life[s[1]])
    BY <1>2
  <2>5. QED
    BY <1>1, <2>3, <2>4 DEF ReadyOnce, NoReady
<1>3. CASE ~(linkUp[w] /\ s = <<w, life[w]>>)
  <2>1. toServer'[s] = toServer[s]
    BY <1>1, <1>3 DEF Reply
  <2>2. QED
    BY <1>1, <2>1 DEF ReadyOnce
<1>4. QED
  BY <1>2, <1>3

LEMMA ReadySame ==
    ASSUME \A s \in Streams : ReadyOnce(s), UNCHANGED <<toServer, named, life>>
    PROVE  \A s \in Streams : ReadyOnce(s)'
BY DEF ReadyOnce, NoReady

-----------------------------------------------------------------------------
(* The steps of the controller *)

\* Nothing that concerns the order of worker v's phases has changed.
LEMMA OrderKept ==
    ASSUME NEW v \in Workers, WorkerOrder(v), UNCHANGED <<pc, i, resume>>,
           wpc'[v] = wpc[v], events'[v] = events[v], toWorker'[v] = toWorker[v],
           wphase'[v] = wphase[v], linkUp'[v] = linkUp[v], life'[v] = life[v],
           Reaches(v)' => Reaches(v),
           linkUp[v] => named'[<<v, life[v]>>] = named[<<v, life[v]>>]
    PROVE  WorkerOrder(v)'
<1>1. Sent(v)' = Sent(v) /\ Running(v)' = Running(v) /\ NextAnnounced' = NextAnnounced
  BY DEF Sent, Running, NextAnnounced
<1>2. Untouched(v)' = Untouched(v)
  BY <1>1 DEF Untouched
<1>3. QED
  BY <1>1, <1>2 DEF WorkerOrder

\* The main task goes on without a broadcast.
LEMMA OrderAdvances ==
    ASSUME OrderInv, UNCHANGED <<workerVars, gateVars, serverVars>>,
           pc' # "down", LoopResumed',
           i >= resume /\ pc # "waiting" =>
               i' >= resume' /\ pc' # "waiting" /\ NextAnnounced' = NextAnnounced
    PROVE  OrderInv'
<1>1. \A s \in Streams : ReadyOnce(s)'
  BY ReadySame DEF OrderInv, workerVars, serverVars
<1>2. ASSUME NEW v \in Workers
      PROVE  WorkerOrder(v)'
  <2>1. /\ Sent(v)' = Sent(v) /\ Running(v)' = Running(v)
        /\ Untouched(v)' = Untouched(v) /\ Reaches(v)' = Reaches(v)
    BY DEF Sent, Running, Untouched, Reaches, workerVars, gateVars
  <2>2. UNCHANGED <<wpc, wphase, linkUp, life, named>> /\ WorkerOrder(v)
    BY DEF workerVars, serverVars, OrderInv
  <2>3. QED
    BY <2>1, <2>2 DEF WorkerOrder
<1>3. QED
  BY <1>1, <1>2 DEF OrderInv

\* The main task sends a message to the workers it reaches.
LEMMA OrderBroadcast ==
    ASSUME TypeOK, PhaseInv, RegistryIsLive, OrderInv,
           NEW m \in ControllerMessage, Broadcast(m),
           UNCHANGED <<i, resume, gateVars, serverVars, wpc, life, linkUp, events, wphase>>,
           pc \notin {"down", "waiting", "hold"}, pc' \notin {"down", "waiting"},
           LoopResumed',
           \/ m.type # "transition" /\ NextAnnounced' = NextAnnounced
           \/ m = Message("transition", i) /\ NextAnnounced' = i + 1 /\ i >= resume
    PROVE  OrderInv'
<1>1. \A s \in Streams : ReadyOnce(s)'
  BY ReadySame DEF OrderInv, serverVars
<1>2. ASSUME NEW v \in Workers
      PROVE  WorkerOrder(v)'
  <2>1. /\ WorkerOrder(v) /\ WorkerWithin(v)
        /\ wphase[v] \in Nat /\ i \in Nat
    BY CountsAssumption DEF OrderInv, PhaseInv, TypeOK
  <2>2. /\ Reaches(v)' = Reaches(v) /\ Running(v)' = Running(v)
        /\ named' = named
    BY DEF Reaches, Running, gateVars, serverVars
  <2>3. CASE ~Reaches(v)
    <3>1. toWorker'[v] = toWorker[v]
      BY <2>3 DEF Broadcast
    <3>2. Sent(v)' = Sent(v)
      BY <3>1 DEF Sent
    <3>3. QED
      BY <2>1, <2>2, <2>3, <3>2 DEF WorkerOrder
  <2>4. CASE Reaches(v)
    <3> DEFINE q == Sent(v)
               run == Running(v)
    <3>1. toWorker'[v] = Append(toWorker[v], m)
      BY <2>4 DEF Broadcast
    <3>2. Sent(v)' = Append(q, m) /\ q \in Seq(ControllerMessage)
      <4>1. /\ events[v] \in Seq(ControllerMessage)
            /\ toWorker[v] \in Seq(ControllerMessage)
            /\ q \in Seq(ControllerMessage)
        BY SentType
      <4>2. events[v] \o Append(toWorker[v], m) = Append(events[v] \o toWorker[v], m)
        BY <4>1, AppendedOver
      <4>3. Sent(v)' = events[v] \o Append(toWorker[v], m)
        BY <3>1 DEF Sent
      <4>4. QED
        BY <4>1, <4>2, <4>3 DEF Sent
    <3>3. named[<<v, life[v]>>] /\ linkUp[v] /\ wpc[v] # "off"
      BY <2>1, <2>4 DEF Reaches, RegistryIsLive, WorkerWithin
    <3>4. /\ InOrder(q, run, wphase[v])
          /\ life[v] \in 1..MaxLives
          /\ \/ ~run /\ Announced(q) = {}
             \/ i >= resume /\ EndsAt(q, run, wphase[v], i)
      BY <2>1, <2>4, <3>3 DEF WorkerOrder, Untouched, NextAnnounced
    <3> HIDE DEF q, run
    <3>5. CASE m.type # "transition" /\ NextAnnounced' = NextAnnounced
      <4>1. /\ Announced(Append(q, m)) = Announced(q)
            /\ InOrder(Append(q, m), run, wphase[v])
            /\ EndsAt(q, run, wphase[v], i) => EndsAt(Append(q, m), run, wphase[v], i)
        BY <3>2, <3>4, <3>5, AppendOther
      <4>2. NextAnnounced' = i
        BY <3>5 DEF NextAnnounced
      <4>3. \/ Untouched(v)'
            \/ i >= resume /\ EndsAt(Append(q, m), run, wphase[v], i)
        BY <2>2, <3>2, <3>4, <4>1 DEF Untouched, run
      <4>4. QED
        BY <2>2, <3>2, <3>3, <3>4, <4>1, <4>2, <4>3 DEF WorkerOrder, run
    <3>6. CASE m = Message("transition", i) /\ NextAnnounced' = i + 1 /\ i >= resume
      <4>1. m.type = "transition" /\ m.phase = i
        BY <3>6 DEF Message
      <4>2. /\ InOrder(Append(q, m), run, wphase[v])
            /\ EndsAt(Append(q, m), run, wphase[v], i + 1)
        BY <2>1, <3>2, <3>4, <4>1, AppendNext
      <4>3. QED
        BY <2>2, <3>2, <3>3, <3>4, <3>6, <4>2 DEF WorkerOrder, run
    <3>7. QED
      BY <3>5, <3>6
  <2>5. QED
    BY <2>3, <2>4
<1>3. QED
  BY <1>1, <1>2 DEF OrderInv

LEMMA OrderProcessEnds ==
    ASSUME TypeOK, OrderInv, ProcessEnds
    PROVE  OrderInv'
<1>1. /\ toServer' = [s \in Streams |-> << >>] /\ named' = [s \in Streams |-> FALSE]
      /\ linkUp' = [w \in Workers |-> FALSE] /\ pc' = "down"
      /\ UNCHANGED <<wpc, life, toWorker, events, wphase>>
  BY DEF ProcessEnds
<1>2. \A s \in Streams : ReadyOnce(s)'
  BY <1>1, ReadyNone DEF ReadyOnce
<1>3. ASSUME NEW v \in Workers
      PROVE  WorkerOrder(v)'
  <2>1. Sent(v)' = Sent(v) /\ Running(v)' = Running(v) /\ ~linkUp'[v]
    BY <1>1 DEF Sent, Running
  <2>2. QED
    BY <1>1, <2>1 DEF WorkerOrder, OrderInv, Reaches
<1>4. LoopResumed'
  BY <1>1 DEF LoopResumed
<1>5. QED
  BY <1>2, <1>3, <1>4 DEF OrderInv

LEMMA OrderMainTask ==
    ASSUME TypeInv, PhaseInv, RegistryIsLive, OrderInv, MainTask
    PROVE  OrderInv'
<1> USE DEF mainVars, stateVars
<1>0. /\ i \in 0..NumPhases /\ i \in Nat /\ resume \in Nat /\ TypeOK /\ LoopResumed
  BY CountsAssumption DEF TypeInv, TypeOK, OrderInv
<1>1. CASE AllReadyReceived
  BY <1>1, OrderAdvances DEF AllReadyReceived, LoopResumed, NextAnnounced
<1>2. CASE SkipPhase
  BY <1>0, <1>2, OrderAdvances DEF SkipPhase, LoopResumed, NextAnnounced
<1>3. CASE WriteCheckpoint
  BY <1>3, OrderAdvances DEF WriteCheckpoint, LoopResumed, NextAnnounced
<1>4. CASE MarkPhase
  BY <1>0, <1>4, OrderAdvances DEF MarkPhase, LoopResumed, NextAnnounced
<1>5. CASE SendPrepare
  <2>1. Message("prepare", i) \in ControllerMessage /\ Message("prepare", i).type = "prepare"
    BY <1>0, MessageType DEF Message
  <2>2. /\ pc = "prepare" /\ pc' = "acks" /\ Broadcast(Message("prepare", i))
        /\ UNCHANGED <<i, resume, gateVars, serverVars, wpc, life, linkUp, events, wphase>>
    BY <1>5 DEF SendPrepare
  <2>3. LoopResumed' /\ NextAnnounced' = NextAnnounced
    BY <1>0, <2>2 DEF LoopResumed, NextAnnounced
  <2>4. QED
    BY <1>0, <2>1, <2>2, <2>3, OrderBroadcast
<1>6. CASE AckPause
  BY <1>0, <1>6, OrderAdvances DEF AckPause, LoopResumed, NextAnnounced
<1>7. CASE SendTransition
  <2>1. Message("transition", i) \in ControllerMessage
    BY <1>0, MessageType
  <2>2. /\ pc = "transition" /\ pc' = "hold" /\ Broadcast(Message("transition", i))
        /\ UNCHANGED <<i, resume, gateVars, serverVars, wpc, life, linkUp, events, wphase>>
    BY <1>7 DEF SendTransition
  <2>3. LoopResumed' /\ NextAnnounced' = i + 1 /\ i >= resume
    BY <1>0, <2>2 DEF LoopResumed, NextAnnounced
  <2>4. QED
    BY <1>0, <2>1, <2>2, <2>3, OrderBroadcast
<1>8. CASE HoldPhase
  <2>1. /\ pc = "hold" /\ pc' = "loop" /\ i' = i + 1 /\ resume' = resume
        /\ UNCHANGED <<workerVars, gateVars, serverVars>>
    BY <1>8 DEF HoldPhase
  <2>2. LoopResumed' /\ i' >= resume' /\ NextAnnounced' = NextAnnounced
    BY <1>0, <2>1 DEF LoopResumed, NextAnnounced
  <2>3. QED
    BY <2>1, <2>2, OrderAdvances
<1>9. CASE FinishTimeline
  <2>1. Message("complete", i) \in ControllerMessage /\ Message("complete", i).type = "complete"
    BY <1>0, MessageType DEF Message
  <2>2. /\ pc = "loop" /\ pc' = "cleanup" /\ Broadcast(Message("complete", i))
        /\ UNCHANGED <<i, resume, gateVars, serverVars, wpc, life, linkUp, events, wphase>>
    BY <1>9 DEF FinishTimeline
  <2>3. LoopResumed' /\ NextAnnounced' = NextAnnounced
    BY <1>0, <2>2 DEF LoopResumed, NextAnnounced
  <2>4. QED
    BY <1>0, <2>1, <2>2, <2>3, OrderBroadcast
<1>10. CASE RemoveCheckpoint
  BY <1>10, OrderAdvances DEF RemoveCheckpoint, LoopResumed, NextAnnounced
<1>11. CASE ExitProcess
  BY <1>0, <1>11, OrderProcessEnds DEF ExitProcess
<1>12. QED
  BY <1>1, <1>2, <1>3, <1>4, <1>5, <1>6, <1>7, <1>8, <1>9, <1>10, <1>11
     DEF MainTask
-----------------------------------------------------------------------------
(* The steps of the server's tasks and of the workers *)

LEMMA OrderServer ==
    ASSUME TypeOK, PhaseInv, OrderInv, NEW w \in Workers, NEW k \in 1..MaxLives,
           ServerStream(w, k)
    PROVE  OrderInv'
<1>0. /\ <<w, k>> \in Streams
      /\ workers \in [Workers -> 0..MaxLives] /\ named \in [Streams -> BOOLEAN]
      /\ \A s \in Streams : ReadyOnce(s)
      /\ \A v \in Workers : WorkerOrder(v)
  BY DEF Streams, TypeOK, OrderInv
<1>1. UNCHANGED <<pc, i, resume, workerVars>>
  BY DEF ServerStream, ReceiveReady, ReceiveAck, ReceiveDone, Disconnect, mainVars
<1>2. LoopResumed'
  BY <1>1 DEF OrderInv, LoopResumed
<1>3. UNCHANGED <<wpc, life, linkUp, toWorker, events, wphase>>
  BY <1>1 DEF workerVars
<1>4. CASE ReceiveReady(w, k)
  <2>1. /\ Delivered(w, k, "ready")
        /\ named' = [named EXCEPT ![<<w, k>>] = TRUE]
        /\ workers' = [workers EXCEPT ![w] = k]
    BY <1>4 DEF ReceiveReady
  <2>2. \A s \in Streams : ReadyOnce(s)'
    BY <1>0, <1>3, <2>1, ReadyDelivered
  <2>3. ~named[<<w, k>>]
    <3>1. /\ toServer[<<w, k>>] \in Seq(WorkerMessage) /\ toServer[<<w, k>>] # << >>
          /\ Head(toServer[<<w, k>>]) = "ready"
      BY <1>0, <2>1 DEF Delivered, TypeOK
    <3>2. /\ Head(toServer[<<w, k>>]) = toServer[<<w, k>>][1]
          /\ 1 \in 1..Len(toServer[<<w, k>>])
      BY <3>1
    <3>3. ~NoReady(toServer[<<w, k>>])
      BY <3>1, <3>2 DEF NoReady
    <3>4. QED
      BY <1>0, <3>3 DEF ReadyOnce
  <2>4. ASSUME NEW v \in Workers, v # w
        PROVE  WorkerOrder(v)'
    <3>1. Reaches(v)' = Reaches(v)
      BY <1>3, <2>1, <2>4 DEF Reaches, TypeOK
    <3>2. named'[<<v, life[v]>>] = named[<<v, life[v]>>] \/ ~linkUp[v]
      <4>1. linkUp[v] => <<v, life[v]>> \in Streams
        BY <1>0 DEF WorkerOrder, Streams
      <4>2. QED
        BY <1>0, <2>1, <2>4, <4>1
    <3>3. QED
      BY <1>0, <1>1, <1>3, <3>1, <3>2, OrderKept
  <2>5. WorkerOrder(w)'
    <3>1. Sent(w)' = Sent(w) /\ Running(w)' = Running(w) /\ Untouched(w)' = Untouched(w)
      BY <1>3 DEF Sent, Running, Untouched
    <3>2. CASE linkUp[w] /\ life[w] = k
      <4>1. wpc[w] = "waiting" /\ Sent(w) = << >>
        BY <1>0, <2>3, <3>2 DEF WorkerOrder
      <4>2. Untouched(w)
        BY <4>1 DEF Untouched, Running, Announced
      <4>3. named'[<<w, life[w]>>]
        BY <1>0, <2>1, <3>2
      <4>4. QED
        BY <1>0, <1>1, <1>3, <3>1, <4>2, <4>3 DEF WorkerOrder
    <3>3. CASE ~(linkUp[w] /\ life[w] = k)
      <4>1. ~Reaches(w)'
        BY <1>0, <1>3, <2>1, <3>3 DEF Reaches
      <4>2. linkUp[w] => named'[<<w, life[w]>>] = named[<<w, life[w]>>]
        <5>1. linkUp[w] => <<w, life[w]>> \in Streams
          BY <1>0 DEF WorkerOrder, Streams
        <5>2. QED
          BY <1>0, <2>1, <3>3, <5>1
      <4>3. QED
        BY <1>0, <1>1, <1>3, <4>1, <4>2, OrderKept
    <3>4. QED
      BY <3>2, <3>3
  <2>6. QED
    BY <1>2, <2>2, <2>4, <2>5 DEF OrderInv
<1>5. CASE ReceiveAck(w, k) \/ ReceiveDone(w, k)
  <2>1. /\ named' = named /\ workers' \in {workers, Unregistered(w)}
        /\ \E m : Delivered(w, k, m)
    BY <1>5 DEF ReceiveAck, ReceiveDone, gateVars
  <2>2. \A s \in Streams : ReadyOnce(s)'
    BY <1>0, <1>3, <2>1, ReadyDelivered
  <2>3. \A v \in Workers : Reaches(v)' => Reaches(v)
    BY <1>0, <1>3, <2>1 DEF Reaches, Unregistered
  <2>4. \A v \in Workers : WorkerOrder(v)'
    BY <1>0, <1>1, <1>3, <2>1, <2>3, OrderKept
  <2>5. QED
    BY <1>2, <2>2, <2>4 DEF OrderInv
<1>6. CASE Disconnect(w, k)
  <2>1. /\ k # life[w] \/ ~linkUp[w]
        /\ named' = [named EXCEPT ![<<w, k>>] = FALSE]
        /\ toServer' = [toServer EXCEPT ![<<w, k>>] = << >>]
        /\ workers' \in {workers, Unregistered(w)}
    BY <1>6 DEF Disconnect
  <2>2. \A s \in Streams : ReadyOnce(s)'
    BY <1>0, <1>3, <2>1, ReadyNone DEF ReadyOnce, TypeOK, NoReady
  <2>3. \A v \in Workers : Reaches(v)' => Reaches(v)
    BY <1>0, <1>3, <2>1 DEF Reaches, Unregistered
  <2>4. ASSUME NEW v \in Workers, linkUp[v]
        PROVE  named'[<<v, life[v]>>] = named[<<v, life[v]>>]
    <3>1. <<v, life[v]>> \in Streams /\ <<v, life[v]>> # <<w, k>>
      BY <1>0, <2>1, <2>4 DEF WorkerOrder, Streams
    <3>2. QED
      BY <1>0, <2>1, <3>1
  <2>5. \A v \in Workers : WorkerOrder(v)'
    BY <1>0, <1>1, <1>3, <2>3, <2>4, OrderKept
  <2>6. QED
    BY <1>2, <2>2, <2>5 DEF OrderInv
<1>7. QED
  BY <1>4, <1>5, <1>6 DEF ServerStream

LEMMA ReadyWorker ==
    ASSUME TypeOK, OrderInv, NEW w \in Workers, WorkerStep(w) \/ WorkerFault(w)
    PROVE  \A s \in Streams : ReadyOnce(s)'
<1>0. /\ \A s \in Streams : ReadyOnce(s)
      /\ linkUp[w] => life[w] \in 1..MaxLives
  BY DEF OrderInv, WorkerOrder
<1>1. CASE Connect(w)
  <2>1. /\ life[w] \in Nat /\ life' = [life EXCEPT ![w] = @ + 1] /\ named' = named
        /\ toServer' = [toServer EXCEPT ![<<w, life[w] + 1>>] = <<"ready">>]
        /\ life \in [Workers -> 0..MaxLives]
        /\ toServer \in [Streams -> Seq(WorkerMessage)]
    BY <1>1, CountsAssumption DEF Connect, TypeOK
  <2> SUFFICES ASSUME NEW s \in Streams
               PROVE  ReadyOnce(s)'
    OBVIOUS
  <2>2. s[1] \in Workers /\ s[2] \in 1..MaxLives /\ s = <<s[1], s[2]>>
    BY DEF Streams
  <2>3. CASE s = <<w, life[w] + 1>>
    <3>1. toServer'[s] = <<"ready">> /\ ~named'[s] /\ ~(s[2] > life'[s[1]])
      BY <1>0, <2>1, <2>2, <2>3 DEF ReadyOnce
    <3>2. \A j : j \notin 2..Len(<<"ready">>)
      OBVIOUS
    <3>3. QED
      BY <3>1, <3>2 DEF ReadyOnce
  <2>4. CASE s # <<w, life[w] + 1>>
    <3>1. toServer'[s] = toServer[s] /\ named'[s] = named[s]
      BY <2>1, <2>4
    <3>2. s[2] > life'[s[1]] => s[2] > life[s[1]]
      BY <2>1, <2>2
    <3>3. QED
      BY <1>0, <3>1, <3>2 DEF ReadyOnce
  <2>5. QED
    BY <2>3, <2>4
<1>2. CASE Inbound(w)
  <2>1. (Reply(w, "ack") \/ toServer' = toServer) /\ UNCHANGED <<life, named>>
    BY <1>2 DEF Inbound
  <2>2. QED
    BY <1>0, <2>1, ReadyReplied, ReadySame
<1>3. CASE LeaveLoop(w)
  <2>1. (Reply(w, "done") \/ toServer' = toServer) /\ UNCHANGED <<life, named>>
    BY <1>3 DEF LeaveLoop, WorkerProcessEnds
  <2>2. QED
    BY <1>0, <2>1, ReadyReplied, ReadySame
<1>4. CASE \/ InboundEnds(w) \/ TakePrepare(w) \/ TakeTransition(w)
           \/ CrashWorker(w) \/ BreakLink(w)
  BY <1>0, <1>4, ReadySame
     DEF InboundEnds, TakePrepare, TakeTransition, CrashWorker, BreakLink,
         WorkerProcessEnds, serverVars
<1>5. QED
  BY <1>1, <1>2, <1>3, <1>4 DEF WorkerStep, WorkerFault

LEMMA OrderOther ==
    ASSUME TypeOK, OrderInv, NEW w \in Workers, NEW v \in Workers, v # w,
           WorkerStep(w) \/ WorkerFault(w)
    PROVE  WorkerOrder(v)'
<1>1. /\ wpc'[v] = wpc[v] /\ events'[v] = events[v] /\ linkUp'[v] = linkUp[v]
      /\ wphase'[v] = wphase[v] /\ toWorker'[v] = toWorker[v] /\ life'[v] = life[v]
      /\ UNCHANGED <<pc, i, resume, workers, named>>
  BY DEF WorkerStep, WorkerFault, Connect, Inbound, InboundEnds, TakePrepare,
         TakeTransition, LeaveLoop, CrashWorker, BreakLink, WorkerProcessEnds,
         mainVars, gateVars, serverVars, TypeOK
<1>2. Reaches(v)' = Reaches(v) /\ WorkerOrder(v)
  BY <1>1 DEF Reaches, OrderInv
<1>3. QED
  BY <1>1, <1>2, OrderKept

LEMMA OrderSelf ==
    ASSUME TypeOK, PhaseInv, RegistryIsLive, OrderInv, NEW w \in Workers,
           WorkerStep(w) \/ WorkerFault(w)
    PROVE  WorkerOrder(w)'
<1> DEFINE q == Sent(w)
<1>0. /\ WorkerWithin(w) /\ WorkerOrder(w)
      /\ toWorker[w] \in Seq(ControllerMessage)
      /\ events[w] \in Seq(ControllerMessage)
      /\ q \in Seq(ControllerMessage)
      /\ wphase[w] \in Nat
  BY SentType, CountsAssumption DEF PhaseInv, OrderInv, TypeOK
<1>1. UNCHANGED <<pc, i, resume, workers, named>> /\ NextAnnounced' = NextAnnounced
  BY DEF WorkerStep, WorkerFault, Connect, Inbound, InboundEnds, TakePrepare,
         TakeTransition, LeaveLoop, CrashWorker, BreakLink, mainVars, gateVars, serverVars,
         NextAnnounced
<1>2. Announced(<< >>) = {}
  BY DEF Announced
<1>3. CASE Connect(w)
  <2>1. /\ wpc'[w] = "waiting" /\ toWorker'[w] = << >> /\ events'[w] = << >>
        /\ life[w] \in Nat /\ life'[w] = life[w] + 1 /\ life'[w] \in 1..MaxLives
        /\ pc # "down"
    BY <1>0, <1>3, CountsAssumption DEF Connect, TypeOK, WorkerWithin
  <2>2. Sent(w)' = << >> /\ ~Running(w)'
    BY <2>1, ConcatEmptySeq DEF Sent, Running
  <2>3. ~Reaches(w)'
    <3>1. <<w, life[w] + 1>> \in Streams /\ <<w, life[w] + 1>>[2] > life[<<w, life[w] + 1>>[1]]
      BY <2>1 DEF Streams
    <3>2. ~named[<<w, life[w] + 1>>]
      BY <3>1 DEF OrderInv, ReadyOnce
    <3>3. workers[w] # life'[w] \/ workers[w] = 0
      BY <2>1, <3>2 DEF RegistryIsLive
    <3>4. QED
      BY <1>1, <3>3 DEF Reaches
  <2>4. InOrder(<< >>, FALSE, wphase'[w])
    BY <1>2 DEF InOrder
  <2>5. QED
    BY <1>1, <2>1, <2>2, <2>3, <2>4 DEF WorkerOrder, Running
<1>4. CASE Inbound(w)
  <2>1. /\ wpc'[w] = wpc[w] /\ linkUp'[w] = linkUp[w] /\ wphase'[w] = wphase[w]
        /\ life' = life /\ toWorker[w] # << >>
        /\ toWorker'[w] = Tail(toWorker[w])
        /\ events'[w] = Append(events[w], Head(toWorker[w]))
    BY <1>4 DEF Inbound, TypeOK
  <2>2. Sent(w)' = q
    BY <1>0, <2>1, MovedOver DEF Sent
  <2>3. Running(w)' = Running(w) /\ Reaches(w)' = Reaches(w)
    BY <1>1, <2>1 DEF Running, Reaches
  <2>4. QED
    BY <1>0, <1>1, <2>1, <2>2, <2>3 DEF WorkerOrder, Untouched
<1>5. CASE InboundEnds(w)
  <2>1. /\ wpc'[w] = wpc[w] /\ ~linkUp'[w] /\ wphase'[w] = wphase[w]
        /\ events'[w] = events[w] /\ toWorker'[w] = << >>
    BY <1>5 DEF InboundEnds, TypeOK
  <2>2. Sent(w)' = events[w]
    BY <1>0, <2>1, ConcatEmptySeq DEF Sent
  <2>3. wpc[w] # "off" => InOrder(events[w], Running(w), wphase[w])
    BY <1>0, InOrderDropped DEF WorkerOrder, Sent
  <2>4. QED
    BY <2>1, <2>2, <2>3 DEF WorkerOrder, Running, Reaches
<1>6. CASE TakePrepare(w) \/ TakeTransition(w)
  <2>1. /\ linkUp'[w] = linkUp[w] /\ life' = life /\ toWorker'[w] = toWorker[w]
        /\ events[w] # << >> /\ events'[w] = Tail(events[w])
    BY <1>6 DEF TakePrepare, TakeTransition, TypeOK
  <2>2. Sent(w)' = Tail(q) /\ Head(events[w]) = Head(q) /\ q # << >>
    BY <1>0, <2>1, TailOver DEF Sent
  <2>3. wpc[w] # "off" /\ InOrder(q, Running(w), wphase[w])
    BY <1>0, <2>1 DEF WorkerWithin, WorkerOrder
  <2>4. Reaches(w)' = Reaches(w)
    BY <1>1, <2>1 DEF Reaches
  <2>5. linkUp[w] => life[w] \in 1..MaxLives /\ pc # "down" /\ named[<<w, life[w]>>]
    BY <1>0, <2>2 DEF WorkerOrder
  <2> HIDE DEF q
  <2>6. CASE TakePrepare(w)
    <3>1. wpc'[w] = wpc[w] /\ wphase'[w] = wphase[w] /\ Head(q).type = "prepare"
      BY <2>2, <2>6 DEF TakePrepare
    <3>2. /\ InOrder(Tail(q), Running(w), wphase[w])
          /\ \A n : EndsAt(q, Running(w), wphase[w], n)
                       => EndsAt(Tail(q), Running(w), wphase[w], n)
          /\ Announced(q) = {} => Announced(Tail(q)) = {}
      BY <1>0, <2>2, <2>3, <3>1, TakeHead
    <3>3. Running(w)' = Running(w)
      BY <3>1 DEF Running
    <3>4. Reaches(w) =>
             \/ ~Running(w) /\ Announced(Tail(q)) = {}
             \/ /\ i >= resume /\ pc # "waiting"
                /\ EndsAt(Tail(q), Running(w), wphase[w], NextAnnounced)
      BY <1>0, <3>2 DEF WorkerOrder, Untouched, q
    <3>5. QED
      BY <1>1, <2>1, <2>2, <2>4, <2>5, <3>1, <3>2, <3>3, <3>4 DEF WorkerOrder, Untouched
  <2>7. CASE TakeTransition(w)
    <3>1. /\ wpc'[w] = "running" /\ wphase'[w] = Head(q).phase
          /\ Head(q).type = "transition"
      BY <2>2, <2>7 DEF TakeTransition, TypeOK
    <3>2. /\ Announced(q) # {}
          /\ InOrder(Tail(q), TRUE, Head(q).phase)
          /\ \A n : EndsAt(q, Running(w), wphase[w], n)
                       => EndsAt(Tail(q), TRUE, Head(q).phase, n)
      BY <1>0, <2>2, <2>3, <3>1, TakeHead
    <3>3. Running(w)' = TRUE
      BY <3>1 DEF Running
    <3>4. Reaches(w) => /\ i >= resume /\ pc # "waiting"
                        /\ EndsAt(Tail(q), TRUE, Head(q).phase, NextAnnounced)
      BY <1>0, <3>2 DEF WorkerOrder, Untouched, q
    <3>5. QED
      BY <1>1, <2>1, <2>2, <2>4, <2>5, <3>1, <3>2, <3>3, <3>4 DEF WorkerOrder
  <2>8. QED
    BY <1>6, <2>6, <2>7
<1>7. CASE WorkerProcessEnds(w)
  <2>1. wpc'[w] = "off" /\ ~linkUp'[w]
    BY <1>7 DEF WorkerProcessEnds, TypeOK
  <2>2. QED
    BY <2>1 DEF WorkerOrder, Reaches
<1>8. CASE BreakLink(w)
  <2>1. /\ wpc'[w] = wpc[w] /\ ~linkUp'[w] /\ wphase'[w] = wphase[w]
        /\ events'[w] = events[w] /\ toWorker'[w] = toWorker[w]
    BY <1>8 DEF BreakLink, TypeOK
  <2>2. Sent(w)' = q /\ Running(w)' = Running(w)
    BY <2>1 DEF Sent, Running
  <2>3. QED
    BY <1>0, <2>1, <2>2 DEF WorkerOrder, Reaches
<1>9. QED
  BY <1>3, <1>4, <1>5, <1>6, <1>7, <1>8
     DEF WorkerStep, WorkerFault, LeaveLoop, CrashWorker

LEMMA NextOrder ==
    TypeInv /\ PhaseInv /\ RegistryIsLive /\ OrderInv /\ [Next]_vars => OrderInv'
<1> SUFFICES ASSUME TypeInv, PhaseInv, RegistryIsLive, OrderInv, [Next]_vars
             PROVE  OrderInv'
  OBVIOUS
<1>0. TypeOK
  BY DEF TypeInv
<1>1. CASE Boot
  <2>1. /\ pc = "down" /\ pc' = "waiting"
        /\ UNCHANGED <<i, workerVars, gateVars, serverVars>>
    BY <1>1 DEF Boot
  <2>2. \A w \in Workers : ~linkUp[w]
    BY <2>1 DEF OrderInv, WorkerOrder
  <2>3. \A s \in Streams : ReadyOnce(s)'
    BY <2>1, ReadySame DEF OrderInv, workerVars, serverVars
  <2>4. ASSUME NEW w \in Workers
        PROVE  WorkerOrder(w)'
    <3>1. Sent(w)' = Sent(w) /\ Running(w)' = Running(w) /\ ~Reaches(w)' /\ ~linkUp'[w]
      BY <2>1, <2>2 DEF Sent, Running, Reaches, workerVars
    <3>2. wpc' = wpc /\ wphase' = wphase /\ WorkerOrder(w)
      BY <2>1 DEF workerVars, OrderInv
    <3>3. QED
      BY <3>1, <3>2 DEF WorkerOrder
  <2>5. LoopResumed'
    BY <2>1 DEF LoopResumed
  <2>6. QED
    BY <2>3, <2>4, <2>5 DEF OrderInv
<1>2. CASE MainTask
  BY <1>2, OrderMainTask
<1>3. CASE ControllerFault
  BY <1>0, <1>3, OrderProcessEnds DEF ControllerFault, WaitTimesOut, CrashController
<1>4. CASE \E w \in Workers, k \in 1..MaxLives : ServerStream(w, k)
  BY <1>0, <1>4, OrderServer
<1>5. ASSUME NEW w \in Workers, WorkerStep(w) \/ WorkerFault(w)
      PROVE  OrderInv'
  <2>1. UNCHANGED <<pc, i, resume>>
    BY <1>5
       DEF WorkerStep, WorkerFault, Connect, Inbound, InboundEnds, TakePrepare,
           TakeTransition, LeaveLoop, CrashWorker, BreakLink, mainVars
  <2>2. LoopResumed'
    BY <2>1 DEF OrderInv, LoopResumed
  <2>3. \A s \in Streams : ReadyOnce(s)'
    BY <1>0, <1>5, ReadyWorker
  <2>4. \A v \in Workers : WorkerOrder(v)'
    BY <1>0, <1>5, OrderSelf, OrderOther
  <2>5. QED
    BY <2>2, <2>3, <2>4 DEF OrderInv
<1>6. CASE UNCHANGED vars
  <2>1. UNCHANGED <<pc, i, resume, workerVars, gateVars, serverVars>>
    BY <1>6 DEF vars, mainVars
  <2>2. \A s \in Streams : ReadyOnce(s)'
    BY <2>1, ReadySame DEF OrderInv, workerVars, serverVars
  <2>3. \A v \in Workers : WorkerOrder(v)'
    BY <2>1, OrderKept DEF OrderInv, workerVars, gateVars, serverVars, Reaches
  <2>4. QED
    BY <2>1, <2>2, <2>3 DEF OrderInv, LoopResumed
<1>7. QED
  BY <1>1, <1>2, <1>3, <1>4, <1>5, <1>6 DEF Next

LEMMA InitOrder == Init => OrderInv
<1> SUFFICES ASSUME Init
             PROVE  OrderInv
  OBVIOUS
<1>1. LoopResumed
  BY DEF Init, LoopResumed
<1>2. \A s \in Streams : ReadyOnce(s)
  BY ReadyNone DEF Init, ReadyOnce
<1>3. \A w \in Workers : WorkerOrder(w)
  BY DEF Init, WorkerOrder, Reaches
<1>4. QED
  BY <1>1, <1>2, <1>3 DEF OrderInv

\* A step into another phase is a step into the next one.
LEMMA StepIsNext ==
    ASSUME TypeOK, PhaseInv, OrderInv, [Next]_vars, NEW w \in Workers,
           wpc[w] = "running", wpc'[w] = "running", wphase'[w] # wphase[w]
    PROVE  wphase'[w] = wphase[w] + 1
<1>1. CASE UNCHANGED wphase
  BY <1>1
<1>2. CASE Boot \/ MainTask \/ ControllerFault
  BY <1>1, <1>2
     DEF Boot, MainTask, AllReadyReceived, SkipPhase, WriteCheckpoint, MarkPhase,
         SendPrepare, AckPause, SendTransition, HoldPhase, FinishTimeline,
         RemoveCheckpoint, ExitProcess, ControllerFault, WaitTimesOut, CrashController,
         ProcessEnds, workerVars
<1>3. CASE \E v \in Workers, k \in 1..MaxLives : ServerStream(v, k)
  BY <1>1, <1>3
     DEF ServerStream, ReceiveReady, ReceiveAck, ReceiveDone, Disconnect, workerVars
<1>4. ASSUME NEW v \in Workers, WorkerStep(v) \/ WorkerFault(v)
      PROVE  wphase'[w] = wphase[w] + 1
  <2>1. CASE \/ Connect(v) \/ Inbound(v) \/ InboundEnds(v) \/ TakePrepare(v)
             \/ BreakLink(v)
    BY <1>1, <2>1 DEF Connect, Inbound, InboundEnds, TakePrepare, BreakLink
  <2>2. CASE WorkerProcessEnds(v)
    BY <2>2 DEF WorkerProcessEnds, TypeOK
  <2>3. CASE TakeTransition(v)
    <3>1. /\ v = w /\ events[w] # << >> /\ Head(events[w]).type = "transition"
          /\ wphase'[w] = Head(events[w]).phase
      BY <2>3 DEF TakeTransition, TypeOK
    <3>2. /\ events[w] \in Seq(ControllerMessage) /\ toWorker[w] \in Seq(ControllerMessage)
          /\ Sent(w) \in Seq(ControllerMessage) /\ wphase[w] \in Nat
      <4>1. events[w] \in Seq(ControllerMessage) /\ toWorker[w] \in Seq(ControllerMessage)
        BY DEF TypeOK
      <4>2. wphase[w] \in Nat
        BY CountsAssumption DEF TypeOK
      <4>3. QED
        BY <4>1, <4>2, SentType
    <3>3. Head(events[w]) = Head(Sent(w)) /\ Sent(w) # << >>
      BY <3>1, <3>2, TailOver DEF Sent
    <3>4. InOrder(Sent(w), Running(w), wphase[w]) /\ Running(w)
      BY DEF OrderInv, WorkerOrder, Running
    <3> DEFINE q == Sent(w)
               run == Running(w)
    <3>5. q \in Seq(ControllerMessage) /\ q # << >> /\ InOrder(q, run, wphase[w]) /\ run
      BY <3>2, <3>3, <3>4
    <3>6. Head(q).type = "transition"
      BY <3>1, <3>3
    <3> HIDE DEF q, run
    <3>7. Head(q).phase = wphase[w] + 1
      BY <3>2, <3>5, <3>6, HeadIsNext
    <3>8. QED
      BY <3>1, <3>3, <3>7 DEF q
  <2>4. QED
    BY <1>4, <2>1, <2>2, <2>3 DEF WorkerStep, WorkerFault, LeaveLoop, CrashWorker
<1>5. QED
  BY <1>1, <1>2, <1>3, <1>4 DEF Next, vars, workerVars

\* Once a worker process has entered a phase it enters the following ones in turn, none
\* skipped, repeated or gone back to, whatever is lost or restarts around it
\* (wait_for_transition and the loops of query.rs and ingest.rs, phase_controller::run).
THEOREM NoPhaseSkipped == Spec => NoSkippedPhase
<1> DEFINE Inv == TypeInv /\ PhaseInv /\ RegistryIsLive /\ OrderInv
<1>1. Spec => []Inv
  <2>1. GateInv => RegistryIsLive
    BY DEF GateInv
  <2>2. QED
    BY <2>1, InitPhase, InitOrder, TypeInvariant, GateInvariant, NextPhase, NextOrder,
       PTL DEF Spec
<1>2. Inv /\ [Next]_vars =>
         [\A w \in Workers :
             (/\ wpc[w] = "running" /\ wpc'[w] = "running"
              /\ wphase'[w] # wphase[w])
             => wphase'[w] = wphase[w] + 1]_vars
  BY StepIsNext DEF TypeInv
<1>3. QED
  BY <1>1, <1>2, PTL DEF Spec, NoSkippedPhase
=============================================================================
