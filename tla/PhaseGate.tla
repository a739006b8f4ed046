------------------------------ MODULE PhaseGate ------------------------------
(***************************************************************************)
(* The phase barrier of a benchmark run: the PhaseController process       *)
(* (incidentbench-worker/src/phase_controller.rs) and the barrier client   *)
(* of every ingest and query worker (barrier.rs), joined by one            *)
(* bidirectional stream per worker process.                                *)
(*                                                                         *)
(* A worker is a pod: its id survives a restart of its container, so the   *)
(* streams of one worker are numbered by the life of the process that      *)
(* opened them, and stream <<w, k>> may still be open on the server when   *)
(* <<w, k+1>> has already sent READY.                                      *)
(***************************************************************************)
EXTENDS Naturals, Sequences, FiniteSets

CONSTANTS
    IngestWorkers,   \* worker ids whose mode is "ingest"
    QueryWorkers,    \* worker ids whose mode is "query"
    ExpectedIngest,  \* config.expected_ingest_workers
    ExpectedQuery,   \* config.expected_query_workers
    NumPhases,       \* number of phases in the configuration
    Checkpointing,   \* TRUE iff config.checkpoint_path is set
    MaxLives,        \* bound: processes a worker pod may start
    MaxBoots,        \* bound: processes the controller's Deployment may start
    MaxFaults        \* bound: crashes, broken links, timeouts, failed writes

ASSUME WorkersAssumption ==
    /\ IsFiniteSet(IngestWorkers)
    /\ IsFiniteSet(QueryWorkers)
    /\ IngestWorkers \cap QueryWorkers = {}

ASSUME CountsAssumption ==
    /\ ExpectedIngest \in Nat
    /\ ExpectedQuery \in Nat
    /\ NumPhases \in Nat
    /\ MaxLives \in Nat
    /\ MaxBoots \in Nat
    /\ MaxFaults \in Nat

ASSUME CheckpointingAssumption == Checkpointing \in BOOLEAN

Workers == IngestWorkers \cup QueryWorkers

Streams == Workers \X (1..MaxLives)

ControllerMessage ==
    [type : {"prepare", "transition", "complete"}, phase : 0..NumPhases]

WorkerMessage == {"ready", "ack", "done"}

VARIABLES
    pc,           \* where the controller's main task stands; "down": no process
    i,            \* index of the phase loop
    resume,       \* resume_from_phase
    curIdx,       \* current_phase_index
    runStarted,   \* run_start is Some
    complete,     \* timeline_complete
    prepareAcks,  \* prepare_acks
    allReady,     \* a value is waiting in the all_ready broadcast channel
    workers,      \* registry: worker -> life of the registered stream, 0: none
    readyIngest,  \* ready_ingest
    readyQuery,   \* ready_query
    srvOpen,      \* stream -> its inbound task on the server is running
    named,        \* stream -> that task has set its local worker_id
    toServer      \* stream -> messages on the way to the server

VARIABLES
    wpc,       \* worker loop: "off" (no connection), "waiting", "running"
    life,      \* number of the worker's latest process
    linkUp,    \* the latest stream's connection is alive
    toWorker,  \* messages on the way to the worker's inbound task
    evOpen,    \* the inbound task is running, so event_rx is not closed
    events,    \* the PhaseEvent channel
    wphase     \* current_phase of a running worker

VARIABLES
    checkpoint,  \* phase in the checkpoint file, 0 also when there is no file
    boots,       \* bounded number of controller processes so far
    faults,      \* bounded number of failures so far
    seen,        \* history: workers whose READY this process has handled
    held         \* history: phases held to their end by any process

mainVars   == <<pc, i, resume>>
stateVars  == <<curIdx, runStarted, complete, prepareAcks>>
gateVars   == <<allReady, workers, readyIngest, readyQuery, seen>>
serverVars == <<srvOpen, named, toServer>>
workerVars == <<wpc, life, linkUp, toWorker, evOpen, events, wphase>>
envVars    == <<checkpoint, boots, faults, held>>

vars == <<mainVars, stateVars, gateVars, serverVars, workerVars, envVars>>

TypeOK ==
    /\ pc \in {"down", "waiting", "loop", "mark", "prepare", "acks",
               "transition", "hold", "cleanup", "linger"}
    /\ i \in 0..NumPhases
    /\ resume \in 0..NumPhases
    /\ curIdx \in 0..NumPhases
    /\ runStarted \in BOOLEAN
    /\ complete \in BOOLEAN
    /\ prepareAcks \in Nat
    /\ allReady \in BOOLEAN
    /\ workers \in [Workers -> 0..MaxLives]
    /\ readyIngest \in Nat
    /\ readyQuery \in Nat
    /\ srvOpen \in [Streams -> BOOLEAN]
    /\ named \in [Streams -> BOOLEAN]
    /\ toServer \in [Streams -> Seq(WorkerMessage)]
    /\ wpc \in [Workers -> {"off", "waiting", "running"}]
    /\ life \in [Workers -> 0..MaxLives]
    /\ linkUp \in [Workers -> BOOLEAN]
    /\ toWorker \in [Workers -> Seq(ControllerMessage)]
    /\ evOpen \in [Workers -> BOOLEAN]
    /\ events \in [Workers -> Seq(ControllerMessage)]
    /\ wphase \in [Workers -> 0..NumPhases]
    /\ checkpoint \in 0..NumPhases
    /\ boots \in 0..MaxBoots
    /\ faults \in 0..MaxFaults
    /\ seen \subseteq Workers
    /\ held \subseteq 0..NumPhases

-----------------------------------------------------------------------------
(* Helpers *)

Init ==
    /\ pc = "down" /\ i = 0 /\ resume = 0
    /\ curIdx = 0 /\ runStarted = FALSE /\ complete = FALSE /\ prepareAcks = 0
    /\ allReady = FALSE /\ workers = [w \in Workers |-> 0]
    /\ readyIngest = 0 /\ readyQuery = 0 /\ seen = {}
    /\ srvOpen = [s \in Streams |-> FALSE]
    /\ named = [s \in Streams |-> FALSE]
    /\ toServer = [s \in Streams |-> << >>]
    /\ wpc = [w \in Workers |-> "off"]
    /\ life = [w \in Workers |-> 0]
    /\ linkUp = [w \in Workers |-> FALSE]
    /\ toWorker = [w \in Workers |-> << >>]
    /\ evOpen = [w \in Workers |-> FALSE]
    /\ events = [w \in Workers |-> << >>]
    /\ wphase = [w \in Workers |-> 0]
    /\ checkpoint = 0 /\ boots = 0 /\ faults = 0 /\ held = {}

\* A message sent to a registered stream arrives only while that stream is the
\* worker's latest one and its connection is alive; `let _ = tx.send` hides the
\* rest.  Cloning the registry and sending to the clone is one step: nothing
\* but the main task writes to these channels.
Reaches(w) == workers[w] # 0 /\ workers[w] = life[w] /\ linkUp[w]

\* Mutated form: try_send to a channel that still holds a message.
BroadcastIfEmpty(m) ==
    toWorker' = [w \in Workers |->
                    IF Reaches(w) /\ toWorker[w] = << >>
                    THEN Append(toWorker[w], m) ELSE toWorker[w]]

Broadcast(m) ==
    toWorker' = [w \in Workers |->
                    IF Reaches(w) THEN Append(toWorker[w], m) ELSE toWorker[w]]

Message(t, p) == [type |-> t, phase |-> p]

Fault == faults < MaxFaults /\ faults' = faults + 1

-----------------------------------------------------------------------------
(* The controller's process and its main task, phase_controller::run *)

Boot ==
    /\ pc = "down"
    /\ boots < MaxBoots
    /\ boots' = boots + 1
    /\ pc' = "waiting"
    /\ resume' = IF Checkpointing THEN checkpoint ELSE 0
    /\ UNCHANGED <<i, stateVars, gateVars, serverVars, workerVars,
                   checkpoint, faults, held>>

\* The process ends: its memory and every stream it served are gone.
ProcessEnds ==
    /\ pc' = "down" /\ i' = 0 /\ resume' = 0
    /\ curIdx' = 0 /\ runStarted' = FALSE /\ complete' = FALSE
    /\ prepareAcks' = 0
    /\ allReady' = FALSE /\ workers' = [w \in Workers |-> 0]
    /\ readyIngest' = 0 /\ readyQuery' = 0 /\ seen' = {}
    /\ srvOpen' = [s \in Streams |-> FALSE]
    /\ named' = [s \in Streams |-> FALSE]
    /\ toServer' = [s \in Streams |-> << >>]
    /\ linkUp' = [w \in Workers |-> FALSE]
    /\ UNCHANGED <<wpc, life, toWorker, evOpen, events, wphase>>

AllReadyReceived ==
    /\ pc = "waiting"
    /\ allReady
    /\ pc' = "loop"
    /\ runStarted' = TRUE
    /\ UNCHANGED <<i, resume, curIdx, complete, prepareAcks, gateVars,
                   serverVars, workerVars, envVars>>

\* worker_connect_timeout_s elapses: `bail!` ends the process.
WaitTimesOut ==
    /\ pc = "waiting"
    /\ ~allReady
    /\ Fault
    /\ ProcessEnds
    /\ UNCHANGED <<checkpoint, boots, held>>

\* Mutated form: the phase to resume from is the one after the current one.
NextCheckpointValue(idx) == idx + 1

CheckpointValue(idx) == idx

\* Mutated form: the loop runs once too often.
MorePhasesInclusive == i <= NumPhases

MorePhases == i < NumPhases

SkipPhase ==
    /\ pc = "loop"
    /\ MorePhases
    /\ i < resume
    /\ i' = i + 1
    /\ UNCHANGED <<pc, resume, stateVars, gateVars, serverVars,
                   workerVars, envVars>>

\* A failed write is only logged.
WriteCheckpoint ==
    /\ pc = "loop"
    /\ MorePhases
    /\ i >= resume
    /\ pc' = "mark"
    /\ \/ /\ checkpoint' = IF Checkpointing THEN CheckpointValue(i) ELSE checkpoint
          /\ UNCHANGED faults
       \/ Checkpointing /\ Fault /\ UNCHANGED checkpoint
    /\ UNCHANGED <<i, resume, stateVars, gateVars, serverVars,
                   workerVars, boots, held>>

\* Mutated form: current_phase_index is left behind.
MarkPhaseLate ==
    /\ pc = "mark"
    /\ prepareAcks' = 0
    /\ pc' = IF i > 0 THEN "prepare" ELSE "transition"
    /\ UNCHANGED <<i, resume, curIdx, runStarted, complete, gateVars,
                   serverVars, workerVars, envVars>>

NeedsPrepare(idx) == idx > 0

MarkPhase ==
    /\ pc = "mark"
    /\ curIdx' = i
    /\ prepareAcks' = 0
    /\ pc' = IF NeedsPrepare(i) THEN "prepare" ELSE "transition"
    /\ UNCHANGED <<i, resume, runStarted, complete, gateVars,
                   serverVars, workerVars, envVars>>

SendPrepare ==
    /\ pc = "prepare"
    /\ Broadcast(Message("prepare", i))
    /\ pc' = "acks"
    /\ UNCHANGED <<i, resume, stateVars, gateVars, serverVars, wpc, life, linkUp,
                   evOpen, events, wphase, envVars>>

\* sleep(100 ms): prepare_acks is not read.
AckPause ==
    /\ pc = "acks"
    /\ pc' = "transition"
    /\ UNCHANGED <<i, resume, stateVars, gateVars, serverVars,
                   workerVars, envVars>>

SendTransition ==
    /\ pc = "transition"
    /\ Broadcast(Message("transition", i))
    /\ pc' = "hold"
    /\ UNCHANGED <<i, resume, stateVars, gateVars, serverVars, wpc,
                   life, linkUp, evOpen, events, wphase, envVars>>

HoldPhase ==
    /\ pc = "hold"
    /\ pc' = "loop"
    /\ i' = i + 1
    /\ held' = held \cup {i}
    /\ UNCHANGED <<resume, stateVars, gateVars, serverVars, workerVars,
                   checkpoint, boots, faults>>

\* timeline_complete is set and RunComplete sent under one lock.
FinishTimeline ==
    /\ pc = "loop"
    /\ ~MorePhases
    /\ complete' = TRUE
    /\ Broadcast(Message("complete", i))
    /\ pc' = "cleanup"
    /\ UNCHANGED <<i, resume, curIdx, runStarted, prepareAcks, gateVars,
                   serverVars, wpc, life, linkUp, evOpen, events, wphase, envVars>>

RemoveCheckpoint ==
    /\ pc = "cleanup"
    /\ pc' = "linger"
    /\ \/ checkpoint' = 0 /\ UNCHANGED faults
       \/ Checkpointing /\ Fault /\ UNCHANGED checkpoint
    /\ UNCHANGED <<i, resume, stateVars, gateVars, serverVars,
                   workerVars, boots, held>>

\* The last 10 s of status queries are over.
ExitProcess ==
    /\ pc = "linger"
    /\ ProcessEnds
    /\ UNCHANGED envVars

CrashController ==
    /\ pc # "down"
    /\ Fault
    /\ ProcessEnds
    /\ UNCHANGED <<checkpoint, boots, held>>

-----------------------------------------------------------------------------
(* phase_stream: the inbound task of stream <<w, k>> *)

Delivered(w, k, m) ==
    /\ srvOpen[<<w, k>>]
    /\ toServer[<<w, k>>] # << >>
    /\ Head(toServer[<<w, k>>]) = m
    /\ toServer' = [toServer EXCEPT ![<<w, k>>] = Tail(@)]

\* Mutated form: a worker already registered is not counted again.
CountReadyOnce(w) ==
    /\ readyIngest' = readyIngest
          + (IF w \in IngestWorkers /\ workers[w] = 0 THEN 1 ELSE 0)
    /\ readyQuery' = readyQuery
          + (IF w \in QueryWorkers /\ workers[w] = 0 THEN 1 ELSE 0)

CountReady(w) ==
    /\ readyIngest' = readyIngest + (IF w \in IngestWorkers THEN 1 ELSE 0)
    /\ readyQuery' = readyQuery + (IF w \in QueryWorkers THEN 1 ELSE 0)

\* Mutated form: the counts must exceed what is expected.
MoreThanExpected(ingest, query) ==
    ingest > ExpectedIngest /\ query > ExpectedQuery

AllExpected(ingest, query) ==
    ingest >= ExpectedIngest /\ query >= ExpectedQuery

ReceiveReady(w, k) ==
    /\ Delivered(w, k, "ready")
    /\ named' = [named EXCEPT ![<<w, k>>] = TRUE]
    /\ workers' = [workers EXCEPT ![w] = k]
    /\ CountReady(w)
    /\ allReady' = (allReady \/ AllExpected(readyIngest', readyQuery'))
    /\ seen' = seen \cup {w}
    /\ UNCHANGED <<mainVars, stateVars, srvOpen, workerVars, envVars>>

\* The ack is counted whatever phase it is for.
ReceiveAck(w, k) ==
    /\ Delivered(w, k, "ack")
    /\ prepareAcks' = prepareAcks + 1
    /\ UNCHANGED <<mainVars, curIdx, runStarted, complete, gateVars, srvOpen,
                   named, workerVars, envVars>>

\* Mutated form: the sender of a stream that ended stays registered.
KeptRegistered(w) == workers

Unregistered(w) == [workers EXCEPT ![w] = 0]

\* The registration goes, the ready counts stay.
ReceiveDone(w, k) ==
    /\ Delivered(w, k, "done")
    /\ workers' = Unregistered(w)
    /\ UNCHANGED <<mainVars, stateVars, allReady, readyIngest, readyQuery, seen,
                   srvOpen, named, workerVars, envVars>>

SaturatingDec(n) == IF n = 0 THEN 0 ELSE n - 1

\* End of stream: what had not been read is lost, and the registration under
\* this worker's id goes, whichever stream it belongs to.
Disconnect(w, k) ==
    /\ srvOpen[<<w, k>>]
    /\ k # life[w] \/ ~linkUp[w]
    /\ srvOpen' = [srvOpen EXCEPT ![<<w, k>>] = FALSE]
    /\ named' = [named EXCEPT ![<<w, k>>] = FALSE]
    /\ toServer' = [toServer EXCEPT ![<<w, k>>] = << >>]
    /\ IF named[<<w, k>>] /\ workers[w] # 0
       THEN /\ workers' = Unregistered(w)
            /\ readyIngest' = IF w \in IngestWorkers THEN SaturatingDec(readyIngest)
                                                     ELSE readyIngest
            /\ readyQuery' = IF w \in QueryWorkers THEN SaturatingDec(readyQuery)
                                                   ELSE readyQuery
       ELSE UNCHANGED <<workers, readyIngest, readyQuery>>
    /\ UNCHANGED <<mainVars, stateVars, allReady, seen, workerVars, envVars>>

-----------------------------------------------------------------------------
(* The worker: BarrierClient and the loop that consumes its events *)

\* BarrierClient::connect: the retries end in a new stream that carries READY.
Connect(w) ==
    /\ wpc[w] = "off"
    /\ pc # "down"
    /\ life[w] < MaxLives
    /\ life' = [life EXCEPT ![w] = @ + 1]
    /\ wpc' = [wpc EXCEPT ![w] = "waiting"]
    /\ linkUp' = [linkUp EXCEPT ![w] = TRUE]
    /\ evOpen' = [evOpen EXCEPT ![w] = TRUE]
    /\ toWorker' = [toWorker EXCEPT ![w] = << >>]
    /\ srvOpen' = [srvOpen EXCEPT ![<<w, life[w] + 1>>] = TRUE]
    /\ toServer' = [toServer EXCEPT ![<<w, life[w] + 1>>] = <<"ready">>]
    /\ UNCHANGED <<mainVars, stateVars, gateVars, named, events, wphase, envVars>>

\* A send of the worker reaches its stream while the connection is alive.
Reply(w, m) ==
    toServer' = IF linkUp[w]
                THEN [toServer EXCEPT ![<<w, life[w]>>] = Append(@, m)]
                ELSE toServer

\* The inbound task hands the message to the loop and, for a
\* PrepareTransition, acknowledges it without waiting for the loop.
Inbound(w) ==
    /\ evOpen[w]
    /\ toWorker[w] # << >>
    /\ LET m == Head(toWorker[w]) IN
       /\ events' = [events EXCEPT ![w] = Append(@, m)]
       /\ IF m.type = "prepare" THEN Reply(w, "ack") ELSE UNCHANGED toServer
       /\ evOpen' = [evOpen EXCEPT ![w] = m.type # "complete"]
    /\ toWorker' = [toWorker EXCEPT ![w] = Tail(@)]
    /\ UNCHANGED <<mainVars, stateVars, gateVars, srvOpen, named, wpc, life,
                   linkUp, wphase, envVars>>

\* The stream ends; what was still in flight is lost.
InboundEnds(w) ==
    /\ evOpen[w]
    /\ ~linkUp[w]
    /\ evOpen' = [evOpen EXCEPT ![w] = FALSE]
    /\ toWorker' = [toWorker EXCEPT ![w] = << >>]
    /\ UNCHANGED <<mainVars, stateVars, gateVars, serverVars, wpc, life, linkUp,
                   events, wphase, envVars>>

\* wait_for_transition and the loops of query.rs and ingest.rs alike skip a
\* PrepareTransition.
TakePrepare(w) ==
    /\ events[w] # << >>
    /\ Head(events[w]).type = "prepare"
    /\ events' = [events EXCEPT ![w] = Tail(@)]
    /\ UNCHANGED <<mainVars, stateVars, gateVars, serverVars, wpc, life, linkUp,
                   toWorker, evOpen, wphase, envVars>>

TakeTransition(w) ==
    /\ events[w] # << >>
    /\ Head(events[w]).type = "transition"
    /\ wpc' = [wpc EXCEPT ![w] = "running"]
    /\ wphase' = [wphase EXCEPT ![w] = Head(events[w]).phase]
    /\ events' = [events EXCEPT ![w] = Tail(@)]
    /\ UNCHANGED <<mainVars, stateVars, gateVars, serverVars, life, linkUp,
                   toWorker, evOpen, envVars>>

WorkerProcessEnds(w) ==
    /\ wpc' = [wpc EXCEPT ![w] = "off"]
    /\ linkUp' = [linkUp EXCEPT ![w] = FALSE]
    /\ evOpen' = [evOpen EXCEPT ![w] = FALSE]
    /\ events' = [events EXCEPT ![w] = << >>]
    /\ toWorker' = [toWorker EXCEPT ![w] = << >>]
    /\ wphase' = [wphase EXCEPT ![w] = 0]
    /\ UNCHANGED life

\* RunComplete, or the closed event channel, ends the loop; only a worker that
\* had entered a phase sends DONE.
\* Mutated form: a closed channel is not the end of the run.
LoopEndedByMessage(w) ==
    events[w] # << >> /\ Head(events[w]).type = "complete"

LoopEnded(w) ==
    IF events[w] = << >> THEN ~evOpen[w] ELSE Head(events[w]).type = "complete"

LeaveLoop(w) ==
    /\ wpc[w] # "off"
    /\ LoopEnded(w)
    /\ IF wpc[w] = "running" THEN Reply(w, "done") ELSE UNCHANGED toServer
    /\ WorkerProcessEnds(w)
    /\ UNCHANGED <<mainVars, stateVars, gateVars, srvOpen, named, envVars>>

CrashWorker(w) ==
    /\ wpc[w] # "off"
    /\ Fault
    /\ WorkerProcessEnds(w)
    /\ UNCHANGED <<mainVars, stateVars, gateVars, serverVars, checkpoint, boots,
                   held>>

BreakLink(w) ==
    /\ linkUp[w]
    /\ Fault
    /\ linkUp' = [linkUp EXCEPT ![w] = FALSE]
    /\ UNCHANGED <<mainVars, stateVars, gateVars, serverVars, wpc, life, toWorker,
                   evOpen, events, wphase, checkpoint, boots, held>>

-----------------------------------------------------------------------------

MainTask ==
    \/ AllReadyReceived \/ SkipPhase \/ WriteCheckpoint \/ MarkPhase
    \/ SendPrepare \/ AckPause \/ SendTransition \/ HoldPhase
    \/ FinishTimeline \/ RemoveCheckpoint \/ ExitProcess

ControllerFault == WaitTimesOut \/ CrashController

ServerStream(w, k) ==
    \/ ReceiveReady(w, k) \/ ReceiveAck(w, k) \/ ReceiveDone(w, k)
    \/ Disconnect(w, k)

WorkerStep(w) ==
    \/ Connect(w) \/ Inbound(w) \/ InboundEnds(w)
    \/ TakePrepare(w) \/ TakeTransition(w) \/ LeaveLoop(w)

WorkerFault(w) == CrashWorker(w) \/ BreakLink(w)

Next ==
    \/ Boot
    \/ MainTask
    \/ ControllerFault
    \/ \E w \in Workers, k \in 1..MaxLives : ServerStream(w, k)
    \/ \E w \in Workers : WorkerStep(w) \/ WorkerFault(w)

Spec == Init /\ [][Next]_vars

\* The Deployments restart what ended; tokio runs every task that is ready.
Fairness ==
    /\ WF_vars(Boot)
    /\ WF_vars(MainTask)
    /\ \A w \in Workers, k \in 1..MaxLives : WF_vars(ServerStream(w, k))
    /\ \A w \in Workers :
          /\ WF_vars(Connect(w))
          /\ WF_vars(Inbound(w) \/ InboundEnds(w))
          /\ WF_vars(TakePrepare(w) \/ TakeTransition(w) \/ LeaveLoop(w))

FairSpec == Spec /\ Fairness
-----------------------------------------------------------------------------
(* Properties *)

\* The streams of the workers in W whose READY the server has handled and whose
\* inbound task still runs.
NamedStreams(W) == {s \in Streams : s[1] \in W /\ srvOpen[s] /\ named[s]}

\* The ready counts never fall below the number of live streams that have
\* reported READY, whatever the order of reconnections and disconnections: so
\* the counter cannot keep the barrier shut when every worker is there, and
\* saturating_sub never saturates.
ReadyCoversStreams ==
    /\ Cardinality(NamedStreams(IngestWorkers)) <= readyIngest
    /\ Cardinality(NamedStreams(QueryWorkers)) <= readyQuery

\* The registry holds no sender of a stream that has ended: a registered stream
\* is one whose inbound task is running and has handled READY.
RegistryIsLive ==
    \A w \in Workers :
        workers[w] # 0 => srvOpen[<<w, workers[w]>>] /\ named[<<w, workers[w]>>]

\* A connected worker never runs a phase later than the one the controller
\* reports as the current one.
NoWorkerAhead ==
    \A w \in Workers :
        linkUp[w] /\ wpc[w] = "running" => wphase[w] <= curIdx

\* A worker process runs the phases one after the other: once it has entered
\* one it never skips, repeats or goes back, though its registration may be
\* lost and messages on a broken stream are.
NoSkippedPhase ==
    [][\A w \in Workers :
          (/\ wpc[w] = "running" /\ wpc'[w] = "running"
           /\ wphase'[w] # wphase[w])
          => wphase'[w] = wphase[w] + 1]_vars

\* A timeline that is reported complete has had every phase held to its end,
\* by this process or by one before it whose checkpoint it resumed from.
CompleteCoversTimeline ==
    complete => \A p \in 0..(NumPhases - 1) : p \in held

\* With enough processes for the failures that happen, the workers become
\* ready, the barrier opens and the timeline completes.
TimelineCompletes == <>complete

\* A worker that is running when the timeline completes leaves its loop, even
\* when the registry has lost it and RunComplete is not sent to it: the
\* controller's exit closes its stream.
WorkersReleased ==
    \A w \in Workers : (complete /\ wpc[w] = "running") ~> (wpc[w] = "off")

\* "Wait for all workers to be ready" (phase_controller.rs:289): the timeline
\* starts only after the expected number of workers have reported READY.  It does
\* not hold: a worker that restarts before the end of its stream is noticed counts
\* twice.  No run is spent on the counterexample.
StartsWithAllWorkers ==
    [][~runStarted /\ runStarted'
          => /\ Cardinality(seen \cap IngestWorkers) >= ExpectedIngest
             /\ Cardinality(seen \cap QueryWorkers) >= ExpectedQuery]_vars
=============================================================================
