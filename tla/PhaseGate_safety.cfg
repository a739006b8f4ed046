SPECIFICATION Spec
CONSTANTS
    i1 = i1
    q1 = q1
    IngestWorkers <- OneIngest
    QueryWorkers <- OneQuery
    ExpectedIngest = 1
    ExpectedQuery = 1
    NumPhases = 3
    Checkpointing = TRUE
    MaxLives = 2
    MaxBoots = 2
    MaxFaults = 1
CHECK_DEADLOCK FALSE
INVARIANTS
    TypeOK
    ReadyCoversStreams
    RegistryIsLive
    NoWorkerAhead
    CompleteCoversTimeline
PROPERTY NoSkippedPhase
