SPECIFICATION FairSpec
CONSTANTS
    i1 = i1
    q1 = q1
    IngestWorkers <- OneIngest
    QueryWorkers <- OneQuery
    ExpectedIngest = 1
    ExpectedQuery = 1
    NumPhases = 2
    Checkpointing = TRUE
    MaxLives = 2
    MaxBoots = 2
    MaxFaults = 1
PROPERTIES
    TimelineCompletes
    WorkersReleased
CHECK_DEADLOCK FALSE
