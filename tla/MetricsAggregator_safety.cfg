SPECIFICATION Spec
CONSTANTS
    i1 = i1
    q1 = q1
    q2 = q2
    u1 = u1
    IngestWorkers <- OneIngest
    QueryWorkers <- OneQuery
    Subscribers <- OneClient
    MaxSecond = 2
    MaxSnapshots = 3
    MaxStreams = 2
    MaxErrorRecords = 1
    LiveCapacity = 2
    OutCapacity = 1
    MaxFaults = 1
INVARIANTS
    TypeOK
    TimelineMatches
    ConnectedIsExact
    DrainedIsComplete
    ViewIsCurrent
CHECK_DEADLOCK FALSE
