SPECIFICATION FairSpec
CONSTANTS
    i1 = i1
    q1 = q1
    q2 = q2
    u1 = u1
    IngestWorkers <- OneIngest
    QueryWorkers <- OneQuery
    Subscribers <- OneClient
    MaxSecond = 2
    MaxSnapshots = 2
    MaxStreams = 1
    MaxErrorRecords = 1
    LiveCapacity = 1
    OutCapacity = 1
    MaxFaults = 1
PROPERTY EndedStreamsCounted
CHECK_DEADLOCK FALSE
