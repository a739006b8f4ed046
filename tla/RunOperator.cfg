SPECIFICATION FairSpec
CONSTANTS
    op1 = op1
    s1 = s1
    s2 = s2
    Operators <- OneOperator
    StreamSeq <- TwoStreams
    MaxLag = 2
    Failures <- BoundedFailures
    MaxFaults = 2
INVARIANTS
    TypeOK
    InfraProtected
    AggregatingIsBounded
    CompletedHasResults
    LeftAloneMeansGone
PROPERTIES RunEnds DeletedRunVanishes
CHECK_DEADLOCK FALSE
