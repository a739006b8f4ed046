SPECIFICATION Spec
CONSTANTS
    op1 = op1
    s1 = s1
    s2 = s2
    Operators <- OneOperator
    StreamSeq <- TwoStreams
    MaxLag = 0
    Failures <- AllFailures
    MaxFaults = 2
PROPERTY LifecycleSpec
CHECK_DEADLOCK FALSE
