SPECIFICATION Spec
CONSTANTS
    k1 = k1
    k2 = k2
    Kinds <- TwoKinds
    Modes <- EveryMode
    ChannelCapacity = 1
    MaxRetries = 2
    MaxOps = 3
INVARIANTS
    TypeOK
    NeverCountedTwice
    NothingLostSilently
    SessionFlushed
CHECK_DEADLOCK FALSE
