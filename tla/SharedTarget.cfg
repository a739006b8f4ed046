SPECIFICATION Spec
CONSTANTS
    Runs <- TwoRuns
    Configs <- AllConfigs
    Protected = "default"
    MaxFailures = 1
INVARIANTS
    PreparedIsComplete
    LeftoversBlamed
PROPERTY PollEndsUnlessTaken
CHECK_DEADLOCK FALSE
