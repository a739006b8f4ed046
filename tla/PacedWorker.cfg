SPECIFICATION Spec
CONSTANTS
    ExpectedPhases <- ThreePhases
    MinDuration = 1
    MilliPerOp = 4
    Whole = 100
    WeightSlack = 1
    Scenarios <- AllScenarios
    Specs <- AllSpecs
    Ticks = 2
    MaxTime = 8
    Edits <- AllEdits
INVARIANTS
    TypeOK
    RateFollowsPhase
    BaselineReachable
    PlanIsConsistent
    PaceBounded
CHECK_DEADLOCK FALSE
