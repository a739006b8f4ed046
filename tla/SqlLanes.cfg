SPECIFICATION Spec
CONSTANTS
    Workloads <- AllWorkloads
    CategoryOf <- OfQuery
    MaxFaults = 1
INVARIANTS
    LaneIsOneConnection
    StraysAreCancelled
PROPERTY TickEnds
CHECK_DEADLOCK FALSE
