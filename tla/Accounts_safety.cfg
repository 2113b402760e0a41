CONSTANTS
    t1 = t1
    t2 = t2
    NRuns = 3
    Procs <- TwoProcs
    Credits = 5
    Cost = 2
    Limit = 1
    MaxWrites = 3
    MaxFaults = 1
SPECIFICATION Spec
INVARIANTS
    RunsArePaidFor
    CountersExact
    GaugesCoverRecent
    ActiveIsRunning
PROPERTY SerialSpec
SYMMETRY Symmetric
CHECK_DEADLOCK FALSE
