CONSTANTS
    w1 = w1
    w2 = w2
    rt1 = rt1
    rt2 = rt2
    NRuns = 1
    Workers <- TwoWorkers
    Runtimes <- TwoRuntimes
    MaxAttempts = 3
    Faults <- FaultKinds
    MaxFaults = 1
SPECIFICATION Spec
INVARIANTS
    TypeOK
    RunningInCustody
    TerminatedOnlyAfterOutcome
    NoVmLeftAfterSuccess
PROPERTY QueueSpec
SYMMETRY Symmetric
CHECK_DEADLOCK FALSE
