CONSTANTS
    w1 = w1
    w2 = w2
    rt1 = rt1
    rt2 = rt2
    NRuns = 2
    Workers <- OneWorker
    Runtimes <- OneRuntime
    MaxAttempts = 2
    Faults <- ObservedFaults
    MaxFaults = 2
SPECIFICATION FairSpec
PROPERTY RunningSettles
CHECK_DEADLOCK FALSE
