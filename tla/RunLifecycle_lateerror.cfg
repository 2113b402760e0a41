CONSTANTS
    w1 = w1
    w2 = w2
    rt1 = rt1
    rt2 = rt2
    NRuns = 1
    Workers <- TwoWorkers
    Runtimes <- OneRuntime
    MaxAttempts = 2
    Faults <- StreamBreakOnly
    MaxFaults = 1
SPECIFICATION Spec
PROPERTY RequeuedFromAttention
CHECK_DEADLOCK FALSE
