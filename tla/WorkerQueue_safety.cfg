CONSTANTS
    w1 = w1
    w2 = w2
    NRuns = 2
    Workers <- TwoWorkers
    Backends = {TRUE, FALSE}
    Reconciles = TRUE
    MaxTries = 2
    MaxOffers = 2
    Faults <- FaultKinds
    MaxFaults = 2
SPECIFICATION FairSpec
INVARIANTS
    TypeOK
    NoLostWakeup
PROPERTIES
    QueueSpec
    QueuedIsServed
    KeepsLooking
CHECK_DEADLOCK FALSE
