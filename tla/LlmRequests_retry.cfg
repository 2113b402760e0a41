CONSTANTS
    q1 = q1
    q2 = q2
    run = run
    None = None
    Requests <- TwoRequests
    Runs <- OneRun
    RunOf <- OfOneRun
    MaxRetries = 3
SPECIFICATION FairSpec
INVARIANTS
    OneCallAtATime
    CancelledOnlyTorn
    RetryLostOnlyLate
    LatestIsFound
PROPERTY RequestsEnd
CHECK_DEADLOCK FALSE
