CONSTANTS
    t1 = t1
    t2 = t2
    t3 = t3
    Tools <- ThreeTools
    CacheSize = 2
    SearchLimit = 1
    Labels = {"sandbox"}
    DefaultLabel = "sandbox"
    SandboxCodes = {"sandbox_syntax_error", "sandbox_empty_result"}
    MaxSteps = 4
    MaxToolCalls = 2
    MaxCodeRuns = 2
    MaxCost = 1
    CallCosts = {0, 1}
SPECIFICATION FairSpec
INVARIANTS
    BudgetKept
    EveryStepRecorded
    ThreeStrikes
    FoundIsKept
    OvershootBounded
PROPERTY TaskEnds
CHECK_DEADLOCK FALSE
