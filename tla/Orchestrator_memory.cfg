CONSTANTS
    e1 = e1
    p1 = p1
    p2 = p2
    Executions <- OneExecution
    Resumers <- TwoResumers
    MaxSteps = 3
    MaxClaims = 2
    MaxResumes = 2
    Faults <- FaultKinds
    MaxFaults = 1
SPECIFICATION FairSpec
INVARIANTS
    TypeOK
    WorkSurvives
    OneResultPerStep
    AnsweredAsAsked
    McpStateKept
PROPERTY SessionsEnd
CHECK_DEADLOCK FALSE
