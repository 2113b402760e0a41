CONSTANTS
    p1 = p1
    p2 = p2
    c1 = c1
    c2 = c2
    Absent = Absent
    Paths <- TwoPaths
    Contents <- TwoContents
    MaxExecutions = 2
    MaxEdits = 3
    MaxUserOps = 1
    Faults <- FaultKinds
    MaxFaults = 2
SPECIFICATION Spec
INVARIANTS
    CommittedWasUploaded
    NothingLost
PROPERTY StagingKeepsWork
SYMMETRY Symmetric
CHECK_DEADLOCK FALSE
