CONSTANTS
    p1 = p1
    p2 = p2
    c1 = c1
    c2 = c2
    Absent = Absent
    Paths <- OnePath
    Contents <- TwoContents
    MaxExecutions = 2
    MaxEdits = 1
    MaxUserOps = 0
    Faults <- NoFaults
    MaxFaults = 0
SPECIFICATION Spec
INVARIANT ChangesPreserved
CHECK_DEADLOCK FALSE
