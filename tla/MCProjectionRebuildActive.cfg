SPECIFICATION Spec
CONSTANTS
    a = a
    b = b
    Drivers = {a}
    DocumentBound = 2
    BatchSize = 1
    CommitBound = 1
    CallBound = 4
    FaultBound = 0
SYMMETRY DriverSymmetry
CHECK_DEADLOCK FALSE
INVARIANT ActiveIsCurrent
