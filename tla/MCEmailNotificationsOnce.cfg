SPECIFICATION Spec
CONSTANTS
    Workers = {w1, w2}
    RequestBound = 4
    ExpiryBound = 1
    FaultBound = 1
SYMMETRY WorkerSymmetry
CHECK_DEADLOCK FALSE
INVARIANT SendsOnce
