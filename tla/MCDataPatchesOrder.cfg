SPECIFICATION Spec
CONSTANTS
    PatchCount = 2
    Reversible <- AllReversible
    Workers = {w1, w2}
    MaxClaims = 4
SYMMETRY WorkerSymmetry
CHECK_DEADLOCK FALSE
PROPERTY RunsInOrder
