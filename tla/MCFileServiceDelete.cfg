SPECIFICATION Spec
CONSTANTS
    Requests = {r1, r2}
    RequestBound = 4
    FaultBound = 0
    OverlayBound = 1
SYMMETRY RequestSymmetry
CHECK_DEADLOCK FALSE
INVARIANT ContentGoesWithMetadata
