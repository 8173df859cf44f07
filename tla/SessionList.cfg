SPECIFICATION Spec
CONSTANTS
    SessionId = {s1, s2, s3, s4}
    PageSize = 2
    MaxTime = 3
SYMMETRY SessionSymmetry
INVARIANTS
    WalkMissesNothing
CHECK_DEADLOCK FALSE
