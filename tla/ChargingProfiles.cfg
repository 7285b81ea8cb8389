CONSTANTS
    c1 = c1
    c2 = c2
    c3 = c3
    x1 = x1
    Calls <- MCCalls
    Trans <- MCTrans
    EVSEs = {1}
    Levels = {1}
    GivenIds = {1}
    ExternalIds = {3}
    FirstId = 2
    MaxId = 6
    MaxOverlapping = 2
    None = None

SPECIFICATION Spec

SYMMETRY MCSymmetry

INVARIANTS
    NoConflictingRows
    FreshIds

CHECK_DEADLOCK FALSE
