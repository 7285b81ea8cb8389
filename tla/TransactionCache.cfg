CONSTANTS
    x1 = x1
    x2 = x2
    c1 = c1
    c2 = c2
    Trans <- MCTrans
    Calls <- MCCalls
    charge = charge
    pause = pause
    Actions <- MCActions
    LastEvent = 3
    MaxRepeats = 1
    Unset = Unset
    Absent = Absent

SPECIFICATION Spec

SYMMETRY MCSymmetry

INVARIANTS
    CachedActionIsActing
    RaisedOnlyAfterEnd
    CacheFollows

CHECK_DEADLOCK FALSE
