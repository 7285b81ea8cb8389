SPECIFICATION RequestsFairSpec
CONSTANTS
    r1 = r1
    r2 = r2
    s1 = s1
    id1 = id1
    id2 = id2
    start1 = start1
    Reports <- MCReports
    Starts <- MCStarts
    Logged <- MCLogged
    Keys <- MCKeys
    Ids <- MCIds
    Parts = 2
    Repeats = 2
    NoCall = NoCall
INVARIANTS
    ReturnsAllReports
    LastEndsWait
PROPERTIES
    RaisesOnlyLate
    EveryRequestEnds
CHECK_DEADLOCK FALSE
