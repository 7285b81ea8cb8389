SPECIFICATION FairSpec
CONSTANTS
    c1 = c1
    c2 = c2
    c3 = c3
    Calls <- MCCalls
    Keys <- MCCalls
    KeyOf <- UuidOf
    MaxCrashes = 1
    None = None
INVARIANTS
    RightAnswer
    NoStaleEntry
PROPERTIES
    EveryCallEnds
    ImplementsPromise
CHECK_DEADLOCK FALSE
