CONSTANTS
    t1 = t1
    t2 = t2
    Tokens <- MCTokens
    Dated <- MCDated
    Presented <- MCPresented
    Updates <- MCUpdates
    MaxChanges = 1
    Limits <- MCLimits
    None = None

SPECIFICATION Spec

INVARIANTS
    FullReplaces
    GrantedWhileValid

PROPERTIES
    VersionForward
    EveryUpdateEnds

CHECK_DEADLOCK FALSE
