SPECIFICATION FairSpec
CONSTANTS
    MaxSessions = 2
    MaxBeats = 3
    OverlappingSessions = {1}
    MaxCrashes = 1
INVARIANTS
    DbAgreesWhenQuiet
PROPERTIES
    TakenOfflineOnlyBySilence
    SilentIsOffline
CHECK_DEADLOCK FALSE
