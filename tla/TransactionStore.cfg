SPECIFICATION Spec
CONSTANTS
    Last = 2
    soc = soc
    cable_max_current = cable_max_current
    Fields <- MCFields
    PlainFields <- MCPlainFields
    MaxSends = 2
    None = None
INVARIANTS
    NewestEventWins
    ValuesComeFromStoredEvents
    VerifiedIffComplete
PROPERTIES
    ImplementsRecord
CHECK_DEADLOCK FALSE
