CONSTANTS
    a = a
    b = b
    none = none
    Servers <- TwoServers
    NoServer = none
    Legacy <- AllModern
    IdentitiesReturn = FALSE
    TrustedDaemon = TRUE
    MaxSequence = 2
    MaxFaults = 3

SPECIFICATION FairSpec
CHECK_DEADLOCK FALSE
INVARIANTS
    SingleIdentity
    Contiguous
    ResumeIsSound
PROPERTIES
    CursorMovesBackOnlyOnReset
    EventuallyCaughtUp
    ImplementsEventHistory
