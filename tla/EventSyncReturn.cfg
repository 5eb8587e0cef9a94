CONSTANTS
    a = a
    b = b
    none = none
    Servers <- TwoServers
    NoServer = none
    Legacy <- AllModern
    IdentitiesReturn = TRUE
    TrustedDaemon = TRUE
    MaxSequence = 2
    MaxFaults = 3

SPECIFICATION Spec
CHECK_DEADLOCK FALSE
INVARIANTS
    SingleIdentity
