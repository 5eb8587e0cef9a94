CONSTANTS
    a = a
    b = b
    none = none
    Servers <- TwoServers
    NoServer = none
    Legacy = {b}
    IdentitiesReturn = FALSE
    TrustedDaemon = FALSE
    MaxSequence = 2
    MaxFaults = 2

SPECIFICATION Spec
CHECK_DEADLOCK FALSE
PROPERTIES
    IdentityChangeResets
