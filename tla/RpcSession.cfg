SPECIFICATION FairSpec
CONSTANTS
    r1 = r1
    r2 = r2
    hb = hb
    none = none
    Calls <- OneCall
    Pings <- OnePing
    NoRequest <- none
    CommandCapacity = 1
    CancelCapacity = 1
INVARIANTS
    PendingHasAnOwner
PROPERTIES
    EveryCallReturns
    HeartbeatRecovers
    ShutdownIsHeeded
CHECK_DEADLOCK FALSE
