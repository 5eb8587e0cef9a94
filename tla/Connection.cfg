CONSTANTS
    loopback = loopback
    remote = remote
    Endpoints <- TwoEndpoints
    Reachable <- OnlyLoopback
    NoEndpoint = none
    MaxSwitches = 3
    prod = prod
    dev = dev
    Apps = {prod, dev}
    Versions = {1, 2}
    MaxPids = 4
    MaxOperations = 2
    MaxFaults = 1
    Digests = {1, 2}
    MaxInstalls = 3
    MaxErrors = 2
    BroadcastCapacity = 20
    ChannelCapacity = 20
    MaxAttempts = 2
    MaxEvents = 1
SPECIFICATION ConnectionSpec
INVARIANTS
    EndpointIsCurrent
    BoundToThisDaemon
    BusyMeansWork
    OneAtWork
    ForeignUntouched
    NoStrays
    InstallIsAtomic
PROPERTIES
    EditableAgain
    ViewFollowsSession
CHECK_DEADLOCK FALSE
