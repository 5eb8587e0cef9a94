CONSTANTS
    loopback = loopback
    remote = remote
    none = none
    Endpoints <- TwoEndpoints
    Reachable <- TwoEndpoints
    NoEndpoint = none
    MaxSwitches = 0
SPECIFICATION Spec
PROPERTIES
    DisconnectDropsPermissions
CHECK_DEADLOCK FALSE
