CONSTANTS
    MaxTasks = 1
    MaxAttempts = 1
    MaxMutations = 1
    MaxFaults = 1
SPECIFICATION Spec
PROPERTIES
    GoneIsGone
CHECK_DEADLOCK FALSE
