CONSTANTS
    MaxTasks = 1
    MaxAttempts = 1
    MaxMutations = 1
    MaxFaults = 1
SPECIFICATION FairSpec
INVARIANTS
    CreatedOnce
    RecoveryIsReal
PROPERTIES
    EveryFlowEnds
CHECK_DEADLOCK FALSE
