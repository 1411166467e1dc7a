SPECIFICATION FairSpec
CONSTANTS
    N = 3
    MaxRecovery = 2
    MaxCalls = 3
    Configs <- MCConfigs
INVARIANTS
    InvocationsBounded
PROPERTIES
    ReadyMeansBooted
    RunTerminates
CHECK_DEADLOCK FALSE
