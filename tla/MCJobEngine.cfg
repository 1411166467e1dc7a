SPECIFICATION MCSpec
CONSTANTS
    Jobs <- MCJobs
    Parts = {"p", "q"}
    Kind <- MCKind
    Part <- MCPart
    Data <- MCData
    Rollback <- MCRollback
    Clients = {"c"}
    MaxCalls = 6
INVARIANTS
    RollbackIsExact
    SuccessMeansWritten
    
    QueueIsHonoured
PROPERTIES
    CancelEndsEveryRun
    StopReturns
CHECK_DEADLOCK FALSE
