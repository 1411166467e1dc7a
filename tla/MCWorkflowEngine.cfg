SPECIFICATION MCSpec
CONSTANTS
    Types <- MCTypes
    Custom <- MCCustom
    MaxRetries = 2
    Joined = TRUE
    MaxCalls = 5
    NoValue = NoValue
    StepChoices = {"UploadLoader", "Verify"}
    JobIds = {j1, j2}
    Threads = {t1, t2}
    Policies <- MCPolicies
    Contexts <- MCContexts
    Filters <- MCFilters
    HistoryMax = 3
    MaxOps = 4
INVARIANTS
    WorkflowIsWhole
    RollbackUndoes
PROPERTIES
    NoStepAfterCancel
    CancelEndsRun
CHECK_DEADLOCK FALSE
