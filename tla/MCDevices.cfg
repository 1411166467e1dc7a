SPECIFICATION MCSpec
CONSTANTS
    Tables = {t1, t2}
    t1 = t1
    t2 = t2
    MaxOps = 5
    MaxFaults = 2
    Careful = TRUE
    Sessions = {s1, s2}
    s1 = s1
    s2 = s2
    Threads = {th1, th2}
    th1 = th1
    th2 = th2
    Kinds = {"Writing", "Resetting"}
    Disciplined = TRUE
    MaxCalls = 4
    LogThreads = {1}
    kRingBufferSize = 2
    Capacity = 3
    ResizeAnytime = FALSE
    Addresses = {1, 2}
    maxHistoryPerName = 3
    MaxRecords = 4
    MaxMeasures = 4
    MaxToolCalls = 4
    StorageSize = 4
    PartInfos <- MCPartInfos
    FailureRules <- MCRules
    Buffers <- MCBuffers
    MemoryAddresses = {0, 1, 3}
    MaxDeviceCalls = 4
    Registrations <- MCRegistrations
    VersionTexts <- MCVersionTexts
    HeaderSets <- MCHeaderSets
    W32 = 8
    MaxRegistered = 3
INVARIANTS
    SingleFaultSafe
    RecoveryIsExact
    SessionsAreSound
    ToolsAreExact
PROPERTIES
    WriteIsComplete
    NoForgedCopy
    CancelHolds
CHECK_DEADLOCK FALSE
