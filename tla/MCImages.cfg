SPECIFICATION MCSpec
CONSTANTS
    S = 3
    Max64 = 45
    Max32 = 4
    Size = 12
    ElfFiles <- MCElfFiles
    Required = {{}, {"X"}}
    W64 = 1024
    Chunk = 2
    ProgFaults = {"load", "verify", "prepare", "transfer", "timeout", "start"}
    MaxCalls = 3
    Folders <- MCFolders
    Templates <- MCTemplates
    HandMade <- MCHandMade
    DeviceSpecs <- MCDeviceSpecs
    UpperOf <- MCUpperOf
    Loaders <- MCLoaders
    Queries <- MCQueries
    Devices <- MCDevices
    Criteria <- MCCriteria
    CacheKeys = {"a", "b", "c", "k"}
    MaxEntries = 2
    MaxPuts = 6
    SaharaPackets <- MCPackets
    FirehoseFields <- MCFirehoseFields
    XmlDocs <- MCXmlDocs
    kMaxXmlDepth = 3
    UINT32_MAX = 5000000
    ChunkSize = 2
    Payload = 5
    MaxWriteRetries = 1
    Settings <- MCSettings
    CustomSettings <- MCCustomSettings
    SaveSources = {"cli"}
    Docs <- MCDocs
    ConfigPaths = {"one.json", "two.json"}
    MaxConfigOps = 5
    Paths = {"usb1", "usb2"}
    Packages = {"p1"}
    MaxBridgeCalls = 4
    B = 16
    WireMessages <- MCWireMessages
    MaxExchanges = 3
INVARIANTS
    FormatsAreExact
    BridgeIsSound
    ConfigIsExact
CHECK_DEADLOCK FALSE
