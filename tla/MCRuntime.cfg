SPECIFICATION MCSpec
CONSTANTS
    Callers = {1, 2}
    NoOne = NoOne
    Links = {s1, s2}
    Calls = {"connect", "reconnect", "flashPackage", "workflowType", "discover", "memory", "backup", "restore", "flashPath", "loadPackage", "runJob", "workflow", "cancel", "pause", "resume", "disconnect", "reset", "initialize", "shutdown", "addObserver", "removeObserver"}
    Watchers = {w}
    Disciplined = TRUE
    MaxRuns = 4
    Offers <- MCOffers
    Failures = {"register", "init", "shutdown", "unregister"}
    MaxStuck = 1
    VendorIds = {"qualcomm", "mediatek"}
    NoVendor = "none"
    Features = {"Flash", "GPT"}
    HasFeature <- MCHasFeature
    Speaks <- MCSpeaks
    Protocols = {"Sahara", "MediaTekBROM"}
    MaxExecs = 2
    Specs <- MCSpecs
    Detectors = {"virtual", "usb"}
    NegTypes = {"Sahara", "Firehose", "MediaTekBROM"}
    Bases = {50, 100}
    Invocations <- MCInvocations
    Typed <- MCTyped
    ScriptFiles <- MCScripts
    DataFiles = {"in"}
    CliFailures = {"TransportError"}
    MaxTyped = 4
    MaxDepth = 3
INVARIANTS
    ConnectionsAreSound
    CommandsAreExact
    ServicesAreSound
PROPERTY CallsFinish
CHECK_DEADLOCK FALSE
