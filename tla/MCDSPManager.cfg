SPECIFICATION MCSpec
CONSTANTS
    a = a
    b = b
    c = c
    lx = lx
    ly = ly
    Ids = {a, b}
    Loaders <- MCLoaders
    Sources <- MCSources
    InitDisks <- MCInitDisks
    MaxReads = 2
    Faults = {"throw", "skip", "remove"}
    Catalog <- MCCatalogSet
    Quirks <- MCQuirks
    Packs <- MCPacks
    Profiles <- MCProfiles
    Devices <- MCDevices
    Policies <- MCPolicies
    MaxEntries = 2
    CIds = {a, b, c}
    Safe <- MCSafe
    Values = {"one"}
    MaxFiles = 2
    Dirs <- MCDirs
    Faulty = TRUE
INVARIANTS
    PackagesAreExact
    AnswersAreExact
