\* Transfers of up to three units in chunks of two, so that there are short,
\* exact and several chunks.
SPECIFICATION FairSpec
CONSTANTS
    ChunkTo = 2
    ChunkFrom = 2
    Retries = 2
    MaxLen = 3
    MaxCalls = 4
INVARIANTS
    TransfersAreWhole
    
PROPERTIES
    CallsReturn
    WritesAreDeliveries
CHECK_DEADLOCK FALSE
