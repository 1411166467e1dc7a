\* Versions 0..4 surround the host's 2..3 on both sides; a one byte image
\* in a three value word lets an offset plus a length wrap around.
SPECIFICATION FairSpec
CONSTANTS
    MaxVersion = 4
    Word = 3
    DataSize = 1
    MaxCalls = 3
INVARIANTS
    BestVersion
    ChunksInImage
    UploadIsComplete
PROPERTIES
    CancelEndsCall
CHECK_DEADLOCK FALSE
