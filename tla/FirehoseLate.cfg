\* An answer that comes after its timeout is taken for the next command's.
SPECIFICATION Spec
CONSTANTS
    ChunkTo = 1
    ChunkFrom = 1
    Retries = 2
    MaxLen = 0
    MaxCalls = 2
INVARIANT
    EveryAnswerIsItsOwn
CHECK_DEADLOCK FALSE
