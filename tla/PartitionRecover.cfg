\* Two tables tell an old copy from a new one; four operations with two
\* faults reach a failed write, a recovery after it and a second failure.
SPECIFICATION Spec
CONSTANTS
    Tables = {t1, t2}
    t1 = t1
    t2 = t2
    MaxOps = 4
    MaxFaults = 2
    Careful = FALSE
PROPERTIES
    RecoveryKeepsTable
CHECK_DEADLOCK FALSE
