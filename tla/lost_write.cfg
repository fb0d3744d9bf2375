SPECIFICATION Spec
CONSTANTS
    Keys = {a}
    Writers = {w}
    Readers = {}
    Flushers = {f}
    None = None
    MaxSeq = 3
    MaxCrashes = 0
    MaxFaults = 0
    CrashInRecovery = FALSE
SYMMETRY Interchangeable
INVARIANTS Durable
