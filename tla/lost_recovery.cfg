SPECIFICATION Spec
CONSTANTS
    Keys = {a}
    Writers = {c}
    Readers = {}
    Flushers = {c}
    None = None
    MaxSeq = 2
    MaxCrashes = 2
    MaxFaults = 0
    CrashInRecovery = TRUE
INVARIANTS Durable
