SPECIFICATION Spec
CONSTANTS
    Keys = {a}
    Writers = {c}
    Readers = {}
    Flushers = {c}
    None = None
    MaxSeq = 2
    MaxCrashes = 1
    MaxFaults = 0
    CrashInRecovery = FALSE
INVARIANTS OpenSucceeds
