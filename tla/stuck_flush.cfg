SPECIFICATION FairSpec
CONSTANTS
    Keys = {a}
    Writers = {c}
    Readers = {}
    Flushers = {c}
    None = None
    MaxSeq = 2
    MaxCrashes = 0
    MaxFaults = 1
    CrashInRecovery = FALSE
PROPERTIES FlushReturns
