SPECIFICATION FairSpec
CONSTANTS
    Keys = {a}
    Writers = {c}
    Readers = {r}
    Flushers = {c}
    None = None
    MaxSeq = 3
    MaxCrashes = 1
    MaxFaults = 0
    CrashInRecovery = FALSE
INVARIANTS Durable InFlightTracksJob RotatedLogKept
PROPERTIES ImplementsStore FlushReturns FrozenDrains OpenFinishes
