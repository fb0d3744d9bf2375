SPECIFICATION Spec
CONSTANTS
    Keys = {a}
    Writers = {f1, f2}
    Readers = {f1, f2}
    Flushers = {f1, f2}
    None = None
    MaxSeq = 2
    MaxCrashes = 1
    MaxFaults = 1
    CrashInRecovery = TRUE
SYMMETRY Interchangeable
INVARIANTS TypeOK IInv GetCurrent FlushLeavesOnDisk NewestFirst FreshSeq EmptySlotStuck
PROPERTIES VisibleKept SstImmutable FrozenHandoff
CONSTRAINT PutsAndDeletesInTurn
