SPECIFICATION InstallSpec
CONSTANTS
    LastKey = 4
    Keys <- KeyRange
    Seqs = {1, 2}
    ValueLens = {20}
    KeyLen = 1
    FilterLen = 44
    BlockSizes = {0, 36}
    FalsePositives = {2, 4}
    None = None
INVARIANTS TypeOK GetExact HitGenuine SoundOpens DecodesToAdded FooterExact IndexOrdered PublishedIsWhole
PROPERTIES GetReturns
CONSTRAINT DamageBound
CHECK_DEADLOCK FALSE
