SPECIFICATION Spec
CONSTANTS
    None = None
    one = one
    two = two
    other = other
    three = three
    large = large
    Records = {one, two, other, three, large}
    DataLen <- DataLengths
    Claims <- FrameClaims
    PageSize = 4096
    MaxRecordBytes = 16384
    MaxCrashes = 2
    MaxFaults = 2
INVARIANTS TypeOK AckedKept OffsetExact
PROPERTIES ImplementsRecordLog
CHECK_DEADLOCK FALSE
