SPECIFICATION Spec
CONSTANTS
    None = None
    one = one
    two = two
    other = other
    three = three
    large = large
    Records = {one, three}
    DataLen <- DataLengths
    Claims <- FrameClaims
    PageSize = 4096
    MaxRecordBytes = 16384
    MaxCrashes = 2
    MaxFaults = 2
INVARIANT TornTailIsEnd
CHECK_DEADLOCK FALSE
