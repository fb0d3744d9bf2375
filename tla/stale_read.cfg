SPECIFICATION ReadSpec
CONSTANTS
    Keys = {k1}
    Writers = {w1}
    Readers = {r1}
    MaxSeq = 3
    KeyLen = 1
    ValueLens = {9}
INVARIANT NeverResurrected
CHECK_DEADLOCK FALSE
