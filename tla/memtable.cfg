SPECIFICATION FairReadSpec
CONSTANTS
    Keys = {k1, k2}
    Writers = {w1, w2}
    Readers = {r1}
    MaxSeq = 3
    KeyLen = 1
    ValueLens = {9}
INVARIANTS ReadTypeOK NewestWins CurrentOrBelow SizeExact
PROPERTIES ApplyReturns
CHECK_DEADLOCK FALSE
