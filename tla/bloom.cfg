SPECIFICATION Spec
CONSTANTS
    Hashes <- HashPairs
    Word = 16
    WordBits = 4
    WordsPerBlock = 2
    LaneBits = 2
    MaxWords = 6
    KeyCounts = {0, 3, 8, 20}
    BitsPerKey = {0, 1, 3, 9, 17}
INVARIANTS TypeOK NoFalseNegatives OnlyCollisions SimdAgrees NeverRefused
CHECK_DEADLOCK FALSE
