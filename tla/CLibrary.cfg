SPECIFICATION Spec
CONSTANTS
    HeapSize = 4
    WORD = 16
    LONG_MAX = 63
    Bytes = {0, 45, 48, 49, 97, 120}
    Sizes = {0, 1, 3, 15}
    Counts = {3, 6}
    MaxBlocks = 2
    MaxWraps = 1
INVARIANTS
    BlocksApart
    MovesRight
    StringsRight
    NumbersRight
PROPERTY
    ReallocKeepsContents
