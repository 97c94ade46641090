SPECIFICATION Spec
VIEW View
CONSTANTS
    MAX_OPEN_FILES = 5
    MAX_INODES = 2
    MAX_BLOCKS = 3
    BLOCK_SIZE = 2
    RESERVED_BLOCKS = 1
    RESERVED_INODES = 1
    WORD = 17
    Garbage = {0}
    GarbageLinks = {1}
    ReadSizes = {2, 16}
    WriteSizes = {3, 16}
    Positions = {4}
    MaxReturned = 0
    MaxFreed = 0
INVARIANT
    PositionWithinFile
PROPERTY
    NoDescriptorTakenOver
