SPECIFICATION Spec
VIEW CountersView
CONSTANTS
    MAX_OPEN_FILES = 4
    MAX_INODES = 3
    MAX_BLOCKS = 3
    BLOCK_SIZE = 2
    RESERVED_BLOCKS = 1
    RESERVED_INODES = 2
    WORD = 17
    Garbage = {0, 1}
    GarbageLinks = {1}
    ReadSizes = {}
    WriteSizes = {3}
    Positions = {}
    MaxReturned = 2
    MaxFreed = 2
INVARIANTS
    DataIsPaidFor
    InodesWithinTable
    BlocksWithinDisk
