SPECIFICATION StandaloneSpec
VIEW View
CONSTANTS
    BLOCK_SIZE = 2
    CacheSlots = 5
    BlockNumbers = {0, 1, 2}
    Data = {0, 1}
    SCREEN_WIDTH = 5
    SCREEN_HEIGHT = 2
    Characters = {"a"}
    Space = " "
    Fills = {"fill"}
    WORD = 64
    VRAM_SIZE = 8
    VRAM_RESERVED = 3
    PER_TEXTURE = 2
    Textures = {1, 2}
    TextureSizes = {1, 2, 3, 61}
    FIRST_FD = 3
    MAX_PROCESSES = 3
    MaxFd = 6
    Values = {0, 3, 5}
    Paths <- MCPaths
    InitialChildren <- MCInitialChildren
    InitialFiles <- MCInitialFiles
    MaxPath = 7
    MaxNew = 1
    Lines = {1, 3, 12}
    Dispatched = {1, 12}
    NULL = "NULL"
    MaxInterrupts = 4
INVARIANTS
    VramWithinCard
    FilesListed
    UpLeadsToRoot
    NoEventInvented
    OnlyRacesLoseEvents
    InterruptsAccountedFor
PROPERTIES
    ImplementsWriteOnceStore
    ImplementsTerminal
    OpenAnswersFreshDescriptor
