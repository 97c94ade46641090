SPECIFICATION Spec
SYMMETRY HolderSymmetry
CONSTANTS
    PAGE_COUNT = 3
    PAGE_SIZE = 4
    MAX_MAPPINGS = 2
    SWAP_SIZE = 4
    WORD = 16
    PageCounts = {0, 2, 4}
    Regions <- MCRegions
    Table = {1, 4}
    Entries = {3}
    SwapSizes = {1, 2, 15}
    Holders = {h1, h2, h3}
    MaxFaults = 1
INVARIANTS
    TypeOK
    PagesAccountedFor
    TranslationFollowsMappings
    SwapSegmentsApart
