SPECIFICATION Spec
CONSTANTS
    HEAP_START = 4096
    HEAP_END = 4240
    HDR = 16
    WORD = 65536
    Requests = {0, 8, 40}
INVARIANTS
    TypeOK
    HeapSound
    CallersKeepApart
    AllFreedIsOneBlock
PROPERTY
    ImplementsAbstractHeap
