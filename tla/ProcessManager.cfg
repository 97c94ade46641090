SPECIFICATION FairSpec
CONSTANTS
    MAX_PROCESSES = 2
    MAX_THREADS_PER_PROCESS = 1
    MAX_OPEN_FILES = 2
    Priorities = {0, 1}
    ExitCodes = {7}
    Fds = {3}
    COUNTER = 2
    MaxTerminations = 2
INVARIANTS
    TypeOK
    ProcessTreeOrdered
    CurrentAgrees
    FilesTracked
    
PROPERTY
    SchedulerDrains
