SPECIFICATION FairSpec
CONSTANTS
    MAX_PROCESSES = 2
    MAX_THREADS_PER_PROCESS = 0
    MAX_OPEN_FILES = 0
    Priorities = {1}
    ExitCodes = {0}
    Fds = {}
    COUNTER = 2
    MaxTerminations = 0
PROPERTY
    EveryRunnableGetsATurn
