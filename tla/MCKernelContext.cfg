SPECIFICATION Spec
CONSTANTS
    SYSTEM_BLOCKS = 46
    RESERVED_BLOCKS = 8
    BIG_ADDRESS = 12
    PAGE = 2
    TABLES = 1
    Tasks <- MCTasks
    MAX_PROCESSES = 3
    PROCESS_SIZE = 4
    STACK_SIZE = 4
    FOPEN_BLOCKS = 2
    FOPEN_MISS_BLOCKS = 1
    PROGRAM = 5
    STACK = 2
    KSTACK = 7
    Files <- MCFiles
    FileSize <- MCFileSize
    Unreadable <- MCUnreadable
    LOADS = 3
INVARIANTS
    ContextRestored
