SPECIFICATION Spec
CONSTANTS
    SYSTEM_BLOCKS = 26
    RESERVED_BLOCKS = 1
    BIG_ADDRESS = 1
    PAGE = 4
    TABLES = 1
    Tasks <- MCTasks
INVARIANTS
    PrevExact
CHECK_DEADLOCK FALSE
