SPECIFICATION Spec
CONSTANTS
    SYSTEM_BLOCKS = 26
    RESERVED_BLOCKS = 1
    BIG_ADDRESS = 1
    PAGE = 4
    TABLES = 1
    Tasks <- MCTasks
INVARIANTS
    ListExact
    MemoryExact
PROPERTIES
    TakesTurns
\* A list that followed a stale prev field is not continued.
CHECK_DEADLOCK FALSE
