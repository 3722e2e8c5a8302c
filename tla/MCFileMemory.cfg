SPECIFICATION Spec
CONSTANTS
    SECTOR = 2
    CLUSTER = 4
    DATA = 2
    DISK_SECTORS = 16
    NAME_LEN = 2
    Stops = {0}
    Junk = Junk
    SYSTEM_BLOCKS = 45
    RESERVED_BLOCKS = 20
    BIG_ADDRESS = 4
    PAGE = 4
    Images <- MCImages
    Paths <- MCPaths
    Empty <- MCEmpty
    MAX_FILE_DESCRIPTORS = 3
    ENTRY = 2
    ROOT_BYTES = 6
    SIZES <- MCSizes
    MAX_CALLS = 3
INVARIANTS
    TypeOK
    NothingShared
    OpenKeeps
    RootFileWhole
CHECK_DEADLOCK FALSE
