SPECIFICATION Spec
CONSTANTS
    SECTOR = 2
    CLUSTER = 4
    DATA = 3
    DISK_SECTORS = 13
    NAME_LEN = 2
    Stops <- MCStops
    Junk = Junk
    Images <- MCFullNames
    Paths <- MCPaths
    Empty <- MCEmpty
    MAX_FILE_DESCRIPTORS = 3
    SIZES <- MCSizes
    OFFSETS <- MCOffsets
    MAX_POS = 6
INVARIANTS
    FindsPresent
\* A read that hangs ends the run.
CHECK_DEADLOCK FALSE
