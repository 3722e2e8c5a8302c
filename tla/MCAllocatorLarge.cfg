SPECIFICATION Spec
CONSTANTS
    SYSTEM_BLOCKS = 10
    RESERVED_BLOCKS = 3
    BIG_ADDRESS = 2
    PAGE = 2
    SIZES <- MCLargeSizes
    MAX_STRAYS = 0
INVARIANTS
    CountersExact
