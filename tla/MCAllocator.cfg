SPECIFICATION Spec
CONSTANTS
    SYSTEM_BLOCKS = 10
    RESERVED_BLOCKS = 3
    BIG_ADDRESS = 2
    PAGE = 2
    SIZES <- MCSizes
    MAX_STRAYS = 2
INVARIANTS
    TypeOK
    LiveDisjoint
    MapExact
    CountersExact
    BigTableExact
    ZeroingMissesOwners
PROPERTIES
    ImplementsPool
