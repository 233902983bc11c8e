SPECIFICATION FairSpec
CONSTANTS
    Caches <- AllCaches
    Queries <- AllQueries
    DYLD_LIKELY_UNSLID_VM_ADDR = 100
    MAX_REEXPORT_RESOLUTION_DEPTH = 3
    HEADER_SIZE = 4
    PROVISIONAL_MAPPINGS = 3
INVARIANTS
    TypeOK
    LibrariesInPlace
    IndexedExactly
    ResolvesToDefinition
    FindsDefinition
PROPERTY Termination
