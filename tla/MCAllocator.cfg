SPECIFICATION FairBoundedSpec
CONSTANTS
    t1 = t1
    t2 = t2
    Threads = {t1, t2}
    Layouts <- MixedLayouts
    MIN_ALIGN = 2
    MIN_REUSE = 4
    CHUNK_SIZE = 20
    VM_PAGE = 8
    AddressLimit = 52
    MaxCalls = 5
INVARIANTS
    TypeOK
    MutualExclusion
    InsideChunks
    NodesFit
    NoOverlap
    FreshChunkFits
PROPERTIES
    ImplementsContract
    LockIsReleased
