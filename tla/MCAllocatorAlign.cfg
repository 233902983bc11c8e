SPECIFICATION BoundedSpec
CONSTANTS
    t1 = t1
    t2 = t2
    Threads = {t1}
    Layouts <- OveralignedLayouts
    MIN_ALIGN = 2
    MIN_REUSE = 4
    CHUNK_SIZE = 20
    VM_PAGE = 8
    AddressLimit = 52
    MaxCalls = 2
INVARIANT ProperlyAligned
