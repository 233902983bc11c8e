SPECIFICATION FairSpec
CONSTANTS
    PAGE_ZERO_SIZE = 64
    PAGE_SIZE = 16
    ARRAY_CAPACITY = 4
    MAX_DEPENDENCIES = 3
    StackLimit = 4
    Failures = {"mmap", "vm_alloc", "vm_protect"}
    Worlds <- AllWorlds
INVARIANTS
    TypeOK
    CallChain
    OrdinalsDenoteLibraries
    RunsOnlyLinkedCode
    EntersSafely
    PointersDenote
    EntersOnlyLinkable
    OverflowsOnlyOnCycles
PROPERTIES
    SealedImagesStay
    Termination
    LinkableIsEntered
