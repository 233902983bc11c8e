SPECIFICATION FairSpec
CONSTANTS
    StartWorlds <- AllStarts
    StackLimit = 3
INVARIANTS
    TypeOK
    DecodesExactly
    FormatsOnlyRebased
    LoadsOnlyFixedUp
    LoadsArm64
    DiesOnlyWithoutKernel
PROPERTIES
    Termination
