SPECIFICATION Spec
CONSTANTS
    StartWorlds <- DivergentStarts
    StackLimit = 3
INVARIANT FixedUpAsDocumented
