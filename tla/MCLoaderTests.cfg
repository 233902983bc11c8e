SPECIFICATION Spec
CONSTANTS
    PAGE_ZERO_SIZE = 64
    PAGE_SIZE = 16
    ARRAY_CAPACITY = 4
    MAX_DEPENDENCIES = 3
    StackLimit = 4
    Failures = {}
    Worlds <- LinkTests
INVARIANT LoadsProgram
