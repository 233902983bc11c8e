SPECIFICATION Spec
CONSTANTS
    x1 = x1
    x2 = x2
    x3 = x3
    x4 = x4
    x5 = x5
    b1 = b1
    b2 = b2
    b3 = b3
    Garbage = Garbage
    Capacity = 3
    Items <- MCItems
    Bytes <- MCBytes
    Strings <- MCStrings
INVARIANT OwnedOnce
PROPERTY ImplementsSequence
