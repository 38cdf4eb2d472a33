SPECIFICATION MCSpec
CONSTANTS
    MaxDelay = 3
    OverflowCount = 3
    MaxSince = 14
    Data = {d1, d2, d3}
    MaxLength = 4
    List = {l1, l2}
    ListItem = {i1, i2, i3}
    MaxValue = 2
    NULL = NULL
    c1 = c1
    c2 = c2
SYMMETRY Symmetry
INVARIANTS
    NeverEarly
    PointersAgree
    NoByteIsLost
PROPERTIES
    ExactWithinAWrap
    ImplementsQueueSpec
    ImplementsListSpec
    ImplementsAllocator
    RefusedOnlyForLackOfSpace
CHECK_DEADLOCK FALSE
