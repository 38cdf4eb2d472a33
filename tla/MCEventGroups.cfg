SPECIFICATION GroupsSpec
CONSTANTS
    idle = idle
    a = a
    b = b
    c = c
    Task <- ThreeTasks
    Idle = idle
    MaxPriority = 3
    MaxDelay = 2
    OverflowCount = 1
    WaitLists <- GroupLists
    Applications <- AllApplications
    MaxNotified = 1
    BitOr <- BitwiseOr
    OtherOps <- GroupOps
    MaxNesting = 0
    EventGroup = {"events"}
    EventBit = {1, 2, 3}
    Party = {a, b, c}
    NULL = NULL
INVARIANTS
    EventsReachWaiters
PROPERTIES
    NoEventIsLost
    IsRendezvous
