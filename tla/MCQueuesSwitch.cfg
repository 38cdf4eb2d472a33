SPECIFICATION QueuesSpec
CONSTANTS
    idle = idle
    a = a
    b = b
    c = c
    Task <- ThreeTasks
    Idle = idle
    MaxPriority = 2
    MaxDelay = 2
    OverflowCount = 1
    WaitLists <- QueueLists
    Applications <- SwitchApplications
    MaxNotified = 1
    BitOr <- BitwiseOr
    OtherOps <- QueueOps
    MaxNesting = 0
    Queue = {"mutex"}
    Kind <- EachKind
    Length <- EachLength
    InitialCount <- OnlyMutexes
    MaxRecursion = 1
    NULL = NULL
PROPERTIES
    LastMutexGiveSwitches
