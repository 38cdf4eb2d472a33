SPECIFICATION QueuesFairSpec
CONSTANTS
    idle = idle
    a = a
    b = b
    c = c
    Task <- TwoTasks
    Idle = idle
    MaxPriority = 2
    MaxDelay = 2
    OverflowCount = 1
    WaitLists <- QueueLists
    Applications <- LiveApplications
    MaxNotified = 1
    BitOr <- BitwiseOr
    OtherOps <- QueueOps
    MaxNesting = 0
    Queue = {"queue"}
    Kind <- EachKind
    Length <- EachLength
    InitialCount <- OnlyMutexes
    MaxRecursion = 1
    NULL = NULL
PROPERTIES
    NothingIsLeftBehind
    TasksShareTheProcessor
    FirstReceiverIsServed
