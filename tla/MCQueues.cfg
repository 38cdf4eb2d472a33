SPECIFICATION QueuesSpec
CONSTANTS
    idle = idle
    a = a
    b = b
    c = c
    Task <- ThreeTasks
    Idle = idle
    MaxPriority = 3
    MaxDelay = 2
    OverflowCount = 1
    WaitLists <- QueueLists
    Applications <- SafeApplications
    MaxNotified = 1
    BitOr <- BitwiseOr
    OtherOps <- QueueOps
    MaxNesting = 0
    Queue = {"queue", "pair", "semaphore", "mutex", "recursive"}
    Kind <- EachKind
    Length <- EachLength
    InitialCount <- OnlyMutexes
    MaxRecursion = 2
    NULL = NULL
INVARIANTS
    NoLostWakeup
    QueuesAreSound
    MutexesAreSound
    HighestPriorityRuns
