SPECIFICATION Spec
CONSTANTS
    idle = idle
    a = a
    b = b
    Task <- TwoTasks
    Idle = idle
    MaxPriority = 2
    MaxDelay = 3
    OverflowCount = 1
    WaitLists <- NoWaitLists
    Applications <- AllApplications
    MaxNotified = 1
    BitOr <- BitwiseOr
    OtherOps = {}
    MaxNesting = 2
INVARIANTS
    ListsAreSound
    NobodyOversleeps
    HighestPriorityRuns
    NoNotificationIsLost
PROPERTIES
    DelaysAreExact
    SuspendedUntilResumed
