SPECIFICATION Spec
CONSTANTS
    Kinds <- OnlySDHC
    Last = 3
    BLOCK = 2
    AddrMod = 64
    CountMod = 8
    READ_ATTEMPTS = 3
    WRITE_ATTEMPTS = 3
    Patience = 3
    IdlePolls = 1
    TimeMod = 64
    StartTimes = {0}
    Counts = {1}
    Ops = {"write"}
    Faults = {"reject"}
    MaxFaults = 3
    MaxCalls = 4
INVARIANTS
    OkMeansTransferred
CHECK_DEADLOCK FALSE
