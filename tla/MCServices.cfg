SPECIFICATION Spec
CONSTANTS
    t1 = t1
    t2 = t2
    NULL = NULL
    Off = Off
    Writer = Writer
    Reader = Reader
    Torn = Torn
INVARIANTS
    TimersAreSound
    NoLostWakeup
PROPERTIES
    ImplementsTimerSpec
    DueTimerExpires
    ImplementsStreamSpec
    DataIsReceived
