SPECIFICATION Spec
INVARIANTS
    TransfersAreExact
    FifoIsExact
    DatesReturn
PROPERTIES
    ImplementsDiskSpec
    TriesLongEnough
    EveryCallEnds
    ImplementsCalendar
CHECK_DEADLOCK FALSE
