CONSTANTS
    Producers = {p1, p2}
    e1 = e1
    e2 = e2
    e3 = e3
    e4 = e4
    Events = {e1, e2, e3}
    Priority <- MixedPriority
SPECIFICATION EventsFairSpec
INVARIANTS NoStrandedEvent DeliveredOnce
PROPERTIES StopIsFinal EventuallyDelivered
CHECK_DEADLOCK FALSE
