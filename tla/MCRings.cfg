SPECIFICATION Spec
CONSTANTS
    RequestPoolSize = 4
    TimerPoolSize = 2
    GrowSize = 1
    TagCounts = {2}
    MaxTimers = 2
    MaxTimerPool = 7
    MaxCounter = 5
    MaxTime = 4
INVARIANTS
    TypeOK
    OwnTimers
    TimersAccounted
    TimertagsExact
    RingOrdered
    ScansExact
PROPERTIES
    ExpiryExact
    ImplementsRawStore
