SPECIFICATION Spec
CONSTANTS
    RequestPoolSize = 3
    TimerPoolSize = 2
    GrowSize = 1
    TagCounts = {0, 1}
    MaxTimers = 2
    MaxTimerPool = 6
    MaxCounter = 5
    MaxTime = 5
INVARIANTS
    OwnTimers
