SPECIFICATION Spec
SYMMETRY Symmetry
CONSTANTS
    Dispatchers = {data, stats}
    Workers = {w1, w2}
    MaxCapacity = 2
    MaxJobs = 2
    MaxRounds = 1
    MallocFails = FALSE
INVARIANTS
    BarrierLifecycle
CHECK_DEADLOCK FALSE
