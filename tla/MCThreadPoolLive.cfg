SPECIFICATION Spec
CONSTANTS
    Dispatchers = {data, stats}
    Workers = {w1, w2}
    MaxCapacity = 1
    MaxJobs = 2
    MaxRounds = 1
    MallocFails = TRUE
PROPERTIES
    RoundsEnd
    ShutdownCompletes
CHECK_DEADLOCK FALSE
