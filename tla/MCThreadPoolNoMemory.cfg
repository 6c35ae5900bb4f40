SPECIFICATION Spec
SYMMETRY Symmetry
CONSTANTS
    Dispatchers = {data, stats}
    Workers = {w1, w2}
    MaxCapacity = 2
    MaxJobs = 3
    MaxRounds = 1
    MallocFails = TRUE
PROPERTIES
    ImplementsForkJoin
CHECK_DEADLOCK FALSE
