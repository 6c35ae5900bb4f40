SPECIFICATION Spec
SYMMETRY Symmetry
CONSTANTS
    Dispatchers = {data, stats}
    Workers = {w1, w2}
    MaxCapacity = 2
    MaxJobs = 3
    MaxRounds = 2
    MallocFails = FALSE
INVARIANTS
    TypeOK
    NodesBounded
    NoLostWakeup
PROPERTIES
    ImplementsForkJoin
CHECK_DEADLOCK FALSE
