SPECIFICATION Spec
CONSTANTS
    Names = {"a", "b"}
    Workers = {w1, w2}
    Handlers = {h1}
    Conditions <- SmallConditions
    Requests <- SmallRequests
    TagGC = TRUE
    MaxWords = 0
    TagNamesLimit = 0
    MaxTagId = 1
    MaxRaw = 1
    MaxLives = 2
SYMMETRY Interchangeable
INVARIANTS
    TypeOK
    NoDangling
    RefsExact
    TagsResolve
    PreflightHolds
PROPERTY TagIdsFresh
