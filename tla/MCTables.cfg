SPECIFICATION TablesSpec
CONSTANTS
    Names = {a, b}
    Ids = {"pages", "tagged"}
    NoId = NoId
    Sessions = {s1, s2}
    Workers = {w}
    Kind <- MCKind
    Conditional = {"pages"}
    Contents <- MCContents
    NoName = NoName
INVARIANTS
    
    NoFreedReport
    NoCircularWait
    LocksReleased
    JobsFit
SYMMETRY MCSymmetry
