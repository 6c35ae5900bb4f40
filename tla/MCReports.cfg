SPECIFICATION Spec
CONSTANTS
    HistogramSize = 3
    HistogramSegment = 1
    Tables <- MCTables
    Percentiles <- MCPercentiles
    TagNames <- MCTagNames
    Payloads <- MCPayloads
    RequestPoolSize = 3
    MaxBatch = 2
    MaxCounter = 4
    MaxTime = 5
INVARIANTS
    TypeOK
    RowsExact
    PercentilesExact
    TotalsExact
    ScanComplete
