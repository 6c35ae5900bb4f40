SPECIFICATION Spec
CONSTANTS
    HistogramSize = 3
    HistogramSegment = 1
    Tables <- Report1Tables
    Percentiles <- MCPercentiles
    TagNames <- MCTagNames
    Payloads <- MCPayloads
    RequestPoolSize = 3
    MaxBatch = 2
    MaxCounter = 4
    MaxTime = 6
INVARIANT
    ContributionsRemoved
