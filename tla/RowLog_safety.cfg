\* A node comes at most once in a batch, as the requested queue size asks.
SPECIFICATION Spec
CONSTANTS
    n1 = n1
    n2 = n2
    v1 = v1
    v2 = v2
    Nodes = {n1, n2}
    Values = {v1, v2}
    MaxStamp = 3
    MaxBatch = 2
    Queued = FALSE
INVARIANTS RowsAsOf EveryFieldCarried
PROPERTIES NullUntilReadAgain
CHECK_DEADLOCK FALSE
CONSTANTS
    Numbers <- MCNumbers
    Scales <- MCScales
    Low <- MCLow
    High = 7
