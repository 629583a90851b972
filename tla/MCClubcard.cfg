SPECIFICATION FairSpec
CONSTANTS
    B = 2
    W = 2
    Hash <- MCHash
    Filters <- MCFilters
INVARIANTS
    IsDotProduct
    RowsAligned
    ExceptionsNotRevoked
    QueriesExact
PROPERTY
    BuildEnds
CHECK_DEADLOCK FALSE
