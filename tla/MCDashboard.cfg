\* Three rows of four kinds, a snapshot over up to three of them, one job of two
\* attempts; pages of one and of two rows, in both orders, under each filter.
SPECIFICATION Spec
CONSTANTS
    Arrivals <- MCArrivals
    MaxRows = 3
    MaxCounted = 3
    MaxJobs = 1
    MaxAttempts = 2
    Asked = {0, 1}
    Filters = {"all", "type", "status"}
    ViewKey = "k"
    DefaultPerPage = 3
    AdminMaxPerPage = 5
    StoreMaxPerPage = 2
    Word = 16
INVARIANTS
    TypeOK
    NothingSkipped
    ListedBySecond
    LaterReadingsCover
\* The walk ends at its empty page, the snapshot with its last statement.
CHECK_DEADLOCK FALSE
