SPECIFICATION FairSpec
CONSTANTS
    a = a
    b = b
    x = x
    none = none
    Tabs = {a, b}
    Identifiers = {x}
    None = none
    Existing = 1
    LogSize = 2
    Visits <- Pairs
    MaxRequests = 4
INVARIANTS
    TypeOK
    PageShowsTable
    MissingMeansForeign
    OneConfigEach
    RevokedIsRefused
    LogInOrder
PROPERTIES
    SpinnersStop
