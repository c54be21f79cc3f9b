SPECIFICATION FairSpec
CONSTANTS
    g = g
    h = h
    Handlers = {g, h}
    MaxLaunches = 2
    MaxRequests = 3
    MaxOutages = 2
INVARIANTS
    TypeOK
    HandlersKeepTheirPools
PROPERTIES
    StopsWhenAsked
