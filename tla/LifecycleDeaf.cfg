SPECIFICATION FairSpec
CONSTANTS
    g = g
    h = h
    Handlers = {g}
    MaxLaunches = 1
    MaxRequests = 1
    MaxOutages = 0
PROPERTIES
    AliveMeansServing
