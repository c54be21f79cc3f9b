SPECIFICATION FairSpec
CONSTANTS
    a = a
    b = b
    i = i
    j = j
    k = k
    none = none
    token_bucket = token_bucket
    Callers = {a, b}
    Instances = {i, j}
    Keys = {k}
    NoKey = none
    Policies = {token_bucket}
    Allowance <- One
    TicksPerSec = 1
    MaxSkew = 0
    MaxRetries = 1
    MaxTime = 0
    MaxCalls = 2
    MaxRequests = 2
    MaxOutages = 1
    MaxCrashes = 1
INVARIANTS
    TypeOK
    MetricsBalance
    AllowedIsPaid
    RevocationIsFinal
PROPERTIES
    EveryRequestIsAnswered
