SPECIFICATION Spec
CONSTANTS
    a = a
    b = b
    i = i
    j = j
    k = k
    none = none
    token_bucket = token_bucket
    Callers = {a}
    Instances = {i}
    Keys = {k}
    NoKey = none
    Policies = {token_bucket}
    Allowance <- One
    TicksPerSec = 1
    MaxSkew = 0
    MaxRetries = 0
    MaxTime = 0
    MaxCalls = 2
    MaxRequests = 2
    MaxOutages = 1
    MaxCrashes = 0
INVARIANTS
    CheckNeedsNoPostgres
