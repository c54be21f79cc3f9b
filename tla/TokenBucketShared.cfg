SPECIFICATION Spec
CONSTANTS
    a = a
    b = b
    small = small
    large = large
    Callers = {a, b}
    Policies = {small, large}
    Limit <- TwoLimits
    WindowSeconds <- TwoWindows
    Rate <- TwoRates
    Unit = 6
    TicksPerSec = 2
    StoreErr = 1
    TopCapacity = 12
    TopRate = 3
    MaxSkew = 0
    MaxRetries = 1
    MaxTime = 1
    MaxCalls = 2
    MaxRestarts = 1
SYMMETRY CallerSymmetry
INVARIANTS
    ChargesMatchAnswers
PROPERTIES
    IsLimiter
