SPECIFICATION Spec
CONSTANTS
    a = a
    b = b
    small = small
    large = large
    Callers = {a, b}
    Policies = {small}
    Limit <- SlowLimit
    WindowSeconds <- SlowWindow
    Rate <- SlowRate
    Unit = 4
    TicksPerSec = 2
    StoreErr = 0
    TopCapacity = 4
    TopRate = 1
    MaxSkew = 0
    MaxRetries = 0
    MaxTime = 7
    MaxCalls = 3
    MaxRestarts = 0
SYMMETRY CallerSymmetry
INVARIANTS
    NoOverAdmission
