SPECIFICATION Spec
CONSTANTS
    a = a
    b = b
    short = short
    long = long
    Callers = {a, b}
    Policies = {short}
    Limit <- OneLimit
    WindowSeconds <- OneSecond
    TopLimit = 1
    TicksPerSec = 2
    MaxSkew = 0
    MaxRetries = 0
    MaxTime = 4
    MaxCalls = 3
    MaxRestarts = 0
SYMMETRY CallerSymmetry
INVARIANTS
    LimitPerWindow
