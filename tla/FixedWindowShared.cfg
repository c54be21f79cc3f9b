SPECIFICATION Spec
CONSTANTS
    a = a
    b = b
    short = short
    long = long
    Callers = {a, b}
    Policies = {short, long}
    Limit <- BothLimits
    WindowSeconds <- MixedWindows
    TopLimit = 2
    TicksPerSec = 2
    MaxSkew = 1
    MaxRetries = 1
    MaxTime = 4
    MaxCalls = 2
    MaxRestarts = 1
SYMMETRY CallerSymmetry
INVARIANTS
    TypeOK
    WindowBound
    CounterIsEarned
    CounterEndsWithItsWindow
    ChargesMatchAnswers
