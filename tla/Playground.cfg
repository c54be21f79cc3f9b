SPECIFICATION Spec
CONSTANTS
    user = user
    none = none
    Identifiers <- Names
    TypedLimits = {0, 18, 30}
    TypedWindows = {3, 9}
    MaxLimit = 2
    MinWindow = 1
    MaxWindow = 2
    LogSize = 3
    BurstSize = 2
    MaxCells = 1
    First <- FirstConfig
    None = none
    TicksPerSec = 2
    Unit = 12
    MaxTime = 5
    MaxChecks = 2
    MaxEdits = 2
INVARIANTS
    TypeOK
    AgreesWithScripts
    ShowsItsConfiguration
    EmptyMeansRefused
    LogWithinLimit
    OneBurst
