SPECIFICATION FairSpec

CONSTANTS
    Requests <- Power
    DrainTicks = 3
    TrayWhileAsking = TRUE
    MaxTasks = 2
    MaxDialogs = 1
    MaxCalls = 2

INVARIANTS
    PoweredOffIsOff

PROPERTIES
    TransitionsEnd
    FreshView
