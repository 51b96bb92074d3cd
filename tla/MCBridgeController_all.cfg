SPECIFICATION Spec

CONSTANTS
    Requests <- All
    DrainTicks = 2
    TrayWhileAsking = FALSE
    MaxTasks = 1
    MaxDialogs = 1
    MaxCalls = 2

INVARIANTS
    PhaseIsServed
    DrainedWhileOff

PROPERTIES
    CyclesKeepService
