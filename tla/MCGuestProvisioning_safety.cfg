SPECIFICATION FairSpec

CONSTANTS
    MaxRuns = 2
    MaxEvents = 2

INVARIANTS
    VmIsRemembered

PROPERTIES
    RunsOnce
    OwnSecret
    KeepsRuns
    ConcludesOwnRun
    UndisturbedRunEnds

CHECK_DEADLOCK FALSE
