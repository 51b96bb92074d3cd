SPECIFICATION FairSpec

CONSTANTS
    Workspaces <- ThreeWorkspaces
    DrainTicks = 2
    CycleTicks = 6
    MaxEvents = 3

INVARIANTS
    SingleFlight

PROPERTIES
    BeginsOnlyAllowed
    PassesKeepService
    Served
