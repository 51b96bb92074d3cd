SPECIFICATION FairSpec
CONSTANTS
    NShares = 2
    p1 = p1
    p2 = p2
    Procs <- OneProc
    NoProc = NoProc
    MaxAttempts = 2
INVARIANTS
    Durable
    SafeWhenInterrupted
PROPERTIES
    OffEndsWhole
    OnEndsSafe
    ImplementsSwitch
    Reconciles
