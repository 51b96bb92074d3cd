SPECIFICATION FairSpec

CONSTANTS
    Paths = {p1, p2, p3}
    MinMissing = 2
    Percent = 20
    MaxVersion = 3
    MaxEvents = 2

INVARIANTS
    NoVersionLost
    EmptyNeverSpreads
    MassLossHalts

PROPERTIES
    OnlyCopyKept
    Settles
