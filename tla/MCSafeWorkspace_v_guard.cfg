SPECIFICATION Spec

CONSTANTS
    Paths = {p1, p2, p3}
    MinMissing = 2
    Percent = 20
    MaxVersion = 2
    MaxEvents = 2

SYMMETRY Symmetric

INVARIANTS
    GuardCoversEveryRun
