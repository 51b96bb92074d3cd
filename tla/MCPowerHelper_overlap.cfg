CONSTANTS
    NShares = 1
    p1 = p1
    p2 = p2
    Procs <- TwoProcs
    NoProc = NoProc
    MaxAttempts = 1

SPECIFICATION Spec

SYMMETRY McSymmetry

INVARIANTS
    GracefulStop

PROPERTIES
    ServesCalls
