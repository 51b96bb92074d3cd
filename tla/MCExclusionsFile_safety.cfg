SPECIFICATION Spec

CONSTANTS
    folder = folder
    inner = inner
    j1 = j1
    j2 = j2
    Items <- TwoItems
    Inside <- InnerInFolder
    Jobs <- TwoJobs
    MaxRev = 3
    MaxEvents = 5

SYMMETRY Symmetric

INVARIANTS
    RefusedOnlyByRace
    KeptThroughRebuild

PROPERTIES
    GuestOnlyForward
