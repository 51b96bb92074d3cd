SPECIFICATION FairSpec

CONSTANTS
    Parent <- OneFolder
    Slow = FALSE
    MaxEvents = 2

PROPERTY Converges
