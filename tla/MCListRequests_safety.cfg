SPECIFICATION FairSpec

CONSTANTS
    folder = folder
    Folders <- OneFolder
    MaxRequests = 3
    LastPage = 1
    MaxEvents = 1

INVARIANTS
    ClaimsAreHeld
    PagesOnce

PROPERTIES
    Settles

CHECK_DEADLOCK FALSE
