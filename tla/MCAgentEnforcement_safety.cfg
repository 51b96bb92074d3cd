SPECIFICATION Spec

CONSTANTS
    Parent <- FolderAndFile
    Slow = TRUE
    MaxEvents = 2

INVARIANTS
    LicenceIsHonest

PROPERTIES
    FailsClosed
    StaysHidden
    SavedOnlyForward
