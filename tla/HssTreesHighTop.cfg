CONSTANTS
    Keys <- HighTop
    Starts <- HighTopStarts

SPECIFICATION Spec

INVARIANTS
    SignedAsLoaded

CHECK_DEADLOCK TRUE
