CONSTANTS
    Keys <- MCKeys
    Starts <- MCStarts

SPECIFICATION Spec

INVARIANTS
    ActiveComplete
    UpdatesSuffice

PROPERTIES
    ImplementsHssSignatures

CHECK_DEADLOCK TRUE
