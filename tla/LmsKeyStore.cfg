SPECIFICATION Spec
CONSTANTS
    Procs = {p1, p2}
    Files = {"k1"}
    Names = {"key", "symlink", "hardlink"}
    FileOf <- MCFileOf
    CanonicalOf <- MCCanonicalOf
    MaxCount = 3
    AutoReserves = {0, 1}
    None = None
INVARIANTS
    IndexUsedOnce
    StoredStateCoversSignatures
    NoIndexWasted
PROPERTIES
    StoredStateOnlyAdvances
    ImplementsOneTimeIndices
