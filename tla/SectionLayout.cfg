SPECIFICATION Spec
CONSTANTS
    NumSections = 3
    Lengths = {3, 8}
    Offsets = {0, 20, 52}
    Reserves = {0, 4, 16}
    Alignments = {0, 8}
    DefaultAlignment = 4
    BaseAddress = 0
    WordModulus = 32
    AddressModulus = 64
    BitAnd <- MCBitAnd
INVARIANTS
    SectionsDisjoint
    ReserveKept
    ErrorIsJustified
    TotalCoversSections
CHECK_DEADLOCK FALSE
