SPECIFICATION Spec
CONSTANTS
    NumSections = 3
    Lengths = {3}
    Offsets = {0, 40}
    Reserves = {0}
    Alignments = {0, 8}
    DefaultAlignment = 4
    BaseAddress = 0
    WordModulus = 32
    AddressModulus = 64
    BitAnd <- MCBitAnd
INVARIANTS
    OffsetNeverOverlaps
CHECK_DEADLOCK FALSE
