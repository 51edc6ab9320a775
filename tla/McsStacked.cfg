SPECIFICATION McsSpec
CONSTANTS
    NumSections = 3
    Lengths = {2, 10}
    Offsets = {0, 20}
    Reserves = {0}
    Alignments = {0}
    DefaultAlignment = 4
    BaseAddress = 0
    WordModulus = 64
    AddressModulus = 64
    BitAnd <- MCBitAnd
    OutputModes = {"normal"}
    QspiModes = {"stacked"}
    QspiSize = 16
    FillOptions = {FALSE}
    LineLength = 2
    PageSize = 8
INVARIANTS
    StackedReadBack
CHECK_DEADLOCK FALSE
