SPECIFICATION McsSpec
CONSTANTS
    NumSections = 4
    Lengths = {2, 6}
    Offsets = {0}
    Reserves = {0}
    Alignments = {0}
    DefaultAlignment = 4
    BaseAddress = 0
    WordModulus = 64
    AddressModulus = 64
    BitAnd <- MCBitAnd
    OutputModes = {"slaveboot"}
    QspiModes = {"none"}
    QspiSize = 16
    FillOptions = {TRUE}
    LineLength = 2
    PageSize = 8
INVARIANTS
    SplitFillsGapsOnly
CHECK_DEADLOCK FALSE
