SPECIFICATION McsFairSpec
CONSTANTS
    NumSections = 4
    Lengths = {2, 6}
    Offsets = {0, 20}
    Reserves = {0}
    Alignments = {0}
    DefaultAlignment = 4
    BaseAddress = 0
    WordModulus = 64
    AddressModulus = 64
    BitAnd <- MCBitAnd
    OutputModes = {"normal", "split", "slaveboot"}
    QspiModes = {"none", "parallel"}
    QspiSize = 16
    FillOptions = {FALSE, TRUE}
    LineLength = 2
    PageSize = 8
INVARIANTS
    ImageReadBack
    FillsGapsOnly
    NothingAstray
    EndsOnce
PROPERTIES
    Terminates
CHECK_DEADLOCK FALSE
