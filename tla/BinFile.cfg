SPECIFICATION BinSpec
CONSTANTS
    NumSections = 4
    Lengths = {2, 6}
    Offsets = {0, 28}
    Reserves = {0}
    Alignments = {0}
    DefaultAlignment = 4
    BaseAddress = 0
    WordModulus = 64
    AddressModulus = 64
    BitAnd <- MCBitAnd
    OutputModes = {"normal", "split", "slaveboot"}
    QspiModes = {"none", "parallel", "stacked"}
    QspiSize = 16
    FillOptions = {FALSE}
INVARIANTS
    BytesAtHome
    DeviceSizes
    NeverBackwards
    SplitOffsetsHold
CHECK_DEADLOCK FALSE
