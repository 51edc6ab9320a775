CONSTANTS
    Inputs <- MCInputs
    Files <- MCFiles
    Sources <- MCSources
    SecureChunk = 32768
    HashLength = 48
    Overhead = 64
    FirstRandom = 100
    WordModulus = 1048576
    BootHeaderLength = 3952
    TableLength = 128
    CertificateLength = 3680
    SignLength = 512
    ShaPad = 104
    SmapLength = 16
    DefaultAlignment = 16
    Alignments = {4096}
    MaskModulus = 262144
    BitAnd <- MCBitAnd

SPECIFICATION ImageSpec

INVARIANTS
    ImageTypeOK
    CheckedPairsUsedOnce
    OnlyCheckedPairs
    ReceiverRecovers
    NeverOverrun
    ChunksHoldWholeBlocks
    SectionsApart
    NeverBackwards
    FoundWhereLinked

CHECK_DEADLOCK TRUE
