SPECIFICATION FairSpec
CONSTANTS
    NumSlaves = 3
    Partitions <- MCPartitions
    ChunkSize = 2
    MaxSyncs = 2
    SkipCheck = TRUE
INVARIANTS
    BarrierKept
    MasterInStep
    EverythingSent
PROPERTIES
    LoopTerminates
CHECK_DEADLOCK FALSE
