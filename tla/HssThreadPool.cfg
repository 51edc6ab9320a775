SPECIFICATION FairSpec
CONSTANTS
    NumThreads = 3
    NumItems = 5
    Main = Main
    None = None
INVARIANTS
    QueuedWorkIsServed
    AliveCounted
    JoinedOnce
    IssueOrderKept
PROPERTIES
    DoneReturns
    ImplementsWorkBatch
