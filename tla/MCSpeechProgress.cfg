CONSTANTS
    p1 = p1
    p2 = p2
    Procs <- TwoProcs
    NoOwner = NoOwner
    JobIds <- OneJob
    ChunksOf <- ChunksOne
    LeaseTTL = 1
    Res = 2
    InsertLag = 0
    Ending <- OneProcess
    MaxTime = 1
    MaxRetries = 0
    MaxFaults = 1
SPECIFICATION FairSpec
PROPERTIES
    QueuedIsClaimed
    ShutdownTerminates
CHECK_DEADLOCK FALSE
