CONSTANTS
    p1 = p1
    p2 = p2
    Procs <- OneProcess
    NoOwner = NoOwner
    JobIds <- ThreeJobs
    ChunksOf <- ChunksThree
    LeaseTTL = 2
    Res = 2
    InsertLag = 1
    Ending <- OneProcess
    MaxTime = 3
    MaxRetries = 0
    MaxFaults = 0
SPECIFICATION Spec
PROPERTY
    ClaimsBySecond
CHECK_DEADLOCK FALSE
