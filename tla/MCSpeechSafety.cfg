CONSTANTS
    p1 = p1
    p2 = p2
    Procs <- TwoProcs
    NoOwner = NoOwner
    JobIds <- OneJob
    ChunksOf <- ChunksOne
    LeaseTTL = 1
    Res = 2
    InsertLag = 0
    Ending <- OneProcess
    MaxTime = 2
    MaxRetries = 1
    MaxFaults = 1
SPECIFICATION Spec
INVARIANTS
    TypeOK
    LeaseProtects
    CrossProcessExclusion
    UndercutOnlyInShutdown
    AttemptsBounded
    SharedOnlyIfRequeued
    StatusIsTrue
PROPERTY
    ImplementsLedger
CHECK_DEADLOCK FALSE
