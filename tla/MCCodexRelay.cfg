CONSTANTS
    a = a
    Conns = {a}
    ServerScript <- TwoResponses
    ClientScript <- TwoRequests
    MaxFaults = 1
SPECIFICATION FairSpec
INVARIANTS
    TypeOK
    DoneOrError
    SeenIsPublished
    WholeTextBeforeDone
    EndIsAccounted
PROPERTY
    HandlerReturns
CHECK_DEADLOCK FALSE
