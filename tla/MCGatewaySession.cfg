CONSTANTS
    x1 = x1
    x2 = x2
    Exchanges = {x1, x2}
    Upgrades = {x2}
    RequestEvts <- RequestKinds
    ResponseEvts <- ResponseKinds
    MaxFaults = 1
SPECIFICATION FairSpec
INVARIANT
    PublishedInOrder
PROPERTIES
    ImplementsServer
    CloseReturns
CHECK_DEADLOCK FALSE
