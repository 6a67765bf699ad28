CONSTANTS
    MaxBlocks = 2
    MaxPieces = 2
    MaxRounds = 2
    Encodings <- Headers
SPECIFICATION Spec
INVARIANTS
    SameEitherWay
    VerdictIsDue
    ResultOfEveryCall
CHECK_DEADLOCK FALSE
