CONSTANTS
    Script <- TurnsScript
    Res = 2
    MaxRepeats = 1
    MaxFaults = 1
    Tokens = {"a", "b"}
    MaxLen = 3
SPECIFICATION FairSpec
INVARIANTS
    TypeOK
    JobIsOfItsRequest
    LastWordUnlessBehind
    EveryTurnIsQueued
    OverlapIsBetween
PROPERTIES
    DroppedOnlyByLag
    StateMovesOn
    DoneIsSettled
CHECK_DEADLOCK FALSE
