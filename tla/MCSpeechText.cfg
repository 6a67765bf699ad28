CONSTANTS
    MaxLen = 6
    Limits = {1, 2, 3, 4, 5}
SPECIFICATION TextSpec
INVARIANTS
    ChunksAreText
    SpeechFits
CHECK_DEADLOCK FALSE
