CONSTANTS
    MaxItems = 2
    MaxPieces = 2
    MaxRounds = 2
    Finals = {"output", "empty", "none"}
SPECIFICATION StreamSpec
INVARIANTS
    
    CallsMatchResults
CHECK_DEADLOCK FALSE
