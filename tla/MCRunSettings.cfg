CONSTANTS
    p1 = p1
    p2 = p2
    Procs = {p1, p2}
    Commands <- CaptureAndOther
    Homes = {"unset", "", " ", "A", "rel"}
    Backends = {"unset", "", " Google", "bogus"}
    Modes = {"unset", "", "heavy"}
    Leases <- SomeLeases
    Nanos = 4
    Word = 16
    Dirs = {"repo", "elsewhere"}
SPECIFICATION Spec
INVARIANTS
    OneHome
    
CHECK_DEADLOCK FALSE
