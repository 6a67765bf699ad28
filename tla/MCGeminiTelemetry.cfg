CONSTANTS
    logs = logs
    traces = traces
    bad = bad
    stray = stray
    Batches = {logs, traces, bad, stray}
    Post <- Posts
    MaxSends = 2
    MaxTime = 2
    MaxFaults = 1
SPECIFICATION Spec
INVARIANTS
    BatchIsPublished
    RepeatedIsSame
PROPERTY ImplementsServer
CHECK_DEADLOCK FALSE
