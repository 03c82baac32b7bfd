CONSTANTS
    MaxStarts = 1
    Requests = {q1, q2}
SPECIFICATION ShutdownSpec
INVARIANTS
    StoresOutliveScans
CHECK_DEADLOCK FALSE
