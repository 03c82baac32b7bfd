CONSTANTS
    MaxStarts = 1
    Requests = {q1, q2}
SPECIFICATION FairShutdownSpec
INVARIANTS
    ShutdownTypeOK
    StoresOutliveRequests
PROPERTIES
    SignalEndsProcess
CHECK_DEADLOCK FALSE
