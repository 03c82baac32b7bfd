CONSTANTS
    Ids = {e1, e2, e3}
    MaxTime = 1
    NoStamp = NoStamp
    MaxSize = 3
    EvictDivisor = 10
    MaxBatch = 2
    Readers = {q1}
    Limits = {1, 2}
    Offsets = {0, 1}
SPECIFICATION Spec
INVARIANTS
    TotalCoversPage
