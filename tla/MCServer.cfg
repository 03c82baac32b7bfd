CONSTANTS
    l1 = l1
    l2 = l2
    r1 = r1
    r2 = r2
    a1 = a1
    a2 = a2
    LogIds = {l1, l2, l3}
    RuleIds = {r1, r2}
    AlertIds = {a1, a2, a3}
    LogCapacity = 2
    AlertCapacity = 2
    EvictDivisor = 10
    Methods = {"GET", "POST", "PUT", "DELETE", "PATCH", "OPTIONS"}
    Paths <- AllPaths
    MaxItems = 3
    Visits = {1, 2, 3}
    MaxRequests = 1
    RateWindow = 1
    MaxNow = 2
    Nobody = Nobody
    Names = {n1, n2}
    Instances = {i1, i2, i3}
    Stoppable = {i1, i2}
    Stoppers = {t1, t2}
    NoInstance = NoInstance
    Keys = {k1, k2, k3}
    Getters = {g1}
    CacheSize = 2
    DefaultSize = 1000
    TTLs = {0, 1}
    MaxClock = 2
    NoItem = NoItem
    Forever = Forever
    Recorders = {w1, w2}
    CounterNames = {n1, n2}
    MaxCount = 3
    NoCounter = NoCounter
    Moments = {0, 1, 2, 3, 4, 5}
    Sizes = {1, 2, 3}
    LogCallers = {c1, c2}
    Outputs = 3
    Files = {2}
    Buffers = {3}
    BufferSize = 2
    DefaultBuffer = 10000
    MaxLogCalls = 3
    Putters = {p1, p2}
    Texts = {x1, x2}
    Ports = {0, 80, 65536}
    DefaultText = x1
    DefaultPort = 80
    MaxPort = 65535
    Keep = Keep
SPECIFICATION ServerSpec
INVARIANTS
    RefusalIsJustified
    NothingForgotten
    CountsAgree
    WindowsPartition
    OutputsFollowCalls
    UpdatesAreAnswered
    ServerTypeOK
PROPERTIES
    FailureHasNoEffect
    OnlyTheNamedChanges
    SuccessIsDone
    OnlyStaleGetsLose
