CONSTANTS
    Ids = {e1, e2, e3, e4, e5}
    MaxTime = 1
    NoStamp = NoStamp
    MaxSize = 4
    EvictDivisor = 2
    MaxBatch = 2
    Readers = {q1}
    Limits = {1}
    Offsets = {0, 1}
    WalkLimit = 2
    AlertIds = {a1, a2}
    MaxTriggeredAt = 1
    NotTriggered = NotTriggered
    MaxAlertRecords = 1
    Callers = {c1, c2}
    Users = {u1}
    NoUser = NoUser
    NoAlert = NoAlert
    Savers = {s1, s2}
    Loaders = {l1}
    MaxSaves = 3
    Torn = Torn
    StatEntries <- StatExamples
    PrimarySize = 3
    BackupSize = 2
    Levels = {"INFO", "ERROR", "FATAL"}
    ErrorLevels = {"ERROR", "FATAL"}
    Sources = {"api", "web"}
    Services = {"auth"}
    NoService = ""
    HourLength = 2
    DayLength = 2
    NoTime = NoTime
SPECIFICATION StoresSpec
SYMMETRY Symmetry
INVARIANTS
    CapacityBound
    StatusHasEvidence
    FailedCallLeavesNoTrace
    LastSaveIsRestored
    StatisticsAgree
    MergeAgrees
    PagesPartition
    StoresTypeOK
PROPERTIES
    RefinesBoundedStore
    AlertsRefineBoundedStore
    LoadFailsOnlyOnDamage
