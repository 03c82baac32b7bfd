CONSTANTS
    Rules = {r1}
    Scanners = {s1}
    Clients = {c1}
    Sources = {a}
    AnySource = AnySource
    LogIds = {l1}
    Windows = {1}
    Thresholds = {1}
    Cooldowns = {0, 1}
    EditedWindows = {0}
    EditedThresholds = {0}
    NoRule = NoRule
    Never = Never
    MaxTime = 1
    MaxScans = 2
SPECIFICATION FairCoverageSpec
INVARIANTS
    TypeOK
    CooldownBetweenScans
    LastFiredIsLatest
PROPERTIES
    EveryScanEnds
