CONSTANTS
    Rules = {r1}
    Scanners = {s1}
    Clients = {c1}
    Sources = {a}
    AnySource = AnySource
    LogIds = {l1}
    Windows = {1}
    Thresholds = {1}
    Cooldowns = {1}
    EditedWindows = {}
    EditedThresholds = {}
    NoRule = NoRule
    Never = Never
    MaxTime = 1
    MaxScans = 1
SPECIFICATION CoverageSpec
INVARIANTS
    AlertSourceIsCounted
