CONSTANTS
    l1 = l1
    l2 = l2
    r1 = r1
    r2 = r2
    a1 = a1
    a2 = a2
    LogIds = {l1, l2, l3}
    RuleIds = {r1, r2}
    AlertIds = {a1, a2, a3}
    LogCapacity = 2
    AlertCapacity = 2
    EvictDivisor = 10
    Methods = {"GET", "POST", "PUT", "DELETE", "PATCH", "OPTIONS"}
    Paths <- AllPaths
    MaxItems = 3
SPECIFICATION ApiSpec
PROPERTIES
    AcknowledgeReachesAlert
