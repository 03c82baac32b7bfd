------------------------------ MODULE MCServer ------------------------------
(* The HTTP interface, the rate limiter before it, and what the server keeps *)
(* in memory beside its stores, for TLC.  They share nothing, so a behaviour *)
(* exercises one of them, and the others stay as they begin.                *)
EXTENDS MCHttpApi, RateLimit, ServiceManager, Cache, Metrics, TimeWindows,
        LogWriters, ConfigUpdate

VARIABLE exercised

ServerInit ==
    /\ ApiInit
    /\ RateInit
    /\ ManagerInit
    /\ CacheInit
    /\ MetricsInit
    /\ WindowsInit
    /\ LogInit
    /\ ConfigInit
    /\ exercised \in {"api", "rate", "manager", "cache", "metrics", "windows", "log", "config"}
    /\ exercised # "windows" => range = [from |-> 0, to |-> 0] /\ size = 1 /\ ~aligned
    /\ exercised # "config" => config = WordsOf(DefaultText, DefaultPort, DefaultText)

ServerNext ==
    \/ /\ exercised = "api" /\ ApiNext
       /\ UNCHANGED <<rateVars, managerVars, cacheVars, metricsVars, windowVars, logVars, configVars, exercised>>
    \/ /\ exercised = "rate" /\ RateNext
       /\ UNCHANGED <<apiVars, managerVars, cacheVars, metricsVars, windowVars, logVars, configVars, exercised>>
    \/ /\ exercised = "manager" /\ ManagerNext
       /\ UNCHANGED <<apiVars, rateVars, cacheVars, metricsVars, windowVars, logVars, configVars, exercised>>
    \/ /\ exercised = "cache" /\ CacheNext
       /\ UNCHANGED <<apiVars, rateVars, managerVars, metricsVars, windowVars, logVars, configVars, exercised>>
    \/ /\ exercised = "metrics" /\ MetricsNext
       /\ UNCHANGED <<apiVars, rateVars, managerVars, cacheVars, windowVars, logVars, configVars, exercised>>
    \/ /\ exercised = "windows" /\ WindowsNext
       /\ UNCHANGED <<apiVars, rateVars, managerVars, cacheVars, metricsVars, logVars, configVars, exercised>>
    \/ /\ exercised = "log" /\ LogNext
       /\ UNCHANGED <<apiVars, rateVars, managerVars, cacheVars, metricsVars, windowVars, configVars, exercised>>
    \/ /\ exercised = "config" /\ ConfigNext
       /\ UNCHANGED <<apiVars, rateVars, managerVars, cacheVars, metricsVars, windowVars, logVars, exercised>>

\* The behaviours of the others may end.
Ended ==
    /\ exercised # "api"
    /\ UNCHANGED <<apiVars, rateVars, managerVars, cacheVars, metricsVars, windowVars, logVars,
                   configVars, exercised>>

ServerSpec ==
    ServerInit
    /\ [][ServerNext \/ Ended]_<<apiVars, rateVars, managerVars, cacheVars, metricsVars, windowVars,
                                   logVars, configVars, exercised>>

\* The handlers' stores, and what the server keeps beside them, have their types.
ServerTypeOK ==
    ApiTypeOK /\ RateTypeOK /\ ManagerTypeOK /\ CacheTypeOK /\ MetricsTypeOK /\ WindowsTypeOK
    /\ LogTypeOK /\ ConfigTypeOK
=============================================================================
