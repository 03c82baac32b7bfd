---------------------------- MODULE LogStatistics ----------------------------
(***************************************************************************)
(* The statistics of a set of log entries: the aggregations of              *)
(* memory_log_store.go, what internal/service/stats_service.go makes of     *)
(* them, and the endpoints of internal/handler/stats_handler.go.  An entry  *)
(* is a record [ts, zone, level, source, service]; zone is the offset of    *)
(* the location its timestamp is in.  Go's maps are functions with 0 for a  *)
(* key that is not there.                                                  *)
(***************************************************************************)
EXTENDS Integers, FiniteSets, Sequences, Functions

CONSTANTS
    Levels,       \* levels of entries
    ErrorLevels,  \* ERROR and FATAL
    Sources,      \* sources of entries
    Services,     \* services of entries
    NoService,    \* the empty service
    HourLength,   \* the length of an hour
    DayLength     \* the length of a day

ASSUME StatisticsAssumption ==
    /\ ErrorLevels \subseteq Levels
    /\ NoService \notin Services
    /\ IsFiniteSet(Levels) /\ IsFiniteSet(Sources) /\ IsFiniteSet(Services)
    /\ HourLength \in Nat \ {0} /\ DayLength \in Nat \ {0}

-----------------------------------------------------------------------------
(* The log store.                                                          *)

\* Statistics and HourlyBreakdown skip what is before `from' or after `to'.
InRange(S, from, to) == {e \in S : e.ts >= from /\ e.ts <= to}

\* LogFilter.Matches with a StartTime and an EndTime, and Count with it.
CountInRange(S, from, to) == Cardinality({e \in S : ~(e.ts < from) /\ ~(e.ts > to)})

ListSources(S) == {e.source : e \in S}

ListServices(S) == {e.service : e \in S} \ {NoService}

Statistics(S, from, to) ==
    LET R == InRange(S, from, to)
        byLevel == [l \in Levels |-> Cardinality({e \in R : e.level = l})] IN
    [total |-> Cardinality(R),
     byLevel |-> byLevel,
     bySource |-> [s \in Sources |-> Cardinality({e \in R : e.source = s})],
     byService |-> [s \in Services |-> Cardinality({e \in R : e.service = s})],
     errors |-> SumFunctionOnSet(byLevel, ErrorLevels)]

\* Truncate cuts the absolute time, Format writes it as the clock of the
\* entry's location shows it.
HourLabel(e) == (e.ts - (e.ts % HourLength)) + e.zone

\* Mutant: the ends of the range are exclusive.
HourlyBreakdownOpen(S, from, to) ==
    LET R == {e \in S : e.ts >= from /\ e.ts < to} IN
    [k \in {<<HourLabel(e), e.level>> : e \in R} |->
        Cardinality({e \in R : <<HourLabel(e), e.level>> = k})]

\* How many entries there are of each hour and level; only keys with entries
\* are in the result.
HourlyBreakdown(S, from, to) ==
    LET R == InRange(S, from, to) IN
    [k \in {<<HourLabel(e), e.level>> : e \in R} |->
        Cardinality({e \in R : <<HourLabel(e), e.level>> = k})]

-----------------------------------------------------------------------------
(* The statistics service.                                                 *)

\* One point for each hour; the label, whatever its location was, is parsed as
\* UTC.
ErrorRateTrend(breakdown) ==
    LET Of(hour) == {k \in DOMAIN breakdown : k[1] = hour} IN
    {[time |-> hour,
      total |-> SumFunctionOnSet(breakdown, Of(hour)),
      errors |-> SumFunctionOnSet(breakdown, {k \in Of(hour) : k[2] \in ErrorLevels})] :
        hour \in {k[1] : k \in DOMAIN breakdown}}

-----------------------------------------------------------------------------
(* The endpoints under /api/stats.                                         *)

\* A parameter of the query string that is missing or cannot be parsed.
CONSTANT NoTime

\* Every handler starts from the last 24 hours, and overrides what it can parse.
RequestedFrom(start, now) == IF start = NoTime THEN now - DayLength ELSE start
RequestedTo(end, now) == IF end = NoTime THEN now ELSE end

StatsRoutes == {"hourly", "error-rate", "sources", "levels"}

\* The path without /api/stats and a trailing slash: its last segment decides,
\* whatever comes before it.
StatsRoute(path) ==
    IF path = <<>> THEN "stats"
    ELSE IF path[Len(path)] \in StatsRoutes THEN path[Len(path)]
    ELSE "not found"

\* The five handlers; source and service are parsed and not used.
StatsAnswer(path, S, start, end, now) ==
    LET from == RequestedFrom(start, now)
        to == RequestedTo(end, now)
        route == StatsRoute(path) IN
    CASE route = "stats" -> Statistics(S, from, to)
      [] route = "hourly" -> HourlyBreakdown(S, from, to)
      [] route = "error-rate" -> ErrorRateTrend(HourlyBreakdown(S, from, to))
      [] route = "sources" -> Statistics(S, from, to).bySource
      [] route = "levels" -> Statistics(S, from, to).byLevel
      [] route = "not found" -> 404
=============================================================================
