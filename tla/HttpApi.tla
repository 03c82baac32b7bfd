------------------------------ MODULE HttpApi ------------------------------
(***************************************************************************)
(* The HTTP interface under /api: which handler of internal/handler a       *)
(* request reaches, what the handler checks and in which order, and what    *)
(* its service call does.  One request is handled at a time here; what       *)
(* happens between the steps of concurrent calls is the subject of          *)
(* RuleEngine, LogStore and AlertLifecycle.  The logger's outputs take every *)
(* line here: what happens when one does not is the subject of LogWriters.  *)
(*                                                                         *)
(* A path is the sequence of its segments after /api; a trailing slash is   *)
(* an empty last segment.  The input of a request (its JSON body, or its    *)
(* query parameters) is a sequence of what its handler tells apart; a body  *)
(* that holds one object has one item.                                      *)
(***************************************************************************)
EXTENDS SequencesExt, Eviction

CONSTANTS
    LogIds,         \* identities of log entries
    RuleIds,        \* identities of rules
    AlertIds,       \* identities of alerts
    LogCapacity,    \* maxSize of the log store
    AlertCapacity,  \* maxSize of the alert store
    Methods,        \* HTTP methods
    Paths,          \* the paths that are requested
    MaxItems        \* bound: the longest batch

ASSUME ApiAssumption == LogCapacity \in Nat /\ AlertCapacity \in Nat /\ MaxItems \in Nat

VARIABLES
    logs,      \* the entries in the log store
    rules,     \* the rules, by identity
    alerts,    \* the alerts' statuses, by identity
    request,   \* the request being handled
    code       \* the code of its Response, 0 as long as there is none

apiVars == <<logs, rules, alerts, request, code>>

-----------------------------------------------------------------------------
RuleStatuses == {"active", "paused", "archived"}

NoRule == [status |-> "none", edited |-> FALSE]

RuleState == [status : RuleStatuses, edited : BOOLEAN] \cup {NoRule}

AlertState == {"none", "open", "acknowledged", "resolved"}

StoredRules == {r \in RuleIds : rules[r] # NoRule}

StoredAlerts == {a \in AlertIds : alerts[a] # "none"}

NoRequest == [method |-> "none", path |-> <<>>, input |-> <<>>]

\* ReadJSON fails on this body: it is empty, or not JSON of the wanted type.
Malformed == <<"malformed">>

-----------------------------------------------------------------------------
(* Routes: a handler for each method, and 405 for the other methods.       *)

AnyMethod(handler) == [m \in Methods |-> handler]

ExactPaths ==
    {<<"logs">>, <<"logs", "batch">>, <<"logs", "sources">>, <<"logs", "services">>,
     <<"rules">>, <<"rules", "active">>, <<"alerts">>, <<"alerts", "recent">>,
     <<"scheduler", "status">>, <<"scheduler", "scan">>}

ExactRoutes ==
    [path \in ExactPaths |->
       CASE path = <<"logs">> -> [POST |-> "CreateLog", GET |-> "QueryLogs"]
         [] path = <<"logs", "batch">> -> [POST |-> "CreateLogs"]
         [] path = <<"rules">> -> [POST |-> "CreateRule", GET |-> "List"]
         [] path = <<"alerts">> -> [GET |-> "QueryAlerts"]
         [] path = <<"scheduler", "scan">> -> AnyMethod("ScanNow")
         [] OTHER -> AnyMethod("List")]

\* Below "/api/<first>/", by the first and the last segment.
SuffixRoutes ==
    [ends \in {<<"rules", "status">>, <<"alerts", "acknowledge">>, <<"alerts", "resolve">>} |->
       CASE ends = <<"rules", "status">> -> [PUT |-> "ToggleRuleStatus"]
         [] ends = <<"alerts", "acknowledge">> -> [POST |-> "AcknowledgeAlert"]
         [] OTHER -> [POST |-> "ResolveAlert"]]

SubtreeRoutes ==
    [logs |-> [GET |-> "GetLog", DELETE |-> "DeleteLog"],
     rules |-> [GET |-> "GetRule", PUT |-> "UpdateRule", DELETE |-> "DeleteRule"],
     alerts |-> [GET |-> "GetAlert", DELETE |-> "DeleteAlert"]]

\* The mux cleans a path: of its segments only the last may be empty.  No path
\* outside the routes reaches a handler.
ASSUME PathsAssumption ==
    \A path \in Paths :
       /\ path \in Seq({path[i] : i \in DOMAIN path})
       /\ \A i \in 1..(Len(path) - 1) : path[i] # ""
       /\ \/ path \in DOMAIN ExactRoutes
          \/ Len(path) > 1 /\ path[1] \in DOMAIN SubtreeRoutes

\* GenerateID writes hex digits (enums.go:11): no identity is a word of a route.
ASSUME IdentitiesAssumption ==
    /\ IsFiniteSet(LogIds) /\ IsFiniteSet(RuleIds) /\ IsFiniteSet(AlertIds)
    /\ (LogIds \cup RuleIds \cup AlertIds)
          \cap {"", "batch", "sources", "services", "active", "status", "recent",
                "acknowledge", "resolve"} = {}

\* The longest pattern wins.
Route(path) ==
    CASE path \in DOMAIN ExactRoutes -> ExactRoutes[path]
      [] path \notin DOMAIN ExactRoutes /\ <<Head(path), Last(path)>> \in DOMAIN SuffixRoutes ->
           SuffixRoutes[<<Head(path), Last(path)>>]
      [] OTHER -> SubtreeRoutes[Head(path)]

\* CORSMiddleware answers OPTIONS before any route is looked up.
Handler(q) ==
    CASE q.method = "OPTIONS" -> "Preflight"
      [] q.method # "OPTIONS" /\ q.method \in DOMAIN Route(q.path) -> Route(q.path)[q.method]
      [] OTHER -> "MethodNotAllowed"

\* Mutant: the last segment only.
LastSegment(path) == IF Last(path) = "" THEN <<>> ELSE <<Last(path)>>

\* extractIDFromPath: all that follows the prefix, without the slash at its end.
ExtractID(path) ==
    LET rest == Tail(path) IN IF rest # <<>> /\ Last(rest) = "" THEN Front(rest) ELSE rest

Id == ExtractID(request.path)

\* What a handler answers for an identity that has to be among `stored'.
Lookup(stored, missing) ==
    CASE Id = <<>> -> 400
      [] \E i \in stored : Id = <<i>> -> 0
      [] OTHER -> missing

-----------------------------------------------------------------------------
(* The requests that come in.                                              *)

Inputs(handler) ==
    CASE handler \in {"CreateLog", "CreateRule", "UpdateRule"} ->
           {Malformed, <<"invalid">>, <<"valid">>}
      [] handler = "CreateLogs" ->
           {Malformed} \cup UNION {[1..n -> {"valid", "invalid", "null"}] : n \in 0..MaxItems}
      [] handler = "ToggleRuleStatus" ->
           {Malformed, <<"">>, <<"unknown">>} \cup {<<status>> : status \in RuleStatuses}
      [] handler = "AcknowledgeAlert" -> {Malformed, <<"">>, <<"user">>}
      [] handler \in {"QueryLogs", "QueryAlerts"} ->
           {<<"valid">>, <<"limit 0">>, <<"limit < 0">>, <<"offset < 0">>}
      [] OTHER -> {<<>>}

\* Bound: requests that create do not come when there may be no identity left.
RoomFor(q) ==
    /\ Handler(q) \in {"CreateLog", "CreateLogs"} => Cardinality(LogIds \ logs) >= Len(q.input)
    /\ Handler(q) = "CreateRule" => StoredRules # RuleIds

Receive(q) ==
    /\ request = NoRequest
    /\ q.input \in Inputs(Handler(q))
    /\ RoomFor(q)
    /\ request' = q
    /\ code' = 0
    /\ UNCHANGED <<logs, rules, alerts>>

-----------------------------------------------------------------------------
(* The handlers.  A panic in one is answered with 500 by RecoveryMiddleware. *)

Handles(handler) == request # NoRequest /\ Handler(request) = handler

Respond(c) ==
    /\ code' = c
    /\ request' = NoRequest

Refuse(c) == Respond(c) /\ UNCHANGED <<logs, rules, alerts>>

Preflight == Handles("Preflight") /\ Refuse(0)

MethodNotAllowed == Handles("MethodNotAllowed") /\ Refuse(405)

List == Handles("List") /\ Refuse(0)

GetLog == Handles("GetLog") /\ Refuse(Lookup(logs, 404))

GetRule == Handles("GetRule") /\ Refuse(Lookup(StoredRules, 404))

GetAlert == Handles("GetAlert") /\ Refuse(Lookup(StoredAlerts, 404))

QueryLogs == Handles("QueryLogs") /\ Refuse(IF request.input = <<"valid">> THEN 0 ELSE 400)

\* Nothing validates this query: an offset below 0, or a page that ends before it
\* starts, is out of range in the store, and a limit of 0 divides the offset.
QueryAlerts ==
    /\ Handles("QueryAlerts")
    /\ LET empty == request.input = <<"limit < 0">> /\ StoredAlerts = {}
       IN Refuse(IF request.input = <<"valid">> \/ empty THEN 0 ELSE 500)

\* `at[i]' is what a store holds after i of n items were stored: one after
\* another, each with an identity of its own and after evictOldest if the store is
\* full.  Which items that removes is the subject of LogStore and AlertLifecycle.
StoredInTurn(at, n, capacity) ==
    \A i \in 1..n :
        LET old == at[i - 1] IN
        /\ Cardinality(at[i] \ old) = 1
        /\ \A j \in 0..(i - 1) : (at[i] \ old) \cap at[j] = {}
        /\ Cardinality(old \ at[i]) =
              IF Cardinality(old) >= capacity THEN RemoveCount(Cardinality(old)) ELSE 0

Create(n) ==
    /\ \E at \in [0..n -> SUBSET LogIds] :
          at[0] = logs /\ StoredInTurn(at, n, LogCapacity) /\ logs' = at[n]
    /\ Respond(0)
    /\ UNCHANGED <<rules, alerts>>

CreateLog ==
    /\ Handles("CreateLog")
    /\ IF request.input = <<"valid">> THEN Create(1) ELSE Refuse(400)

\* Mutant: each entry is stored as soon as it was validated.
CreateLogsOneByOne ==
    LET bad == {i \in DOMAIN request.input : request.input[i] # "valid"} IN
    /\ Handles("CreateLogs")
    /\ IF bad = {} THEN Create(Len(request.input))
       ELSE LET first == CHOOSE i \in bad : \A j \in bad : i <= j IN
            /\ \E at \in [0..(first - 1) -> SUBSET LogIds] :
                  at[0] = logs /\ StoredInTurn(at, first - 1, LogCapacity) /\ logs' = at[first - 1]
            /\ Respond(IF request.input[first] = "null" THEN 500 ELSE 400)
            /\ UNCHANGED <<rules, alerts>>

\* All entries are validated before the first is stored; the first that is not
\* valid is refused, and a null among them is a nil pointer.
CreateLogs ==
    LET bad == {i \in DOMAIN request.input : request.input[i] # "valid"} IN
    /\ Handles("CreateLogs")
    /\ IF bad = {} THEN Create(Len(request.input))
       ELSE LET first == CHOOSE i \in bad : \A j \in bad : i <= j IN
            Refuse(IF request.input[first] = "null" THEN 500 ELSE 400)

DeleteLog ==
    /\ Handles("DeleteLog")
    /\ logs' = {l \in logs : Id # <<l>>}
    /\ Respond(Lookup(logs, 404))
    /\ UNCHANGED <<rules, alerts>>

CreateRule ==
    /\ Handles("CreateRule")
    /\ IF request.input = <<"valid">>
       THEN /\ \E r \in RuleIds \ StoredRules :
                  rules' = [rules EXCEPT ![r] = [status |-> "active", edited |-> FALSE]]
            /\ Respond(0)
            /\ UNCHANGED <<logs, alerts>>
       ELSE Refuse(400)

\* The rule that is named becomes what `new' says, if it is stored.
ChangeRule(new) ==
    rules' = [r \in RuleIds |-> IF r \in StoredRules /\ Id = <<r>> THEN new[r] ELSE rules[r]]

\* The fields of an update are not validated.
UpdateRule ==
    /\ Handles("UpdateRule")
    /\ IF Id = <<>> \/ request.input = Malformed THEN Refuse(400)
       ELSE /\ ChangeRule([r \in StoredRules |-> [rules[r] EXCEPT !.edited = TRUE]])
            /\ Respond(Lookup(StoredRules, 500))
            /\ UNCHANGED <<logs, alerts>>

\* Mutant: the error of the store is not returned.
DeleteRuleQuietly ==
    /\ Handles("DeleteRule")
    /\ ChangeRule([r \in StoredRules |-> NoRule])
    /\ Respond(0)
    /\ UNCHANGED <<logs, alerts>>

DeleteRule ==
    /\ Handles("DeleteRule")
    /\ ChangeRule([r \in StoredRules |-> NoRule])
    /\ Respond(Lookup(StoredRules, 404))
    /\ UNCHANGED <<logs, alerts>>

\* The status is inferred from the path when the body has none: what precedes
\* "/status" in the identity, or "status" itself.
RequestedStatus ==
    CASE request.input # <<"">> -> request.input
      [] request.input = <<"">> /\ Len(Id) > 1 -> Front(Id)
      [] OTHER -> Id

ToggleRuleStatus ==
    /\ Handles("ToggleRuleStatus")
    /\ IF \A status \in RuleStatuses : RequestedStatus # <<status>> THEN Refuse(400)
       ELSE /\ ChangeRule([r \in StoredRules |-> [rules[r] EXCEPT !.status = Head(RequestedStatus)]])
            /\ Respond(Lookup(StoredRules, 500))
            /\ UNCHANGED <<logs, alerts>>

ChangeAlert(status) ==
    alerts' = [a \in AlertIds |-> IF a \in StoredAlerts /\ Id = <<a>> THEN status ELSE alerts[a]]

AcknowledgeAlert ==
    /\ Handles("AcknowledgeAlert")
    /\ IF request.input # <<"user">> THEN Refuse(400)
       ELSE /\ ChangeAlert("acknowledged")
            /\ Respond(Lookup(StoredAlerts, 500))
            /\ UNCHANGED <<logs, rules>>

ResolveAlert ==
    /\ Handles("ResolveAlert")
    /\ ChangeAlert("resolved")
    /\ Respond(Lookup(StoredAlerts, 500))
    /\ UNCHANGED <<logs, rules>>

DeleteAlert ==
    /\ Handles("DeleteAlert")
    /\ ChangeAlert("none")
    /\ Respond(Lookup(StoredAlerts, 404))
    /\ UNCHANGED <<logs, rules>>

ActiveRules == {r \in RuleIds : rules[r].status = "active"}

\* A scan records at most one alert for each active rule: RuleEngine says which.
\* AlertIds bounds how many there can be.
ScanNow ==
    /\ Handles("ScanNow")
    /\ \E n \in 0..Cardinality(ActiveRules) : \E at \in [0..n -> SUBSET AlertIds] :
          /\ at[0] = StoredAlerts /\ StoredInTurn(at, n, AlertCapacity)
          /\ alerts' = [a \in AlertIds |->
                           CASE a \notin at[n] -> "none"
                             [] a \in at[n] \cap StoredAlerts -> alerts[a]
                             [] OTHER -> "open"]
    /\ Respond(0)
    /\ UNCHANGED <<logs, rules>>

-----------------------------------------------------------------------------
ApiInit ==
    /\ logs = {}
    /\ rules = [r \in RuleIds |-> NoRule]
    /\ alerts = [a \in AlertIds |-> "none"]
    /\ request = NoRequest
    /\ code = 0

Handle ==
    \/ Preflight \/ MethodNotAllowed \/ List
    \/ GetLog \/ QueryLogs \/ CreateLog \/ CreateLogs \/ DeleteLog
    \/ GetRule \/ CreateRule \/ UpdateRule \/ DeleteRule \/ ToggleRuleStatus
    \/ GetAlert \/ QueryAlerts \/ AcknowledgeAlert \/ ResolveAlert \/ DeleteAlert
    \/ ScanNow

ApiNext ==
    \/ /\ request = NoRequest
       /\ \E m \in Methods, p \in Paths :
             \E input \in Inputs(Handler([method |-> m, path |-> p])) :
                Receive([method |-> m, path |-> p, input |-> input])
    \/ Handle

ApiSpec == ApiInit /\ [][ApiNext]_apiVars

-----------------------------------------------------------------------------
(* Properties.                                                             *)

\* Every variable has a value of its Go type; an entry of the log store has an
\* identity of its own, and a request the input that its handler tells apart.
ApiTypeOK ==
    /\ logs \subseteq LogIds
    /\ rules \in [RuleIds -> RuleState]
    /\ alerts \in [AlertIds -> AlertState]
    /\ \/ request = NoRequest
       \/ /\ request.method \in Methods /\ request.path \in Paths
          /\ request.input \in Inputs(Handler(request))
    /\ code \in {0, 400, 404, 405, 500}

\* A request that is answered with an error, or that panics, has changed
\* nothing: every handler validates all of its input before its first change,
\* a batch of logs as a whole (log_handler.go:77-89).
FailureHasNoEffect ==
    [][code' # 0 => UNCHANGED <<logs, rules, alerts>>]_apiVars

RequestNames(collection, i) ==
    Len(request.path) > 1 /\ request.path[1] = collection /\ request.path[2] = i

\* This request stores more entries than the log store has room for.
FillsLogs ==
    /\ request.method = "POST" /\ request.path \in {<<"logs">>, <<"logs", "batch">>}
    /\ Cardinality(logs) + Len(request.input) > LogCapacity

\* This scan may record more alerts than the alert store has room for.
FillsAlerts ==
    /\ request.path = <<"scheduler", "scan">>
    /\ Cardinality(StoredAlerts) + Cardinality(ActiveRules) > AlertCapacity

\* An object changes only by a request that names it, by the segment of the path
\* that follows the name of its collection, and goes only by one or when a store
\* is filled beyond its capacity: by a request that creates logs, or by a scan
\* (log_handler.go:248, memory_log_store.go:42-44, 64-66, memory_alert_store.go:40-42).
OnlyTheNamedChanges ==
    [][/\ \A l \in logs \ logs' : RequestNames("logs", l) \/ FillsLogs
       /\ \A r \in StoredRules : rules'[r] # rules[r] => RequestNames("rules", r)
       /\ \A a \in StoredAlerts : alerts'[a] # alerts[a] =>
             \/ RequestNames("alerts", a)
             \/ FillsAlerts /\ alerts'[a] = "none"]_apiVars

Succeeds(method, path) ==
    request.method = method /\ request.path = path /\ request' = NoRequest /\ code' = 0

\* A request to create or to delete that is answered with success has done what
\* it asked for.  All of a batch is added to what was stored, if there is room;
\* otherwise something of it is there, though success is also the answer when
\* most of it was evicted at once.  What is named is there no longer and was there
\* before (memory_log_store.go:52-72, log_handler.go:180-198).
SuccessIsDone ==
    [][/\ \A path \in {<<"logs">>, <<"logs", "batch">>} : Succeeds("POST", path) =>
             /\ Cardinality(logs) + Len(request.input) <= LogCapacity =>
                   logs \subseteq logs'
                   /\ Cardinality(logs') = Cardinality(logs) + Len(request.input)
             /\ Len(request.input) > 0 => logs' \ logs # {}
       /\ \A l \in LogIds : Succeeds("DELETE", <<"logs", l>>) => l \in logs \ logs'
       /\ \A r \in RuleIds : Succeeds("DELETE", <<"rules", r>>) =>
             rules[r] # NoRule /\ rules'[r] = NoRule
       /\ \A a \in AlertIds : Succeeds("DELETE", <<"alerts", a>>) =>
             alerts[a] # "none" /\ alerts'[a] = "none"]_apiVars

\* POST /api/alerts/{id}/acknowledge acknowledges the alert
\* (BENZHI_README.md:186): it does, if the alert is stored and a user is named.
AcknowledgeReachesAlert ==
    [][\A a \in StoredAlerts :
          /\ request.method = "POST"
          /\ request.path = <<"alerts", a, "acknowledge">>
          /\ request.input = <<"user">>
          /\ request' = NoRequest
          => alerts'[a] = "acknowledged"]_apiVars
=============================================================================
