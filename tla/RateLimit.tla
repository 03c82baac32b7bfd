------------------------------ MODULE RateLimit ------------------------------
(***************************************************************************)
(* RateLimitMiddleware of internal/handler/middleware.go, for the requests   *)
(* of one client.  Every request runs in a goroutine of its own and nothing  *)
(* is locked: the map and the client's slice are read and written in steps   *)
(* of their own.  Two requests that write the map at once may kill the       *)
(* process (the runtime looks for concurrent map writes, and does not        *)
(* always see them).  A slice of times is the set of requests it is of.      *)
(***************************************************************************)
EXTENDS Integers, FiniteSets

CONSTANTS
    Visits,         \* requests of the client, numbered as they come
    MaxRequests,    \* maxRequests
    RateWindow,         \* window
    MaxNow,         \* bound: the time is in 0..MaxNow
    Nobody          \* the entry of a client that is not in the map

ASSUME RateAssumption ==
    /\ IsFiniteSet(Visits) /\ Visits \subseteq Nat
    /\ MaxRequests \in Nat /\ RateWindow \in Nat \ {0} /\ MaxNow \in Nat
    /\ Nobody \notin Visits

VARIABLES
    time,       \* the clock
    entry,      \* clients[ip]: the clientInfo that this request has made, or Nobody
    requests,   \* requests of each clientInfo, named by the request that made it
    visit,      \* what each request is doing
    killed      \* the runtime has seen concurrent map writes

rateVars == <<time, entry, requests, visit, killed>>

-----------------------------------------------------------------------------
\* "lookup": before clients[ip]; "insert": the client was not in the map; "trim":
\* before the loop over info.requests; "write": before the assignment of
\* newRequests; "check"; "append" and "extend": before and after append has read
\* info.requests.
VisitPoints == {"none", "lookup", "insert", "trim", "write", "check", "append", "extend",
                "accepted", "refused"}

\* "oldest" is the earliest `now' among the requests that overlapped with this
\* one, with one of those, and so on.
Visit == [pc : VisitPoints, now : Nat, oldest : Nat, info : Visits \cup {Nobody},
          list : SUBSET Visits]
NoVisit == [pc |-> "none", now |-> 0, oldest |-> 0, info |-> Nobody, list |-> {}]

InProgress(r) == visit[r].pc \notin {"none", "accepted", "refused"}

Accepted == {r \in Visits : visit[r].pc = "accepted"}

RateInit ==
    /\ time = 0
    /\ entry = Nobody
    /\ requests = [r \in Visits |-> {}]
    /\ visit = [r \in Visits |-> NoVisit]
    /\ killed = FALSE

TimePasses ==
    /\ ~killed
    /\ time < MaxNow
    /\ time' = time + 1
    /\ UNCHANGED <<entry, requests, visit, killed>>

-----------------------------------------------------------------------------
Earliest(S) == CHOOSE t \in S : \A u \in S : t <= u

\* now := time.Now().
Arrive(r) ==
    LET under == {s \in Visits : InProgress(s)} IN
    /\ ~killed
    /\ visit[r].pc = "none"
    /\ \A s \in Visits : s < r => visit[s].pc # "none"
    /\ visit' = [visit EXCEPT ![r] =
                    [pc |-> "lookup", now |-> time,
                     oldest |-> Earliest({time} \cup {visit[s].oldest : s \in under}),
                     info |-> Nobody, list |-> {}]]
    /\ UNCHANGED <<time, entry, requests, killed>>

\* Request r goes from one point to another.
Proceed(r, from, changed) ==
    /\ ~killed
    /\ visit[r].pc = from
    /\ visit' = [visit EXCEPT ![r] = changed]

\* info, exists := clients[ip]; a client that is not there gets a new clientInfo.
LookUp(r) ==
    /\ Proceed(r, "lookup", IF entry = Nobody THEN [visit[r] EXCEPT !.pc = "insert", !.info = r]
                            ELSE [visit[r] EXCEPT !.pc = "trim", !.info = entry])
    /\ UNCHANGED <<time, entry, requests, killed>>

\* clients[ip] = info, over an entry that another request has made meanwhile.
InsertClient(r) ==
    /\ Proceed(r, "insert", [visit[r] EXCEPT !.pc = "trim"])
    /\ entry' = r
    /\ UNCHANGED <<time, requests, killed>>

\* Another goroutine is at the map at the same time.
MapCollision(r) ==
    /\ ~killed
    /\ visit[r].pc = "insert"
    /\ \E s \in Visits \ {r} : visit[s].pc \in {"lookup", "insert"}
    /\ killed' = TRUE
    /\ UNCHANGED <<time, entry, requests, visit>>

\* Mutant: a request at the very end of the window still counts.
TrimInclusive(r) ==
    /\ Proceed(r, "trim", [visit[r] EXCEPT !.pc = "write", !.list =
                    {s \in requests[visit[r].info] : visit[s].now >= visit[r].now - RateWindow}])
    /\ UNCHANGED <<time, entry, requests, killed>>

Trim(r) ==
    /\ Proceed(r, "trim", [visit[r] EXCEPT !.pc = "write", !.list =
                    {s \in requests[visit[r].info] : visit[s].now > visit[r].now - RateWindow}])
    /\ UNCHANGED <<time, entry, requests, killed>>

WriteTrimmed(r) ==
    /\ Proceed(r, "write", [visit[r] EXCEPT !.pc = "check", !.list = {}])
    /\ requests' = [requests EXCEPT ![visit[r].info] = visit[r].list]
    /\ UNCHANGED <<time, entry, killed>>

\* 429, or on to the append.
Check(r) ==
    /\ Proceed(r, "check", [visit[r] EXCEPT !.pc =
                    IF Cardinality(requests[visit[r].info]) >= MaxRequests
                    THEN "refused" ELSE "append"])
    /\ UNCHANGED <<time, entry, requests, killed>>

ReadList(r) ==
    /\ Proceed(r, "append", [visit[r] EXCEPT !.pc = "extend", !.list = requests[visit[r].info]])
    /\ UNCHANGED <<time, entry, requests, killed>>

\* info.requests = append(...), and then next.  Two appends to one slice may
\* share its array, and then either time is in the place of the other.
Extend(r) ==
    /\ Proceed(r, "extend", [visit[r] EXCEPT !.pc = "accepted", !.list = {}])
    /\ \E s \in {r} \cup {o \in Visits : visit[o].pc = "extend"
                                        /\ visit[o].info = visit[r].info
                                        /\ visit[o].list = visit[r].list} :
          requests' = [requests EXCEPT ![visit[r].info] = visit[r].list \cup {s}]
    /\ UNCHANGED <<time, entry, killed>>

-----------------------------------------------------------------------------
RateNext ==
    \/ TimePasses
    \/ \E r \in Visits :
          \/ Arrive(r)
          \/ LookUp(r)
          \/ InsertClient(r)
          \/ MapCollision(r)
          \/ Trim(r)
          \/ WriteTrimmed(r)
          \/ Check(r)
          \/ ReadList(r)
          \/ Extend(r)

RateSpec == RateInit /\ [][RateNext]_rateVars

-----------------------------------------------------------------------------
(* Properties.                                                             *)

\* A client's list has requests that came.
RateTypeOK ==
    /\ time \in 0..MaxNow
    /\ entry \in Visits \cup {Nobody}
    /\ requests \in [Visits -> SUBSET Visits]
    /\ visit \in [Visits -> Visit]
    /\ \A r \in Visits : visit[r].pc = "none" => \A s \in Visits : r \notin requests[s]
    /\ killed \in BOOLEAN

Passed == {r \in Visits : visit[r].pc \in {"append", "extend", "accepted"}}

\* However the steps of concurrent requests interleave, a client is refused only
\* if maxRequests of its requests were let through within the window; the window
\* begins where that of the earliest request it overlapped with does, since that
\* one may have put back what this one had trimmed.  The other direction fails:
\* concurrent requests may all pass (middleware.go:84-106).
RefusalIsJustified ==
    \A r \in Visits : visit[r].pc = "refused" =>
        Cardinality({s \in Passed : visit[s].now > visit[r].oldest - RateWindow}) >= MaxRequests
=============================================================================
