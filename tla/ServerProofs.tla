---------------------------- MODULE ServerProofs ----------------------------
(***************************************************************************)
(* Proofs about the HTTP interface and what the server keeps in memory beside *)
(* its stores: the windows of a time range, the service registry, the rate   *)
(* limiter, the cache, the counters, the outputs of the logger and the       *)
(* configuration.  Each part has an inductive invariant of its own; the last *)
(* section puts the parts together.                                         *)
(***************************************************************************)
EXTENDS MCServer, FiniteSetTheorems, SequenceTheorems, TLAPS

-----------------------------------------------------------------------------
(* TimeWindows.                                                            *)

\* The windows end where the next one begins, unless the loop is at its end;
\* together they have every moment from the range's start up to there.
Adjacent ==
    /\ \A w \in windows : w.start < current /\ (w.end <= current \/ current > range.to)
    /\ \A v, w \in windows : WindowsOverlap(v, w) => v = w

Covered ==
    \A t \in Int : RangeContains(range, t) /\ t < current =>
        \E w \in windows : WindowContains(w, t)

WithinRange ==
    ~aligned => /\ current >= range.from
                /\ \A w \in windows : w.start >= range.from /\ w.end <= range.to + 1

WindowsInv ==
    /\ WindowsTypeOK
    /\ Adjacent
    /\ Covered
    /\ WithinRange
    /\ done => current > range.to

LEMMA WindowsInitially == WindowsInit => WindowsInv
<1> SUFFICES ASSUME WindowsInit PROVE WindowsInv
  OBVIOUS
<1>1. /\ range.from \in Int /\ range.to \in Int
      /\ size \in Nat \ {0}
  BY WindowsAssumption DEF WindowsInit
<1>2. current \in Int /\ current <= range.from
  <2>1. CASE aligned
    <3>1. range.from % size \in 0..(size - 1)
      BY <1>1
    <3> QED BY <1>1, <2>1, <3>1 DEF WindowsInit, StartOf
  <2>2. CASE ~aligned
    BY <1>1, <2>2 DEF WindowsInit
  <2> QED BY <2>1, <2>2
<1>3. WindowsTypeOK
  BY <1>2 DEF WindowsInit, WindowsTypeOK
<1>4. Adjacent
  BY DEF WindowsInit, Adjacent
<1>5. Covered
  BY <1>1, <1>2 DEF WindowsInit, Covered, RangeContains
<1>6. WithinRange
  BY <1>1 DEF WindowsInit, WithinRange
<1> QED BY <1>3, <1>4, <1>5, <1>6 DEF WindowsInv, WindowsInit

LEMMA NextWindowKeepsInv ==
    ASSUME WindowsInv, NextWindow PROVE WindowsInv'
<1> DEFINE new == IF aligned THEN NewTimeWindow(current, size) ELSE Window
<1>1. /\ range.from \in Int /\ range.to \in Int /\ current \in Int
      /\ size \in Nat \ {0}
      /\ windows \subseteq [start : Int, end : Int]
  BY WindowsAssumption DEF WindowsInv, WindowsTypeOK
<1>2. /\ ~(current > range.to)
      /\ windows' = windows \cup {new}
      /\ current' = current + size
      /\ UNCHANGED <<range, size, aligned, done>>
      /\ ~done
  BY DEF NextWindow
<1>3. /\ new \in [start : Int, end : Int]
      /\ new.start = current
      /\ new.end = current + size \/ (current + size > range.to /\ new.end = range.to + 1 /\ ~aligned)
      /\ ~aligned => new.end <= range.to + 1
  BY <1>1 DEF NewTimeWindow, Window
<1> HIDE DEF new
<1>4. WindowsTypeOK'
  BY <1>1, <1>2, <1>3 DEF WindowsInv, WindowsTypeOK
<1>5. Adjacent'
  <2>1. \A w \in windows : w.end <= current /\ w.start < current /\ w.start \in Int /\ w.end \in Int
    BY <1>1, <1>2 DEF WindowsInv, Adjacent
  <2>2. (\A w \in windows : w.start < current /\ (w.end <= current \/ current > range.to))'
    BY <1>1, <1>2, <1>3, <2>1
  <2>3. \A w \in windows : ~WindowsOverlap(w, new) /\ ~WindowsOverlap(new, w)
    BY <1>1, <1>3, <2>1 DEF WindowsOverlap
  <2>4. (\A v, w \in windows : WindowsOverlap(v, w) => v = w)'
    BY <1>2, <2>3 DEF WindowsInv, Adjacent, WindowsOverlap
  <2> QED BY <2>2, <2>4 DEF Adjacent
<1>6. Covered'
  <2> SUFFICES ASSUME NEW t \in Int, RangeContains(range, t), t < current + size
               PROVE  \E w \in windows \cup {new} : WindowContains(w, t)
    BY <1>2 DEF Covered
  <2>1. CASE t < current
    BY <2>1 DEF WindowsInv, Covered
  <2>2. CASE ~(t < current)
    BY <1>1, <1>3, <2>2 DEF WindowContains, RangeContains
  <2> QED BY <2>1, <2>2
<1>7. WithinRange'
  BY <1>1, <1>2, <1>3 DEF WindowsInv, WithinRange
<1> QED BY <1>2, <1>4, <1>5, <1>6, <1>7 DEF WindowsInv

LEMMA WindowsInvariant == WindowsSpec => []WindowsInv
<1>1. WindowsInv /\ [WindowsNext]_windowVars => WindowsInv'
  <2> SUFFICES ASSUME WindowsInv, [WindowsNext]_windowVars PROVE WindowsInv'
    OBVIOUS
  <2>1. CASE NextWindow
    BY <2>1, NextWindowKeepsInv
  <2>2. CASE Exhausted
    BY <2>2 DEF Exhausted, WindowsInv, WindowsTypeOK, Adjacent, Covered, WithinRange
  <2>3. CASE UNCHANGED windowVars
    BY <2>3 DEF windowVars, WindowsInv, WindowsTypeOK, Adjacent, Covered, WithinRange
  <2> QED BY <2>1, <2>2, <2>3 DEF WindowsNext
<1> QED BY <1>1, WindowsInitially, PTL DEF WindowsSpec

\* For every range and size, the windows of a loop over a time range do not
\* overlap, have every moment of the range when the loop is over, and an
\* iterator's have no other.
THEOREM WindowsPartitionRange == WindowsSpec => []WindowsPartition
<1>1. WindowsInv => WindowsPartition
  <2> SUFFICES ASSUME WindowsInv PROVE WindowsPartition
    OBVIOUS
  <2>1. /\ Moments \subseteq Int /\ range.from \in Int /\ range.to \in Int /\ current \in Int
        /\ windows \subseteq [start : Int, end : Int]
    BY WindowsAssumption DEF WindowsInv, WindowsTypeOK
  <2>2. \A t \in Moments : RangeContains(range, t) /\ done => t < current
    BY <2>1 DEF WindowsInv, RangeContains
  <2>3. \A t \in Moments, w \in windows :
           ~aligned /\ WindowContains(w, t) => RangeContains(range, t)
    BY <2>1 DEF WindowsInv, WithinRange, WindowContains, RangeContains
  <2> QED BY <2>1, <2>2, <2>3 DEF WindowsInv, WindowsPartition, Adjacent, Covered
<1> QED BY <1>1, WindowsInvariant, PTL

-----------------------------------------------------------------------------
(* ServiceManager.                                                         *)

\* What ShutdownAll has not yet reached of the map, it has in its hands: while
\* a loop is under way nobody can add to the map.
ManagerInv ==
    /\ ManagerTypeOK
    /\ NothingForgotten
    /\ \A s \in Stoppers : stopper[s].pc = "range" =>
          Registered \cap Stoppable \subseteq stopped \cup stopper[s].left

\* The map's instances after one of its entries is changed.
LEMMA RegisteredAfter ==
    ASSUME ManagerTypeOK, NEW n \in Names, NEW i \in Instances \cup {NoInstance},
           services' = [services EXCEPT ![n] = i]
    PROVE  /\ Registered \subseteq Registered' \cup ({services[n]} \ {NoInstance})
           /\ Registered' \subseteq Registered \cup ({i} \ {NoInstance})
BY DEF Registered, ManagerTypeOK

LEMMA ManagerTypes ==
    ASSUME ManagerTypeOK, [ManagerNext]_managerVars PROVE ManagerTypeOK'
<1>1. ASSUME NEW n \in Names, NEW i \in Instances, RegisterService(n, i)
      PROVE  ManagerTypeOK'
  <2>1. \A m \in Names : services[m] # i
    BY <1>1, ServicesAssumption DEF RegisterService, ManagerTypeOK, Registered
  <2>2. services' \in [Names -> Instances \cup {NoInstance}]
    BY <1>1 DEF RegisterService, ManagerTypeOK
  <2>3. (\A l, m \in Names : services[l] = services[m] /\ services[l] # NoInstance => l = m)'
    BY <1>1, <2>1 DEF RegisterService, ManagerTypeOK
  <2>4. Registered' \subseteq seen'
    BY <1>1, RegisteredAfter DEF RegisterService, ManagerTypeOK
  <2>5. {services[n]} \ {NoInstance} \subseteq Registered
    BY DEF Registered
  <2> QED BY <1>1, <2>2, <2>3, <2>4, <2>5 DEF RegisterService, ManagerTypeOK
<1>2. ASSUME NEW n \in Names, UnregisterService(n) PROVE ManagerTypeOK'
  <2>1. services[n] \in Registered
    BY <1>2 DEF UnregisterService, Registered
  <2>2. Registered' \subseteq Registered
    BY <1>2, RegisteredAfter DEF UnregisterService
  <2> QED BY <1>2, <2>1, <2>2 DEF UnregisterService, ManagerTypeOK
<1>3. ASSUME NEW s \in Stoppers, ShutdownAll(s) PROVE ManagerTypeOK'
  BY <1>3 DEF ShutdownAll, ManagerTypeOK, Registered, Stopper
<1>4. ASSUME NEW s \in Stoppers, NEW i \in Instances, ShutdownOne(s, i)
      PROVE  ManagerTypeOK'
  BY <1>4 DEF ShutdownOne, ManagerTypeOK, Registered, Stopper
<1>5. ASSUME NEW s \in Stoppers, ReplaceMap(s) PROVE ManagerTypeOK'
  BY <1>5 DEF ReplaceMap, ManagerTypeOK, Registered, Stopper, IdleStopper
<1>6. CASE UNCHANGED managerVars
  BY <1>6 DEF managerVars, ManagerTypeOK, Registered
<1> QED BY <1>1, <1>2, <1>3, <1>4, <1>5, <1>6 DEF ManagerNext

LEMMA ManagerInvariant == ManagerSpec => []ManagerInv
<1>1. ManagerInit => ManagerInv
  BY DEF ManagerInit, ManagerInv, ManagerTypeOK, NothingForgotten, Registered,
         Stopper, IdleStopper
<1>2. ManagerInv /\ [ManagerNext]_managerVars => ManagerInv'
  <2> SUFFICES ASSUME ManagerInv, [ManagerNext]_managerVars PROVE ManagerInv'
    OBVIOUS
  <2>0. ManagerTypeOK /\ ManagerTypeOK'
    BY ManagerTypes DEF ManagerInv
  <2>1. ASSUME NEW n \in Names, NEW i \in Instances, RegisterService(n, i)
        PROVE  ManagerInv'
    <3>1. Registered \subseteq Registered' \cup ({services[n]} \ {NoInstance})
      BY <2>0, <2>1, RegisteredAfter DEF RegisterService
    <3>2. i \in Registered'
      BY <2>0, <2>1, ServicesAssumption DEF RegisterService, Registered, ManagerTypeOK
    <3> QED BY <2>0, <2>1, <3>1, <3>2 DEF RegisterService, ManagerInv, NothingForgotten, NoReader
  <2>2. ASSUME NEW n \in Names, UnregisterService(n) PROVE ManagerInv'
    <3>1. Registered \subseteq Registered' \cup {services[n]}
      BY <2>0, <2>2, RegisteredAfter DEF UnregisterService
    <3> QED BY <2>0, <2>2, <3>1 DEF UnregisterService, ManagerInv, NothingForgotten, NoReader
  <2>3. ASSUME NEW s \in Stoppers, ShutdownAll(s) PROVE ManagerInv'
    <3>1. Registered' = Registered
      BY <2>3 DEF ShutdownAll, Registered
    <3> QED BY <2>0, <2>3, <3>1 DEF ShutdownAll, ManagerInv, NothingForgotten, ManagerTypeOK
  <2>4. ASSUME NEW s \in Stoppers, NEW i \in Instances, ShutdownOne(s, i)
        PROVE  ManagerInv'
    <3>1. Registered' = Registered
      BY <2>4 DEF ShutdownOne, Registered
    <3>2. \A t \in Stoppers : /\ stopper'[t].pc = stopper[t].pc
                              /\ stopper[t].left \subseteq stopper'[t].left \cup {i}
      BY <2>0, <2>4 DEF ShutdownOne, ManagerTypeOK, Stopper
    <3> QED BY <2>0, <2>4, <3>1, <3>2 DEF ShutdownOne, ManagerInv, NothingForgotten
  <2>5. ASSUME NEW s \in Stoppers, ReplaceMap(s) PROVE ManagerInv'
    <3>1. Registered' = {}
      BY <2>5 DEF ReplaceMap, Registered
    <3>2. Registered \cap Stoppable \subseteq stopped
      BY <2>5 DEF ReplaceMap, ManagerInv
    <3> QED BY <2>0, <2>5, <3>1, <3>2 DEF ReplaceMap, ManagerInv, NothingForgotten
  <2>6. CASE UNCHANGED managerVars
    BY <2>0, <2>6 DEF managerVars, ManagerInv, NothingForgotten, Registered
  <2> QED BY <2>1, <2>2, <2>3, <2>4, <2>5, <2>6 DEF ManagerNext
<1> QED BY <1>1, <1>2, PTL DEF ManagerSpec

\* However calls of ShutdownAll overlap with one another and with registrations,
\* no service that has a Shutdown method leaves the registry without one of the
\* three reasons.
THEOREM ServicesAreNotForgotten == ManagerSpec => []NothingForgotten
<1>1. ManagerInv => NothingForgotten
  BY DEF ManagerInv
<1> QED BY <1>1, ManagerInvariant, PTL

-----------------------------------------------------------------------------
(* RateLimit.                                                              *)

\* The requests in the window of the period that request r belongs to.
Since(r) == {s \in Visits : visit[s].now > visit[r].oldest - RateWindow}

\* Requests that are in progress together belong to one period in which the
\* middleware was never idle: `oldest' is the time it began.  What is in a list
\* was let through, and once a request has trimmed the list of its client, what
\* any other request in progress puts there is not older than the period allows.
RateInv ==
    /\ time \in Nat
    /\ entry \in Visits \cup {Nobody}
    /\ requests \in [Visits -> SUBSET Visits]
    /\ visit \in [Visits -> Visit]
    /\ \A r \in Visits : visit[r].pc # "none" =>
          /\ visit[r].pc # "lookup" => visit[r].info \in Visits
          /\ visit[r].oldest <= visit[r].now
          /\ visit[r].now <= time
    /\ \A r, s \in Visits : InProgress(r) /\ InProgress(s) => visit[r].oldest = visit[s].oldest
    /\ \A r \in Visits : requests[r] \subseteq Passed /\ visit[r].list \subseteq Passed
    /\ \A r \in Visits :
          /\ visit[r].pc \in {"check", "append"} => requests[visit[r].info] \subseteq Since(r)
          /\ visit[r].pc \in {"write", "extend"} => visit[r].list \subseteq Since(r)
    /\ RefusalIsJustified

\* The times of a request that has come do not change, and a request that was
\* let through stays so: a refusal that was justified stays justified.
LEMMA RefusalsStayJustified ==
    ASSUME RateInv,
           \A s \in Visits : visit[s].pc # "none" =>
               visit'[s].now = visit[s].now /\ visit'[s].oldest = visit[s].oldest,
           Passed \subseteq Passed',
           NEW r \in Visits, visit[r].pc = "refused"
    PROVE  Cardinality({s \in Passed' : visit'[s].now > visit'[r].oldest - RateWindow})
              >= MaxRequests
<1> DEFINE A == {s \in Passed : visit[s].now > visit[r].oldest - RateWindow}
           B == {s \in Passed' : visit'[s].now > visit'[r].oldest - RateWindow}
<1>1. A \subseteq B
  BY DEF Passed
<1>2. IsFiniteSet(B)
  BY RateAssumption, FS_Subset DEF Passed
<1>3. Cardinality(A) <= Cardinality(B) /\ Cardinality(A) \in Nat /\ Cardinality(B) \in Nat
  BY <1>1, <1>2, FS_Subset, FS_CardinalityType
<1>4. Cardinality(A) >= MaxRequests
  BY DEF RateInv, RefusalIsJustified
<1> QED BY <1>3, <1>4, RateAssumption

\* A least element of a set of numbers is its earliest.
LEMMA EarliestIsLeast ==
    ASSUME NEW S \in SUBSET Nat, NEW t \in S, \A u \in S : t <= u
    PROVE  Earliest(S) = t
<1>1. Earliest(S) \in S /\ \A u \in S : Earliest(S) <= u
  BY DEF Earliest
<1>2. Earliest(S) <= t /\ t <= Earliest(S) /\ Earliest(S) \in Nat /\ t \in Nat
  BY <1>1
<1> QED BY <1>2

\* `oldest' of a request that comes now.
LEMMA ArrivalOldest ==
    ASSUME RateInv, NEW o, o = Earliest({time} \cup {visit[s].oldest : s \in {u \in Visits : InProgress(u)}})
    PROVE  /\ o \in Nat /\ o <= time
           /\ \A s \in Visits : InProgress(s) => visit[s].oldest = o
<1> DEFINE T == {time} \cup {visit[s].oldest : s \in {u \in Visits : InProgress(u)}}
<1>1. \A t \in T : t \in Nat /\ t <= time
  BY DEF RateInv, Visit, InProgress
<1>2. CASE \A s \in Visits : ~InProgress(s)
  <2>1. T = {time}
    BY <1>2
  <2>2. o = time
    BY <1>1, <2>1, EarliestIsLeast DEF RateInv
  <2> QED BY <1>2, <2>2 DEF RateInv
<1>3. CASE \E s \in Visits : InProgress(s)
  <2>1. PICK s \in Visits : InProgress(s)
    BY <1>3
  <2>2. \A u \in Visits : InProgress(u) => visit[u].oldest = visit[s].oldest
    BY <2>1 DEF RateInv
  <2>3. visit[s].oldest \in T
    BY <2>1
  <2>4. visit[s].oldest <= time /\ visit[s].oldest \in Nat
    BY <1>1, <2>3
  <2>5. \A t \in T : visit[s].oldest <= t
    BY <2>2, <2>4
  <2>6. o = visit[s].oldest
    BY <1>1, <2>3, <2>5, EarliestIsLeast
  <2> QED BY <2>2, <2>4, <2>6
<1> QED BY <1>2, <1>3

\* What a step of request r that only moves it from one point to a later one
\* leaves as it is, and what has to be shown of it.
LEMMA StepKeepsInv ==
    ASSUME RateInv, NEW r \in Visits, NEW to \in VisitPoints, NEW list \in SUBSET Visits,
           InProgress(r), visit[r].pc # "lookup",
           visit' = [visit EXCEPT ![r] = [visit[r] EXCEPT !.pc = to, !.list = list]],
           to # "none",
           visit[r].pc \in {"append", "extend"} => to \in {"append", "extend", "accepted"},
           time' = time,
           entry' \in Visits \cup {Nobody},
           requests' \in [Visits -> SUBSET Visits],
           list \subseteq Passed,
           \A s \in Visits : requests'[s] \subseteq Passed \/ requests'[s] \subseteq Passed',
           \A s \in Visits : s # r /\ visit[s].pc \in {"check", "append"} =>
               requests'[visit[s].info] \subseteq Since(s),
           to \in {"check", "append"} => requests'[visit[r].info] \subseteq Since(r),
           to \in {"write", "extend"} => list \subseteq Since(r),
           to = "refused" =>
               Cardinality({s \in Passed : visit[s].now > visit[r].oldest - RateWindow}) >= MaxRequests
    PROVE  RateInv'
<1>1. /\ visit' \in [Visits -> Visit]
      /\ \A s \in Visits : /\ visit'[s].now = visit[s].now
                           /\ visit'[s].oldest = visit[s].oldest
                           /\ visit'[s].info = visit[s].info
                           /\ s # r => visit'[s] = visit[s]
      /\ visit'[r].pc = to /\ visit'[r].list = list
  <2>1. visit \in [Visits -> Visit] /\ visit[r] \in Visit
    BY DEF RateInv
  <2> DEFINE v == [visit[r] EXCEPT !.pc = to, !.list = list]
  <2>2. /\ v \in Visit
        /\ v.now = visit[r].now /\ v.oldest = visit[r].oldest /\ v.info = visit[r].info
        /\ v.pc = to /\ v.list = list
    BY <2>1 DEF Visit
  <2>3. visit' = [visit EXCEPT ![r] = v]
    OBVIOUS
  <2> HIDE DEF v
  <2> QED BY <2>1, <2>2, <2>3
<1>2. \A s \in Visits : InProgress(s)' => InProgress(s)
  BY <1>1 DEF InProgress
<1>3. Passed \subseteq Passed'
  <2>1. visit[r].pc \in {"append", "extend", "accepted"} => to \in {"append", "extend", "accepted"}
    BY DEF InProgress
  <2> QED BY <1>1, <2>1 DEF Passed
<1>4. \A s \in Visits : Since(s)' = Since(s)
  BY <1>1 DEF Since
<1>5. RefusalIsJustified'
  <2> SUFFICES ASSUME NEW s \in Visits, visit'[s].pc = "refused"
               PROVE  Cardinality({u \in Passed' : visit'[u].now > visit'[s].oldest - RateWindow})
                         >= MaxRequests
    BY DEF RefusalIsJustified
  <2>1. CASE visit[s].pc = "refused"
    BY <1>1, <1>3, <2>1, RefusalsStayJustified
  <2>2. CASE visit[s].pc # "refused"
    <3>1. s = r /\ to = "refused"
      BY <1>1, <2>2
    <3>2. Passed' = Passed
      BY <1>1, <3>1 DEF Passed, InProgress
    <3>3. {u \in Passed' : visit'[u].now > visit'[s].oldest - RateWindow}
             = {u \in Passed : visit[u].now > visit[r].oldest - RateWindow}
      BY <1>1, <3>1, <3>2 DEF Passed
    <3> QED BY <3>1, <3>3
  <2> QED BY <2>1, <2>2
<1>6. (\A s \in Visits : visit[s].pc # "none" =>
          /\ visit[s].pc # "lookup" => visit[s].info \in Visits
          /\ visit[s].oldest <= visit[s].now
          /\ visit[s].now <= time)'
  BY <1>1 DEF RateInv, InProgress
<1>7. (\A p, s \in Visits : InProgress(p) /\ InProgress(s) => visit[p].oldest = visit[s].oldest)'
  BY <1>1, <1>2 DEF RateInv
<1>8. (\A s \in Visits : requests[s] \subseteq Passed /\ visit[s].list \subseteq Passed)'
  <2> SUFFICES ASSUME NEW s \in Visits
               PROVE  requests'[s] \subseteq Passed' /\ visit'[s].list \subseteq Passed'
    OBVIOUS
  <2>1. requests'[s] \subseteq Passed'
    BY <1>3
  <2>2. visit[s].list \subseteq Passed
    BY DEF RateInv
  <2>3. visit'[s].list \subseteq Passed'
    BY <1>1, <1>3, <2>2
  <2> QED BY <2>1, <2>3
<1>9. (\A s \in Visits :
          /\ visit[s].pc \in {"check", "append"} => requests[visit[s].info] \subseteq Since(s)
          /\ visit[s].pc \in {"write", "extend"} => visit[s].list \subseteq Since(s))'
  <2> SUFFICES ASSUME NEW s \in Visits
               PROVE  /\ visit'[s].pc \in {"check", "append"} =>
                             requests'[visit'[s].info] \subseteq Since(s)'
                      /\ visit'[s].pc \in {"write", "extend"} =>
                             visit'[s].list \subseteq Since(s)'
    OBVIOUS
  <2>1. CASE s = r
    BY <1>1, <1>4, <2>1
  <2>2. CASE s # r
    <3>1. visit'[s] = visit[s] /\ Since(s)' = Since(s)
      BY <1>1, <1>4, <2>2
    <3>2. visit[s].pc \in {"write", "extend"} => visit[s].list \subseteq Since(s)
      BY DEF RateInv
    <3> QED BY <2>2, <3>1, <3>2
  <2> QED BY <2>1, <2>2
<1> QED BY <1>1, <1>5, <1>6, <1>7, <1>8, <1>9 DEF RateInv

\* Two requests in progress see the same times of the period they belong to.
LEMMA SameSince ==
    ASSUME RateInv, NEW r \in Visits, NEW s \in Visits, InProgress(r), InProgress(s)
    PROVE  Since(r) = Since(s)
BY DEF RateInv, Since

LEMMA ArriveKeepsInv ==
    ASSUME RateInv, NEW r \in Visits, Arrive(r) PROVE RateInv'
<1> DEFINE o == Earliest({time} \cup {visit[s].oldest : s \in {u \in Visits : InProgress(u)}})
<1>1. /\ o \in Nat /\ o <= time
      /\ \A s \in Visits : InProgress(s) => visit[s].oldest = o
  BY ArrivalOldest
<1> HIDE DEF o
<1>2. /\ visit[r].pc = "none"
      /\ visit' = [visit EXCEPT ![r] =
            [pc |-> "lookup", now |-> time, oldest |-> o, info |-> Nobody, list |-> {}]]
      /\ UNCHANGED <<time, entry, requests>>
  BY DEF Arrive, o
<1>3. /\ visit' \in [Visits -> Visit]
      /\ \A s \in Visits : s # r => visit'[s] = visit[s]
      /\ visit'[r].pc = "lookup" /\ visit'[r].now = time /\ visit'[r].oldest = o
      /\ visit'[r].list = {}
  BY <1>1, <1>2 DEF RateInv, Visit, VisitPoints
<1>4. Passed' = Passed /\ r \notin Passed
  BY <1>2, <1>3 DEF Passed
<1>5. \A s \in Visits \ {r} : Since(s) \cap Passed = Since(s)' \cap Passed
  BY <1>3, <1>4 DEF Since
<1>6. RefusalIsJustified'
  BY <1>2, <1>3, <1>4, RefusalsStayJustified DEF RefusalIsJustified
<1>7. (\A p, s \in Visits : InProgress(p) /\ InProgress(s) => visit[p].oldest = visit[s].oldest)'
  BY <1>1, <1>3 DEF InProgress
<1>8. (\A s \in Visits :
          /\ visit[s].pc \in {"check", "append"} => requests[visit[s].info] \subseteq Since(s)
          /\ visit[s].pc \in {"write", "extend"} => visit[s].list \subseteq Since(s))'
  BY <1>2, <1>3, <1>5 DEF RateInv, Visit
<1> QED BY <1>1, <1>2, <1>3, <1>4, <1>6, <1>7, <1>8 DEF RateInv

LEMMA LookUpKeepsInv ==
    ASSUME RateInv, NEW r \in Visits, LookUp(r) PROVE RateInv'
<1>1. PICK to \in {"insert", "trim"}, info \in Visits :
         visit' = [visit EXCEPT ![r] = [visit[r] EXCEPT !.pc = to, !.info = info]]
  BY DEF LookUp, Proceed, RateInv
<1>2. /\ visit[r].pc = "lookup" /\ UNCHANGED <<time, entry, requests>>
      /\ visit \in [Visits -> Visit] /\ visit[r] \in Visit
  BY DEF LookUp, Proceed, RateInv
<1>3. /\ visit' \in [Visits -> Visit]
      /\ \A s \in Visits : /\ visit'[s].now = visit[s].now
                           /\ visit'[s].oldest = visit[s].oldest
                           /\ visit'[s].list = visit[s].list
                           /\ s # r => visit'[s] = visit[s]
      /\ visit'[r].pc = to /\ visit'[r].info = info
  <2> DEFINE v == [visit[r] EXCEPT !.pc = to, !.info = info]
  <2>1. /\ v \in Visit
        /\ v.now = visit[r].now /\ v.oldest = visit[r].oldest /\ v.list = visit[r].list
        /\ v.pc = to /\ v.info = info
    BY <1>2 DEF Visit, VisitPoints
  <2>2. visit' = [visit EXCEPT ![r] = v]
    BY <1>1
  <2> HIDE DEF v
  <2> QED BY <1>2, <2>1, <2>2
<1>4. Passed' = Passed /\ \A s \in Visits : Since(s)' = Since(s)
  BY <1>2, <1>3 DEF Passed, Since
<1>5. RefusalIsJustified'
  BY <1>2, <1>3, <1>4, RefusalsStayJustified DEF RefusalIsJustified
<1>6. (\A s \in Visits : visit[s].pc # "none" =>
          /\ visit[s].pc # "lookup" => visit[s].info \in Visits
          /\ visit[s].oldest <= visit[s].now
          /\ visit[s].now <= time)'
  BY <1>2, <1>3 DEF RateInv
<1>7. (\A p, s \in Visits : InProgress(p) /\ InProgress(s) => visit[p].oldest = visit[s].oldest)'
  <2>1. \A s \in Visits : InProgress(s)' => InProgress(s)
    BY <1>2, <1>3 DEF InProgress
  <2> QED BY <1>3, <2>1 DEF RateInv
<1>8. (\A s \in Visits : requests[s] \subseteq Passed /\ visit[s].list \subseteq Passed)'
  BY <1>2, <1>3, <1>4 DEF RateInv
<1>9. (\A s \in Visits :
          /\ visit[s].pc \in {"check", "append"} => requests[visit[s].info] \subseteq Since(s)
          /\ visit[s].pc \in {"write", "extend"} => visit[s].list \subseteq Since(s))'
  BY <1>2, <1>3, <1>4 DEF RateInv
<1> QED BY <1>2, <1>3, <1>5, <1>6, <1>7, <1>8, <1>9 DEF RateInv

\* A step that leaves the list a request has read.
LEMMA SameList ==
    ASSUME RateInv, NEW r \in Visits, NEW to \in VisitPoints,
           visit' = [visit EXCEPT ![r] = [visit[r] EXCEPT !.pc = to]]
    PROVE  /\ visit' = [visit EXCEPT ![r] = [visit[r] EXCEPT !.pc = to, !.list = visit[r].list]]
           /\ visit[r].list \in SUBSET Visits /\ visit[r].list \subseteq Passed
<1>1. visit \in [Visits -> Visit] /\ visit[r] \in Visit /\ visit[r].list \subseteq Passed
  BY DEF RateInv
<1>2. [visit[r] EXCEPT !.pc = to] = [visit[r] EXCEPT !.pc = to, !.list = visit[r].list]
  BY <1>1 DEF Visit
<1> QED BY <1>1, <1>2 DEF Visit

\* What the lists and the requests in progress show at any time.
LEMMA ListsInPeriod ==
    ASSUME RateInv, NEW r \in Visits, InProgress(r), visit[r].pc # "lookup"
    PROVE  /\ visit[r] \in Visit /\ visit[r].info \in Visits
           /\ requests[visit[r].info] \in SUBSET Visits
           /\ \A s \in Visits : requests[s] \subseteq Passed
           /\ \A s \in Visits : visit[s].pc \in {"check", "append"} =>
                  requests[visit[s].info] \subseteq Since(s) /\ Since(s) = Since(r)
           /\ visit[r].pc \in {"write", "extend"} => visit[r].list \subseteq Since(r)
           /\ \A s \in Visits : InProgress(s) => s \in Since(r)
<1>1. /\ visit[r] \in Visit /\ visit[r].info \in Visits
      /\ requests[visit[r].info] \in SUBSET Visits
      /\ \A s \in Visits : requests[s] \subseteq Passed
  BY DEF RateInv, InProgress
<1>2. ASSUME NEW s \in Visits, visit[s].pc \in {"check", "append"}
      PROVE  requests[visit[s].info] \subseteq Since(s) /\ Since(s) = Since(r)
  <2>1. InProgress(s)
    BY <1>2 DEF InProgress
  <2> QED BY <1>2, <2>1, SameSince DEF RateInv
<1>3. visit[r].pc \in {"write", "extend"} => visit[r].list \subseteq Since(r)
  BY DEF RateInv
<1>4. ASSUME NEW s \in Visits, InProgress(s) PROVE s \in Since(r)
  <2>1. visit[s].oldest = visit[r].oldest /\ visit[s].oldest <= visit[s].now
    BY <1>4 DEF RateInv, InProgress
  <2>2. visit[s].oldest \in Nat /\ visit[s].now \in Nat
    BY DEF RateInv, Visit
  <2> QED BY <2>1, <2>2, RateAssumption DEF Since
<1> QED BY <1>1, <1>2, <1>3, <1>4

LEMMA TrimKeepsInv ==
    ASSUME RateInv, NEW r \in Visits, Trim(r) PROVE RateInv'
<1> DEFINE kept == {s \in requests[visit[r].info] : visit[s].now > visit[r].now - RateWindow}
<1>1. /\ visit[r].pc = "trim" /\ UNCHANGED <<time, entry, requests>>
      /\ visit' = [visit EXCEPT ![r] = [visit[r] EXCEPT !.pc = "write", !.list = kept]]
  BY DEF Trim, Proceed
<1>2. InProgress(r) /\ visit[r].pc # "lookup"
  BY <1>1 DEF InProgress
<1>3. kept \subseteq Visits /\ kept \subseteq Passed
  BY <1>2, ListsInPeriod
<1>4. kept \subseteq Since(r)
  <2>1. visit[r].oldest <= visit[r].now /\ visit[r].oldest \in Nat /\ visit[r].now \in Nat
    BY <1>1, <1>2, ListsInPeriod DEF RateInv, Visit
  <2>2. \A s \in kept : visit[s].now \in Nat
    BY <1>3 DEF RateInv, Visit
  <2> QED BY <1>3, <2>1, <2>2, RateAssumption DEF Since
<1> HIDE DEF kept
<1>5. /\ entry' \in Visits \cup {Nobody} /\ requests' \in [Visits -> SUBSET Visits]
      /\ \A s \in Visits : requests'[s] \subseteq Passed
      /\ \A s \in Visits : s # r /\ visit[s].pc \in {"check", "append"} =>
            requests'[visit[s].info] \subseteq Since(s)
  BY <1>1 DEF RateInv
<1>6. "write" \in VisitPoints
  BY DEF VisitPoints
<1> QED BY <1>1, <1>2, <1>3, <1>4, <1>5, <1>6, StepKeepsInv

LEMMA InsertKeepsInv ==
    ASSUME RateInv, NEW r \in Visits, InsertClient(r) PROVE RateInv'
<1>1. /\ visit[r].pc = "insert" /\ entry' = r /\ UNCHANGED <<time, requests>>
      /\ visit' = [visit EXCEPT ![r] = [visit[r] EXCEPT !.pc = "trim"]]
  BY DEF InsertClient, Proceed
<1>2. InProgress(r) /\ visit[r].pc # "lookup" /\ "trim" \in VisitPoints
  BY <1>1 DEF InProgress, VisitPoints
<1>3. /\ visit' = [visit EXCEPT ![r] = [visit[r] EXCEPT !.pc = "trim", !.list = visit[r].list]]
      /\ visit[r].list \in SUBSET Visits /\ visit[r].list \subseteq Passed
  BY <1>1, <1>2, SameList
<1>4. /\ entry' \in Visits \cup {Nobody} /\ requests' \in [Visits -> SUBSET Visits]
      /\ \A s \in Visits : requests'[s] \subseteq Passed
      /\ \A s \in Visits : s # r /\ visit[s].pc \in {"check", "append"} =>
            requests'[visit[s].info] \subseteq Since(s)
  BY <1>1 DEF RateInv
<1> QED BY <1>1, <1>2, <1>3, <1>4, StepKeepsInv

\* What another request is about to check may be put back: still of the period.
LEMMA WriteKeepsInv ==
    ASSUME RateInv, NEW r \in Visits, WriteTrimmed(r) PROVE RateInv'
<1>1. /\ visit[r].pc = "write" /\ UNCHANGED <<time, entry>>
      /\ visit' = [visit EXCEPT ![r] = [visit[r] EXCEPT !.pc = "check", !.list = {}]]
      /\ requests' = [requests EXCEPT ![visit[r].info] = visit[r].list]
  BY DEF WriteTrimmed, Proceed
<1>2. InProgress(r) /\ visit[r].pc # "lookup" /\ "check" \in VisitPoints
  BY <1>1 DEF InProgress, VisitPoints
<1>3. /\ visit[r].list \subseteq Visits /\ visit[r].list \subseteq Passed
      /\ visit[r].list \subseteq Since(r)
  BY <1>1, <1>2, ListsInPeriod DEF RateInv, Visit
<1>4. /\ entry' \in Visits \cup {Nobody} /\ requests' \in [Visits -> SUBSET Visits]
      /\ requests'[visit[r].info] = visit[r].list
      /\ \A s \in Visits : requests'[s] = requests[s] \/ requests'[s] = visit[r].list
  BY <1>1, <1>2, <1>3, ListsInPeriod DEF RateInv
<1>5. \A s \in Visits : requests'[s] \subseteq Passed
  BY <1>2, <1>3, <1>4, ListsInPeriod
<1>6. ASSUME NEW s \in Visits, s # r, visit[s].pc \in {"check", "append"}
      PROVE  requests'[visit[s].info] \subseteq Since(s)
  <2>1. requests[visit[s].info] \subseteq Since(s) /\ Since(s) = Since(r)
    BY <1>2, <1>6, ListsInPeriod
  <2>2. visit[s].info \in Visits
    BY <1>6 DEF RateInv
  <2> QED BY <1>3, <1>4, <2>1, <2>2
<1> DEFINE nothing == {}
<1>7. /\ nothing \in SUBSET Visits /\ nothing \subseteq Passed /\ time' = time
      /\ visit' = [visit EXCEPT ![r] = [visit[r] EXCEPT !.pc = "check", !.list = nothing]]
      /\ requests'[visit[r].info] \subseteq Since(r)
      /\ \A s \in Visits : s # r /\ visit[s].pc \in {"check", "append"} =>
            requests'[visit[s].info] \subseteq Since(s)
  BY <1>1, <1>3, <1>4, <1>6
<1>8. visit[r].pc \notin {"append", "extend"}
  BY <1>1
<1> HIDE DEF nothing
<1> QED BY <1>2, <1>4, <1>5, <1>7, <1>8, StepKeepsInv

LEMMA CheckKeepsInv ==
    ASSUME RateInv, NEW r \in Visits, Check(r) PROVE RateInv'
<1> DEFINE to == IF Cardinality(requests[visit[r].info]) >= MaxRequests
                 THEN "refused" ELSE "append"
<1>1. /\ visit[r].pc = "check" /\ UNCHANGED <<time, entry, requests>>
      /\ visit' = [visit EXCEPT ![r] = [visit[r] EXCEPT !.pc = to]]
  BY DEF Check, Proceed
<1>2. InProgress(r) /\ visit[r].pc # "lookup" /\ to \in VisitPoints /\ to # "none" /\ to \notin {"check", "write", "extend"}
  BY <1>1 DEF InProgress, VisitPoints
<1>3. /\ visit' = [visit EXCEPT ![r] = [visit[r] EXCEPT !.pc = to, !.list = visit[r].list]]
      /\ visit[r].list \in SUBSET Visits /\ visit[r].list \subseteq Passed
  BY <1>1, <1>2, SameList
<1>4. /\ entry' \in Visits \cup {Nobody} /\ requests' \in [Visits -> SUBSET Visits]
      /\ \A s \in Visits : requests'[s] \subseteq Passed
      /\ \A s \in Visits : s # r /\ visit[s].pc \in {"check", "append"} =>
            requests'[visit[s].info] \subseteq Since(s)
      /\ requests'[visit[r].info] \subseteq Since(r)
  BY <1>1 DEF RateInv
<1>5. to = "refused" =>
         Cardinality({s \in Passed : visit[s].now > visit[r].oldest - RateWindow}) >= MaxRequests
  <2> SUFFICES ASSUME to = "refused"
               PROVE  Cardinality({s \in Passed : visit[s].now > visit[r].oldest - RateWindow})
                         >= MaxRequests
    OBVIOUS
  <2> DEFINE A == requests[visit[r].info]
             B == {s \in Passed : visit[s].now > visit[r].oldest - RateWindow}
  <2>1. A \subseteq B
    BY <1>1, <1>2, ListsInPeriod DEF Since
  <2>2. IsFiniteSet(B)
    BY RateAssumption, FS_Subset DEF Passed
  <2>3. /\ Cardinality(A) <= Cardinality(B)
        /\ Cardinality(A) \in Nat /\ Cardinality(B) \in Nat
    BY <2>1, <2>2, FS_Subset, FS_CardinalityType
  <2>4. Cardinality(A) >= MaxRequests
    OBVIOUS
  <2> QED BY <2>3, <2>4, RateAssumption
<1> HIDE DEF to
<1> QED BY <1>1, <1>2, <1>3, <1>4, <1>5, StepKeepsInv

LEMMA ReadKeepsInv ==
    ASSUME RateInv, NEW r \in Visits, ReadList(r) PROVE RateInv'
<1>1. /\ visit[r].pc = "append" /\ UNCHANGED <<time, entry, requests>>
      /\ visit' = [visit EXCEPT ![r] = [visit[r] EXCEPT !.pc = "extend",
                                                      !.list = requests[visit[r].info]]]
  BY DEF ReadList, Proceed
<1>2. InProgress(r) /\ visit[r].pc # "lookup" /\ "extend" \in VisitPoints
  BY <1>1 DEF InProgress, VisitPoints
<1>3. /\ requests[visit[r].info] \in SUBSET Visits
      /\ requests[visit[r].info] \subseteq Passed
      /\ requests[visit[r].info] \subseteq Since(r)
  BY <1>1, <1>2, ListsInPeriod
<1>4. /\ entry' \in Visits \cup {Nobody} /\ requests' \in [Visits -> SUBSET Visits]
      /\ \A s \in Visits : requests'[s] \subseteq Passed
      /\ \A s \in Visits : s # r /\ visit[s].pc \in {"check", "append"} =>
            requests'[visit[s].info] \subseteq Since(s)
  BY <1>1 DEF RateInv
<1> DEFINE read == requests[visit[r].info]
<1>5. /\ read \in SUBSET Visits /\ read \subseteq Passed /\ read \subseteq Since(r)
      /\ visit' = [visit EXCEPT ![r] = [visit[r] EXCEPT !.pc = "extend", !.list = read]]
      /\ time' = time
  BY <1>1, <1>3
<1> HIDE DEF read
<1> QED BY <1>2, <1>4, <1>5, StepKeepsInv

\* The request appended, or another that appends to the same slice: let through
\* and of the period.
LEMMA ExtendKeepsInv ==
    ASSUME RateInv, NEW r \in Visits, Extend(r) PROVE RateInv'
<1>1. PICK o \in {r} \cup {u \in Visits : visit[u].pc = "extend"
                                         /\ visit[u].info = visit[r].info
                                         /\ visit[u].list = visit[r].list} :
         requests' = [requests EXCEPT ![visit[r].info] = visit[r].list \cup {o}]
  BY DEF Extend
<1>2. /\ visit[r].pc = "extend" /\ UNCHANGED <<time, entry>>
      /\ visit' = [visit EXCEPT ![r] = [visit[r] EXCEPT !.pc = "accepted", !.list = {}]]
  BY DEF Extend, Proceed
<1> DEFINE new == visit[r].list \cup {o}
<1>3. /\ o \in Visits /\ visit[o].pc = "extend" /\ InProgress(o) /\ o \in Passed
      /\ InProgress(r) /\ visit[r].pc # "lookup" /\ "accepted" \in VisitPoints
  BY <1>1, <1>2 DEF InProgress, Passed, VisitPoints
<1>4. new \subseteq Visits /\ new \subseteq Passed /\ new \subseteq Since(r)
  <2>1. visit[r].list \subseteq Visits /\ visit[r].list \subseteq Passed
    BY DEF RateInv, Visit
  <2>2. visit[r].list \subseteq Since(r) /\ o \in Since(r)
    BY <1>2, <1>3, ListsInPeriod
  <2> QED BY <1>3, <2>1, <2>2
<1>5. requests' = [requests EXCEPT ![visit[r].info] = new]
  BY <1>1
<1> HIDE DEF new
<1>6. /\ entry' \in Visits \cup {Nobody} /\ requests' \in [Visits -> SUBSET Visits]
      /\ \A s \in Visits : requests'[s] = requests[s] \/ requests'[s] = new
  BY <1>2, <1>3, <1>4, <1>5, ListsInPeriod DEF RateInv
<1>7. \A s \in Visits : requests'[s] \subseteq Passed
  BY <1>3, <1>4, <1>6, ListsInPeriod
<1>8. ASSUME NEW s \in Visits, s # r, visit[s].pc \in {"check", "append"}
      PROVE  requests'[visit[s].info] \subseteq Since(s)
  <2>1. requests[visit[s].info] \subseteq Since(s) /\ Since(s) = Since(r)
    BY <1>3, <1>8, ListsInPeriod
  <2>2. visit[s].info \in Visits
    BY <1>8 DEF RateInv
  <2> QED BY <1>4, <1>6, <2>1, <2>2
<1> DEFINE nothing == {}
<1>9. /\ nothing \in SUBSET Visits /\ nothing \subseteq Passed /\ time' = time
      /\ visit' = [visit EXCEPT ![r] = [visit[r] EXCEPT !.pc = "accepted", !.list = nothing]]
      /\ \A s \in Visits : s # r /\ visit[s].pc \in {"check", "append"} =>
            requests'[visit[s].info] \subseteq Since(s)
  BY <1>2, <1>8
<1> HIDE DEF nothing
<1> QED BY <1>3, <1>6, <1>7, <1>9, StepKeepsInv

LEMMA RateInvariant == RateSpec => []RateInv
<1>1. RateInit => RateInv
  <2> SUFFICES ASSUME RateInit PROVE RateInv
    OBVIOUS
  <2>1. NoVisit \in Visit
    BY DEF NoVisit, Visit, VisitPoints
  <2>2. /\ visit = [r \in Visits |-> NoVisit] /\ requests = [r \in Visits |-> {}]
        /\ time = 0 /\ entry = Nobody
    BY DEF RateInit
  <2>3. \A r \in Visits : visit[r].pc = "none" /\ visit[r].list = {} /\ requests[r] = {}
    BY <2>2 DEF NoVisit
  <2> QED BY <2>1, <2>2, <2>3 DEF RateInv, InProgress, RefusalIsJustified
<1>2. RateInv /\ [RateNext]_rateVars => RateInv'
  <2> SUFFICES ASSUME RateInv, [RateNext]_rateVars PROVE RateInv'
    OBVIOUS
  <2>1. CASE TimePasses
    <3>1. time' = time + 1 /\ UNCHANGED <<entry, requests, visit>>
      BY <2>1 DEF TimePasses
    <3>2. \A r \in Visits : visit[r].now \in Nat
      BY DEF RateInv, Visit
    <3> QED BY <3>1, <3>2 DEF RateInv, InProgress, Passed, Since, RefusalIsJustified
  <2>2. ASSUME NEW r \in Visits, MapCollision(r) PROVE RateInv'
    BY <2>2 DEF MapCollision, RateInv, InProgress, Passed, Since, RefusalIsJustified
  <2>3. CASE UNCHANGED rateVars
    BY <2>3 DEF rateVars, RateInv, InProgress, Passed, Since, RefusalIsJustified
  <2> QED BY <2>1, <2>2, <2>3, ArriveKeepsInv, LookUpKeepsInv, InsertKeepsInv, TrimKeepsInv, WriteKeepsInv,
             CheckKeepsInv, ReadKeepsInv, ExtendKeepsInv DEF RateNext
<1> QED BY <1>1, <1>2, PTL DEF RateSpec

\* However many requests of a client run at once, none of them is refused unless
\* maxRequests were let through in the window of the period it belongs to.
THEOREM RefusalsAreJustified == RateSpec => []RefusalIsJustified
<1>1. RateInv => RefusalIsJustified
  BY DEF RateInv
<1> QED BY <1>1, RateInvariant, PTL

RateBounds == time \in 0..MaxNow /\ killed \in BOOLEAN

LEMMA RateTypes == RateSpec => []RateTypeOK
<1>1. RateInit => RateBounds
  <2> SUFFICES ASSUME RateInit PROVE RateBounds
    OBVIOUS
  <2>1. time \in 0..MaxNow
    BY RateAssumption DEF RateInit
  <2>2. killed \in BOOLEAN
    BY Zenon DEF RateInit
  <2> QED BY <2>1, <2>2, Zenon DEF RateBounds
<1>2. RateBounds /\ [RateNext]_rateVars => RateBounds'
  <2> SUFFICES ASSUME RateBounds, [RateNext]_rateVars PROVE RateBounds'
    OBVIOUS
  <2>1. /\ time' = time \/ (time < MaxNow /\ time' = time + 1)
        /\ killed' = killed \/ killed' = TRUE
    BY DEF RateNext, rateVars, TimePasses, Arrive, LookUp, InsertClient, MapCollision, Trim, WriteTrimmed,
           Check, ReadList, Extend, Proceed
  <2>2. time' \in 0..MaxNow
    <3>1. time \in 0..MaxNow /\ MaxNow \in Nat
      BY RateAssumption DEF RateBounds
    <3> QED BY <2>1, <3>1
  <2>3. killed' \in BOOLEAN
    BY <2>1, Zenon DEF RateBounds
  <2> QED BY <2>2, <2>3, Zenon DEF RateBounds
<1>3. RateInv /\ RateBounds => RateTypeOK
  BY DEF RateInv, RateTypeOK, RateBounds, Passed
<1> QED BY <1>1, <1>2, <1>3, RateInvariant, PTL DEF RateSpec

-----------------------------------------------------------------------------
(* Cache.                                                                  *)

\* A getter that has found an item has an expiry in its hands; what it is about
\* to delete has been expired ever since it looked.
FoundInv ==
    \A g \in Getters :
        /\ getter[g].pc \in {"found", "stale"} => getter[g].item \in Expiries
        /\ getter[g].pc = "stale" => getter[g].item # Forever /\ clock > getter[g].item

CacheInv == CacheTypeOK /\ FoundInv

LEMMA CacheTypes ==
    ASSUME CacheTypeOK
    PROVE  /\ Capacity \in Nat /\ Capacity > 0
           /\ clock \in Nat
           /\ Forever \notin Nat /\ NoItem \notin Expiries
           /\ IsFiniteSet(Cached) /\ Cached \subseteq Keys /\ Cardinality(Cached) \in Nat
           /\ IdleGetter \in Getter
           /\ \A g \in Getters : /\ getter[g] \in Getter
                                 /\ getter[g].key \in Keys \cup {NoItem}
                                 /\ getter[g].item \in Expiries \cup {NoItem}
                                 /\ getter[g].loads \in BOOLEAN
<1>1. Capacity \in Nat /\ Capacity > 0
  BY CacheAssumption DEF Capacity
<1>2. clock \in Nat
  BY CacheAssumption DEF CacheTypeOK, Clock
<1>3. Forever \notin Nat /\ NoItem \notin Expiries
  BY CacheAssumption DEF Expiries
<1>4. IsFiniteSet(Cached) /\ Cached \subseteq Keys /\ Cardinality(Cached) \in Nat
  <2>1. Cached \subseteq Keys
    BY DEF Cached
  <2> QED BY <2>1, CacheAssumption, FS_Subset, FS_CardinalityType
<1>5. IdleGetter \in Getter
  BY DEF IdleGetter, Getter
<1>6. \A g \in Getters : getter[g] \in Getter
  BY DEF CacheTypeOK
<1> QED BY <1>1, <1>2, <1>3, <1>4, <1>5, <1>6 DEF Getter

\* What Set does keeps the map within its size, and takes one item at most.
LEMMA PutKeepsSize ==
    ASSUME CacheTypeOK, NEW k \in Keys, NEW ttl \in TTLs, Put(k, ttl)
    PROVE  /\ cached' \in [Keys -> Expiries \cup {NoItem}]
           /\ Cardinality(Cached') <= Capacity
           /\ dropped' \subseteq Keys
           /\ \A j \in Keys : j \in Cached /\ cached'[j] = NoItem =>
                 Cardinality(Cached) >= Capacity /\ k \notin Cached /\ cached'[k] # NoItem
<1>1. PICK gone \in SUBSET Cached :
         /\ Cardinality(gone) = IF k \notin Cached /\ Cardinality(Cached) >= Capacity THEN 1 ELSE 0
         /\ cached' = [j \in Keys |-> IF j = k THEN ExpiryOf(ttl)
                                      ELSE IF j \in gone THEN NoItem ELSE cached[j]]
         /\ dropped' = dropped \ {k}
  BY DEF Put
<1>2. ExpiryOf(ttl) \in Expiries /\ ExpiryOf(ttl) # NoItem
  BY CacheTypes, CacheAssumption DEF ExpiryOf, Expiries
<1>3. cached' \in [Keys -> Expiries \cup {NoItem}]
  BY <1>1, <1>2 DEF CacheTypeOK
<1>4. Cached' = (Cached \ gone) \cup {k}
  BY <1>1, <1>2 DEF Cached
<1>5. /\ IsFiniteSet(gone) /\ (gone = {} <=> Cardinality(gone) = 0)
      /\ IsFiniteSet(Cached \ gone)
      /\ Cardinality(Cached \ gone) = Cardinality(Cached) - Cardinality(gone)
  <2>1. IsFiniteSet(gone) /\ Cached \cap gone = gone
    BY CacheTypes, FS_Subset
  <2> QED BY <2>1, CacheTypes, FS_EmptySet, FS_Difference
<1>6. Cardinality(Cached') <= Capacity
  <2> DEFINE left == Cached \ gone
  <2>1. IsFiniteSet(left) /\ Cached' = left \cup {k}
    BY <1>4, <1>5
  <2> HIDE DEF left
  <2>2. Cardinality(Cached') = IF k \in left THEN Cardinality(left) ELSE Cardinality(left) + 1
    BY <2>1, FS_AddElement
  <2>3. Cardinality(left) = Cardinality(Cached) - Cardinality(gone)
    BY <1>5 DEF left
  <2>4. CASE k \in Cached
    <3>1. gone = {} /\ k \in left
      BY <1>1, <1>5, <2>4 DEF left
    <3> QED BY <1>1, <2>2, <2>3, <2>4, <3>1, CacheTypes DEF CacheTypeOK
  <2>5. CASE k \notin Cached
    BY <1>1, <2>2, <2>3, <2>5, CacheTypes DEF CacheTypeOK, left
  <2> QED BY <2>4, <2>5
<1>7. ASSUME NEW j \in Keys, j \in Cached, cached'[j] = NoItem
      PROVE  Cardinality(Cached) >= Capacity /\ k \notin Cached /\ cached'[k] # NoItem
  <2>1. cached'[k] # NoItem
    BY <1>1, <1>2
  <2>2. j \in gone
    BY <1>1, <1>7, <2>1 DEF Cached
  <2> QED BY <1>1, <1>5, <2>1, <2>2
<1> QED BY <1>1, <1>3, <1>6, <1>7 DEF CacheTypeOK

\* A map that has lost items is within its size.
LEMMA FewerItems ==
    ASSUME CacheTypeOK, cached' \in [Keys -> Expiries \cup {NoItem}],
           \A k \in Keys : cached[k] = NoItem => cached'[k] = NoItem
    PROVE  Cardinality(Cached') <= Capacity
<1>1. Cached' \subseteq Cached
  BY DEF Cached
<1>2. Cardinality(Cached') \in Nat /\ Cardinality(Cached') <= Cardinality(Cached)
  BY <1>1, CacheTypes, FS_Subset, FS_CardinalityType
<1> QED BY <1>2, CacheTypes DEF CacheTypeOK

\* A getter goes from one point to another.
LEMMA GetterMoves ==
    ASSUME CacheInv, NEW g \in Getters, NEW new \in Getter,
           getter' = [getter EXCEPT ![g] = new], clock' = clock,
           cached' \in [Keys -> Expiries \cup {NoItem}], dropped' \subseteq Keys,
           Cardinality(Cached') <= Capacity,
           new.pc # "idle" => new.key \in Keys,
           new.pc \in {"found", "stale"} => new.item \in Expiries,
           new.pc = "stale" => new.item # Forever /\ clock > new.item
    PROVE  CacheInv'
<1>1. getter'[g] = new /\ \A h \in Getters : h # g => getter'[h] = getter[h]
  BY DEF CacheInv, CacheTypeOK
<1>2. Capacity' = Capacity
  BY DEF Capacity
<1>3. CacheTypeOK'
  BY <1>1, <1>2 DEF CacheInv, CacheTypeOK
<1>4. FoundInv'
  BY <1>1 DEF CacheInv, FoundInv
<1> QED BY <1>3, <1>4 DEF CacheInv

LEMMA GetKeepsInv ==
    ASSUME CacheInv, NEW g \in Getters,
           \/ \E k \in Keys, loads \in BOOLEAN : FindItem(g, k, loads)
           \/ CheckExpiry(g)
           \/ EraseStale(g)
           \/ \E ttl \in TTLs : SetLoaded(g, ttl)
           \/ LoaderFails(g)
    PROVE  CacheInv'
<1>0. CacheTypeOK /\ FoundInv
  BY DEF CacheInv
<1>1. ASSUME NEW k \in Keys, NEW loads \in BOOLEAN, FindItem(g, k, loads) PROVE CacheInv'
  <2> DEFINE new == [pc |-> IF k \in Cached THEN "found" ELSE "load",
                     key |-> k, item |-> cached[k], loads |-> loads]
  <2>1. cached[k] \in Expiries \cup {NoItem} /\ (k \in Cached => cached[k] \in Expiries)
    BY <1>0 DEF CacheTypeOK, Cached
  <2>2. /\ new \in Getter /\ new.key \in Keys /\ new.pc # "stale"
        /\ new.pc = "found" => new.item \in Expiries
    BY <2>1 DEF Getter
  <2>3. getter' = [getter EXCEPT ![g] = new] /\ UNCHANGED <<cached, clock, dropped>>
    BY <1>1 DEF FindItem
  <2> HIDE DEF new
  <2>4. cached' \in [Keys -> Expiries \cup {NoItem}] /\ dropped' \subseteq Keys
        /\ Cardinality(Cached') <= Capacity
    BY <1>0, <2>3, FewerItems DEF CacheTypeOK
  <2> QED BY <2>2, <2>3, <2>4, GetterMoves
<1>2. ASSUME getter[g].pc = "found" \/ getter[g].pc = "load",
             getter' = [getter EXCEPT ![g] = IdleGetter], clock' = clock,
             cached' \in [Keys -> Expiries \cup {NoItem}], dropped' \subseteq Keys,
             Cardinality(Cached') <= Capacity
      PROVE  CacheInv'
  <2>1. IdleGetter \in Getter /\ IdleGetter.pc = "idle"
    BY <1>0, CacheTypes DEF IdleGetter
  <2> QED BY <1>2, <2>1, GetterMoves
<1>3. UNCHANGED <<cached, dropped>> =>
         /\ cached' \in [Keys -> Expiries \cup {NoItem}] /\ dropped' \subseteq Keys
         /\ Cardinality(Cached') <= Capacity
  BY <1>0, FewerItems DEF CacheTypeOK
<1>4. CASE CheckExpiry(g)
  <2>1. CASE IsExpired(getter[g].item)
    <3> DEFINE new == [getter[g] EXCEPT !.pc = "stale"]
    <3>1. /\ getter[g] \in Getter /\ getter[g].key \in Keys /\ getter[g].item \in Expiries
          /\ getter[g].item # Forever /\ clock > getter[g].item
      BY <1>0, <1>4, <2>1, CacheTypes DEF CheckExpiry, CacheTypeOK, FoundInv, IsExpired
    <3>2. new \in Getter /\ new.key = getter[g].key /\ new.item = getter[g].item
      BY <3>1 DEF Getter
    <3>3. getter' = [getter EXCEPT ![g] = new] /\ UNCHANGED <<cached, clock, dropped>>
      BY <1>4, <2>1 DEF CheckExpiry
    <3> HIDE DEF new
    <3> QED BY <1>3, <3>1, <3>2, <3>3, GetterMoves
  <2>2. CASE ~IsExpired(getter[g].item)
    BY <1>2, <1>3, <1>4, <2>2 DEF CheckExpiry
  <2> QED BY <2>1, <2>2
<1>5. CASE EraseStale(g)
  <2> DEFINE new == Miss(g)
  <2>1. getter[g] \in Getter /\ getter[g].key \in Keys
    BY <1>0, <1>5, CacheTypes DEF EraseStale, CacheTypeOK
  <2>2. /\ new \in Getter /\ new.pc \in {"idle", "load"}
        /\ new.pc = "load" => new.key \in Keys
    <3>1. CASE getter[g].loads
      BY <2>1, <3>1 DEF Miss, Getter
    <3>2. CASE ~getter[g].loads
      BY <1>0, <3>2, CacheTypes DEF Miss, IdleGetter
    <3> QED BY <3>1, <3>2
  <2>3. /\ cached' = [cached EXCEPT ![getter[g].key] = NoItem]
        /\ getter' = [getter EXCEPT ![g] = new] /\ UNCHANGED <<clock, dropped>>
    BY <1>5 DEF EraseStale
  <2> HIDE DEF new
  <2>4. cached' \in [Keys -> Expiries \cup {NoItem}] /\ dropped' \subseteq Keys
        /\ Cardinality(Cached') <= Capacity
    <3>1. cached' \in [Keys -> Expiries \cup {NoItem}] /\ dropped' \subseteq Keys
      BY <1>0, <2>1, <2>3 DEF CacheTypeOK
    <3>2. \A k \in Keys : cached[k] = NoItem => cached'[k] = NoItem
      BY <1>0, <2>1, <2>3 DEF CacheTypeOK
    <3> QED BY <1>0, <3>1, <3>2, FewerItems
  <2> QED BY <2>2, <2>3, <2>4, GetterMoves
<1>6. ASSUME NEW ttl \in TTLs, SetLoaded(g, ttl) PROVE CacheInv'
  <2>1. getter[g].key \in Keys /\ Put(getter[g].key, ttl)
    BY <1>0, <1>6 DEF SetLoaded, CacheTypeOK
  <2> QED BY <1>0, <1>2, <1>6, <2>1, PutKeepsSize DEF SetLoaded
<1>7. CASE LoaderFails(g)
  BY <1>2, <1>3, <1>7 DEF LoaderFails
<1> QED BY <1>1, <1>4, <1>5, <1>6, <1>7

LEMMA CacheInvariant == CacheSpec => []CacheInv
<1>1. CacheInit => CacheInv
  <2> SUFFICES ASSUME CacheInit PROVE CacheInv
    OBVIOUS
  <2>1. Cached = {}
    BY DEF CacheInit, Cached
  <2>2. Capacity \in Nat /\ 0 \in Clock
    BY CacheAssumption DEF Capacity, Clock
  <2>3. IdleGetter \in Getter /\ IdleGetter.pc = "idle"
    BY DEF IdleGetter, Getter
  <2>4. CacheTypeOK
    BY <2>1, <2>2, <2>3, FS_EmptySet DEF CacheInit, CacheTypeOK
  <2>5. FoundInv
    BY <2>3 DEF CacheInit, FoundInv
  <2> QED BY <2>4, <2>5 DEF CacheInv
<1>2. CacheInv /\ [CacheNext]_cacheVars => CacheInv'
  <2> SUFFICES ASSUME CacheInv, [CacheNext]_cacheVars PROVE CacheInv'
    OBVIOUS
  <2>0. CacheTypeOK /\ FoundInv
    BY DEF CacheInv
  <2>1. ASSUME cached' \in [Keys -> Expiries \cup {NoItem}], dropped' \subseteq Keys,
               Cardinality(Cached') <= Capacity, UNCHANGED <<clock, getter>>
        PROVE  CacheInv'
    <3>1. Capacity' = Capacity
      BY DEF Capacity
    <3> QED BY <2>0, <2>1, <3>1 DEF CacheInv, CacheTypeOK, FoundInv
  <2>2. ASSUME cached' \in [Keys -> Expiries \cup {NoItem}], dropped' \subseteq Keys,
               \A k \in Keys : cached[k] = NoItem => cached'[k] = NoItem,
               UNCHANGED <<clock, getter>>
        PROVE  CacheInv'
    BY <2>0, <2>1, <2>2, FewerItems
  <2>3. CASE ClockTicks
    <3>1. clock' \in Clock /\ clock' = clock + 1 /\ UNCHANGED <<cached, dropped, getter>>
      BY <2>0, <2>3, CacheAssumption DEF ClockTicks, CacheTypeOK, Clock
    <3>2. Cached' = Cached /\ Capacity' = Capacity
      BY <3>1 DEF Cached, Capacity
    <3>3. CacheTypeOK'
      BY <2>0, <3>1, <3>2 DEF CacheTypeOK
    <3>4. \A g \in Getters : getter[g].pc = "stale" => getter[g].item \in Nat
      BY <2>0 DEF FoundInv, Expiries
    <3>5. FoundInv'
      BY <2>0, <3>1, <3>4, CacheTypes DEF FoundInv
    <3> QED BY <3>3, <3>5 DEF CacheInv
  <2>4. ASSUME NEW k \in Keys, NEW ttl \in TTLs, Set(k, ttl) PROVE CacheInv'
    BY <2>0, <2>1, <2>4, PutKeepsSize DEF Set
  <2>5. ASSUME NEW k \in Keys, Erase(k) PROVE CacheInv'
    BY <2>0, <2>2, <2>5 DEF Erase, CacheTypeOK
  <2>6. CASE Clear
    BY <2>0, <2>2, <2>6 DEF Clear
  <2>7. CASE EraseExpired
    BY <2>0, <2>2, <2>7 DEF EraseExpired, CacheTypeOK
  <2>8. CASE UNCHANGED cacheVars
    BY <2>0, <2>2, <2>8 DEF cacheVars, CacheTypeOK
  <2> QED BY <2>3, <2>4, <2>5, <2>6, <2>7, <2>8, GetKeepsInv DEF CacheNext
<1> QED BY <1>1, <1>2, PTL DEF CacheSpec

\* With any number of getters, an item that is not expired is lost only to a call
\* that deletes it, to a new key in a full cache, or to a Get that has seen an
\* expired item of the same key.
THEOREM LossesAreExplained == CacheSpec => OnlyStaleGetsLose
<1>1. CacheInv /\ [CacheNext]_cacheVars =>
        [\A k \in Keys :
            k \in Cached /\ ~IsExpired(cached[k]) /\ cached'[k] = NoItem =>
               \/ k \in dropped'
               \/ /\ Cardinality(Cached) >= Capacity
                  /\ \E j \in Keys : j \notin Cached /\ cached'[j] # NoItem
               \/ \E g \in Getters : getter[g].key = k /\ getter[g].pc = "stale"
                                     /\ getter[g].item # Forever
                                     /\ clock > getter[g].item]_cacheVars
  <2> SUFFICES ASSUME CacheInv, CacheNext, NEW k \in Keys,
                      k \in Cached, ~IsExpired(cached[k]), cached'[k] = NoItem
               PROVE  \/ k \in dropped'
                      \/ /\ Cardinality(Cached) >= Capacity
                         /\ \E j \in Keys : j \notin Cached /\ cached'[j] # NoItem
                      \/ \E g \in Getters : getter[g].key = k /\ getter[g].pc = "stale"
                                            /\ getter[g].item # Forever
                                            /\ clock > getter[g].item
    OBVIOUS
  <2>0. CacheTypeOK /\ FoundInv /\ cached[k] # NoItem
    BY DEF CacheInv, Cached
  <2>1. ASSUME NEW j \in Keys, NEW ttl \in TTLs, Put(j, ttl)
        PROVE  Cardinality(Cached) >= Capacity /\ j \notin Cached /\ cached'[j] # NoItem
    BY <2>0, <2>1, PutKeepsSize
  <2>2. CASE ClockTicks \/ EraseExpired
    BY <2>0, <2>2 DEF ClockTicks, EraseExpired
  <2>3. ASSUME NEW j \in Keys, Erase(j) PROVE k \in dropped'
    BY <2>0, <2>3 DEF Erase, CacheTypeOK
  <2>4. CASE Clear
    BY <2>4 DEF Clear
  <2>5. ASSUME NEW j \in Keys, NEW ttl \in TTLs, Set(j, ttl)
        PROVE  Cardinality(Cached) >= Capacity /\ j \notin Cached /\ cached'[j] # NoItem
    BY <2>1, <2>5 DEF Set
  <2>6. ASSUME NEW g \in Getters, NEW ttl \in TTLs, SetLoaded(g, ttl)
        PROVE  Cardinality(Cached) >= Capacity
               /\ \E j \in Keys : j \notin Cached /\ cached'[j] # NoItem
    <3>1. getter[g].key \in Keys /\ Put(getter[g].key, ttl)
      BY <2>0, <2>6 DEF SetLoaded, CacheTypeOK
    <3> QED BY <2>1, <3>1
  <2>7. ASSUME NEW g \in Getters, EraseStale(g)
        PROVE  getter[g].key = k /\ getter[g].pc = "stale" /\ getter[g].item # Forever
               /\ clock > getter[g].item
    BY <2>0, <2>7 DEF EraseStale, CacheTypeOK, FoundInv
  <2>8. ASSUME NEW g \in Getters,
               \/ \E j \in Keys, loads \in BOOLEAN : FindItem(g, j, loads)
               \/ CheckExpiry(g)
               \/ LoaderFails(g)
        PROVE  FALSE
    BY <2>0, <2>8 DEF FindItem, CheckExpiry, LoaderFails
  <2> QED BY <2>2, <2>3, <2>4, <2>5, <2>6, <2>7, <2>8 DEF CacheNext
<1> QED BY <1>1, CacheInvariant, PTL DEF CacheSpec, OnlyStaleGetsLose

-----------------------------------------------------------------------------
(* Metrics.                                                                *)

\* Names have counters of their own, none that has yet to be made; who has left
\* the critical section of IncrCounter finds the counter, and keeps it.
CounterInv ==
    /\ \A n \in CounterNames : customMetrics[n] # NoCounter => customMetrics[n] <= came
    /\ \A m, n \in CounterNames :
          customMetrics[m] = customMetrics[n] /\ customMetrics[m] # NoCounter => m = n
    /\ \A c \in Counters : c > came => value[c] = 0
    /\ \A r \in Recorders :
          /\ recorder[r].pc \in {"read", "add"} =>
                recorder[r].name \in CounterNames /\ customMetrics[recorder[r].name] # NoCounter
          /\ recorder[r].pc = "add" => recorder[r].counter = customMetrics[recorder[r].name]

\* As long as no Reset has overlapped with a RecordRequest: while a Reset runs no
\* request is half recorded, and what the Reset is past is 0.
RequestInv ==
    /\ IsFiniteSet(Recording)
    /\ ~disturbed /\ Resetting # {} =>
          /\ Recording = {} /\ total = 0
          /\ \A r \in Recorders : recorder[r].pc = "failed" => successful = 0

MetricsInv == MetricsTypeOK /\ CounterInv /\ RequestInv /\ CountsAgree

LEMMA RecorderTypes ==
    ASSUME MetricsTypeOK
    PROVE  /\ NoCounter \notin Nat /\ NoCounter \notin Counters /\ Counters \subseteq Nat
           /\ \A r \in Recorders : /\ recorder[r] \in Recorder
                                   /\ recorder[r].name \in CounterNames \cup {NoCounter}
                                   /\ recorder[r].counter \in Counters \cup {NoCounter}
           /\ \A p \in RecorderPoints :
                 /\ [IdleRecorder EXCEPT !.pc = p] \in Recorder
                 /\ [IdleRecorder EXCEPT !.pc = p].pc = p
           /\ IdleRecorder \in Recorder /\ IdleRecorder.pc = "idle"
<1>1. NoCounter \notin Nat /\ NoCounter \notin Counters /\ Counters \subseteq Nat
  BY MetricsAssumption DEF Counters
<1>2. \A r \in Recorders : recorder[r] \in Recorder
  BY DEF MetricsTypeOK
<1>3. IdleRecorder \in Recorder /\ IdleRecorder.pc = "idle"
  BY DEF IdleRecorder, Recorder, RecorderPoints
<1>4. \A p \in RecorderPoints : /\ [IdleRecorder EXCEPT !.pc = p] \in Recorder
                                /\ [IdleRecorder EXCEPT !.pc = p].pc = p
  BY DEF IdleRecorder, Recorder
<1> QED BY <1>1, <1>2, <1>3, <1>4 DEF Recorder

\* What a step of recorder r does to the sets of those who record and reset.
LEMMA GoesFacts ==
    ASSUME MetricsInv, NEW r \in Recorders, NEW from, NEW to \in Recorder, Goes(r, from, to)
    PROVE  /\ recorder[r].pc = from /\ recorder'[r] = to
           /\ \A s \in Recorders : s # r => recorder'[s] = recorder[s]
           /\ recorder' \in [Recorders -> Recorder]
           /\ Recording' = IF to.pc = "record" THEN Recording \cup {r} ELSE Recording \ {r}
           /\ Resetting' = IF to.pc \in {"successful", "failed"} THEN Resetting \cup {r}
                                                                ELSE Resetting \ {r}
           /\ r \in Recording <=> from = "record"
           /\ r \in Resetting <=> from \in {"successful", "failed"}
           /\ IsFiniteSet(Recording') /\ Cardinality(Recording) \in Nat
<1>1. /\ recorder[r].pc = from /\ recorder' = [recorder EXCEPT ![r] = to]
      /\ recorder \in [Recorders -> Recorder]
  BY DEF Goes, MetricsInv, MetricsTypeOK
<1>2. /\ recorder'[r] = to /\ \A s \in Recorders : s # r => recorder'[s] = recorder[s]
      /\ recorder' \in [Recorders -> Recorder]
  BY <1>1
<1>3. /\ Recording' = IF to.pc = "record" THEN Recording \cup {r} ELSE Recording \ {r}
      /\ r \in Recording <=> from = "record"
  BY <1>1, <1>2 DEF Recording
<1>4. /\ Resetting' = IF to.pc \in {"successful", "failed"} THEN Resetting \cup {r}
                                                           ELSE Resetting \ {r}
      /\ r \in Resetting <=> from \in {"successful", "failed"}
  BY <1>1, <1>2 DEF Resetting
<1>5. IsFiniteSet(Recording)
  BY DEF MetricsInv, RequestInv
<1>6. IsFiniteSet(Recording') /\ Cardinality(Recording) \in Nat
  BY <1>3, <1>5, FS_AddElement, FS_RemoveElement, FS_CardinalityType
<1> QED BY <1>1, <1>2, <1>3, <1>4, <1>6

\* A step that concerns the requests only.
LEMMA CustomUntouched ==
    ASSUME MetricsInv, NEW r \in Recorders, NEW from, NEW to \in Recorder, Goes(r, from, to),
           UNCHANGED customVars, came' \in 0..MaxCount, came' >= came,
           to.pc \notin {"read", "add"}
    PROVE  CounterInv' /\ \A name \in CounterNames : GetCounter(name)' = added'[name]
<1>1. CounterInv /\ \A name \in CounterNames : GetCounter(name) = added[name]
  BY DEF MetricsInv, CountsAgree
<1>2. UNCHANGED <<customMetrics, value, added>> /\ came \in Nat /\ came' \in Nat
  BY MetricsAssumption DEF customVars, MetricsInv, MetricsTypeOK
<1>3. \A c \in Counters : c \in Nat
  BY DEF Counters
<1>4. \A n \in CounterNames : customMetrics[n] # NoCounter => customMetrics[n] \in Nat
  BY <1>3 DEF MetricsInv, MetricsTypeOK
<1>5. CounterInv'
  BY <1>1, <1>2, <1>3, <1>4, GoesFacts DEF CounterInv
<1> QED BY <1>1, <1>2, <1>5 DEF GetCounter

LEMMA RecordKeepsInv ==
    ASSUME MetricsInv, NEW r \in Recorders,
           CountRequest(r) \/ \E success \in BOOLEAN : CountOutcome(r, success)
    PROVE  MetricsInv'
<1>0. MetricsTypeOK /\ RequestInv /\ CountsAgree
  BY DEF MetricsInv
<1>1. CASE CountRequest(r)
  <2> DEFINE to == [IdleRecorder EXCEPT !.pc = "record"]
  <2>1. to \in Recorder /\ to.pc = "record"
    BY <1>0, RecorderTypes DEF RecorderPoints
  <2> HIDE DEF to
  <2>2. /\ Goes(r, "idle", to) /\ came' = came + 1 /\ came < MaxCount /\ total' = total + 1
        /\ disturbed' = (disturbed \/ Resetting # {})
        /\ UNCHANGED <<successful, failed, customVars, fatal>>
    BY <1>1 DEF CountRequest, to
  <2>3. came' \in 0..MaxCount /\ came' >= came
    BY <1>0, <2>2, MetricsAssumption DEF MetricsTypeOK
  <2>4. /\ Recording' = Recording \cup {r} /\ r \notin Recording /\ Resetting' = Resetting
        /\ recorder' \in [Recorders -> Recorder] /\ IsFiniteSet(Recording')
        /\ recorder'[r] = to /\ \A s \in Recorders : s # r => recorder'[s] = recorder[s]
    <3>1. Goes(r, "idle", to)
      BY <2>2
    <3>2. /\ Recording' = IF to.pc = "record" THEN Recording \cup {r} ELSE Recording \ {r}
          /\ Resetting' = IF to.pc \in {"successful", "failed"} THEN Resetting \cup {r}
                                                              ELSE Resetting \ {r}
          /\ r \in Recording <=> "idle" = "record"
          /\ r \in Resetting <=> "idle" \in {"successful", "failed"}
          /\ recorder'[r] = to /\ \A s \in Recorders : s # r => recorder'[s] = recorder[s]
          /\ recorder' \in [Recorders -> Recorder] /\ IsFiniteSet(Recording')
      BY <2>1, <3>1, GoesFacts
    <3>3. r \notin Recording /\ r \notin Resetting
      BY <3>2
    <3>4. Recording' = Recording \cup {r} /\ Resetting' = Resetting \ {r}
      BY <2>1, <3>2
    <3>5. Resetting' = Resetting
      BY <3>3, <3>4
    <3> QED BY <3>2, <3>3, <3>4, <3>5
  <2>5. CounterInv' /\ \A name \in CounterNames : GetCounter(name)' = added'[name]
    BY <2>1, <2>2, <2>3, CustomUntouched
  <2>6. MetricsTypeOK'
    BY <1>0, <2>1, <2>2, <2>3, <2>4 DEF MetricsTypeOK, customVars
  <2>7. RequestInv'
    BY <2>2, <2>4 DEF RequestInv
  <2>8. ~disturbed' /\ Resetting' = {} => total' = successful' + failed' + Cardinality(Recording')
    <3>1. Cardinality(Recording') = Cardinality(Recording) + 1 /\ Cardinality(Recording) \in Nat
      BY <1>0, <2>4, FS_AddElement, FS_CardinalityType DEF RequestInv
    <3> QED BY <1>0, <2>2, <2>4, <3>1 DEF CountsAgree, MetricsTypeOK
  <2> QED BY <2>5, <2>6, <2>7, <2>8 DEF MetricsInv, CountsAgree
<1>2. ASSUME NEW success \in BOOLEAN, CountOutcome(r, success) PROVE MetricsInv'
  <2>1. /\ Goes(r, "record", IdleRecorder)
        /\ successful' = IF success THEN successful + 1 ELSE successful
        /\ failed' = IF success THEN failed ELSE failed + 1
        /\ UNCHANGED <<total, disturbed, customVars, came, fatal>>
    BY <1>2 DEF CountOutcome
  <2>2. IdleRecorder \in Recorder /\ IdleRecorder.pc = "idle" /\ came' \in 0..MaxCount
        /\ came' >= came
    BY <1>0, <2>1, RecorderTypes, MetricsAssumption DEF MetricsTypeOK
  <2>3. /\ Recording' = Recording \ {r} /\ r \in Recording /\ Resetting' = Resetting
        /\ recorder' \in [Recorders -> Recorder] /\ IsFiniteSet(Recording')
        /\ recorder'[r] = IdleRecorder
        /\ \A s \in Recorders : s # r => recorder'[s] = recorder[s]
    BY <2>1, <2>2, GoesFacts
  <2>4. CounterInv' /\ \A name \in CounterNames : GetCounter(name)' = added'[name]
    BY <2>1, <2>2, CustomUntouched
  <2>5. successful' \in Nat /\ failed' \in Nat /\ successful' + failed' = successful + failed + 1
    BY <1>0, <2>1 DEF MetricsTypeOK
  <2>6. MetricsTypeOK'
    BY <1>0, <2>1, <2>2, <2>3, <2>5 DEF MetricsTypeOK, customVars
  <2>7. ~disturbed => Resetting = {}
    BY <1>0, <2>3 DEF RequestInv
  <2>8. RequestInv'
    BY <2>1, <2>3, <2>7 DEF RequestInv
  <2>9. ~disturbed' /\ Resetting' = {} => total' = successful' + failed' + Cardinality(Recording')
    <3>1. Cardinality(Recording') = Cardinality(Recording) - 1 /\ Cardinality(Recording) \in Nat
      BY <1>0, <2>3, FS_RemoveElement, FS_CardinalityType DEF RequestInv
    <3> QED BY <1>0, <2>1, <2>3, <2>5, <3>1 DEF CountsAgree, MetricsTypeOK
  <2> QED BY <2>4, <2>6, <2>8, <2>9 DEF MetricsInv, CountsAgree
<1> QED BY <1>1, <1>2

\* The steps of Reset that store 0 in the counters of the requests.
LEMMA ResetKeepsInv ==
    ASSUME MetricsInv, NEW r \in Recorders,
           ResetTotal(r) \/ ResetSuccessful(r) \/ ResetFailed(r)
    PROVE  MetricsInv'
<1>0. MetricsTypeOK /\ RequestInv /\ CountsAgree
  BY DEF MetricsInv
<1>1. ASSUME NEW from \in RecorderPoints, NEW to \in RecorderPoints,
             to \in {"successful", "failed", "custom"}, from # "record",
             Goes(r, from, [IdleRecorder EXCEPT !.pc = to]),
             total' \in Nat, successful' \in Nat, failed' \in Nat, disturbed' \in BOOLEAN,
             UNCHANGED <<customVars, came, fatal>>
      PROVE  /\ recorder[r].pc = from /\ recorder'[r].pc = to
             /\ \A s \in Recorders : s # r => recorder'[s] = recorder[s]
             /\ Recording' = Recording /\ IsFiniteSet(Recording')
             /\ Resetting' = IF to # "custom" THEN Resetting \cup {r} ELSE Resetting \ {r}
             /\ MetricsTypeOK' /\ CounterInv'
             /\ \A name \in CounterNames : GetCounter(name)' = added'[name]
  <2> DEFINE new == [IdleRecorder EXCEPT !.pc = to]
  <2>1. new \in Recorder /\ new.pc = to /\ came' \in 0..MaxCount /\ came' >= came
    BY <1>0, <1>1, RecorderTypes, MetricsAssumption DEF MetricsTypeOK
  <2> HIDE DEF new
  <2>2. Goes(r, from, new)
    BY <1>1 DEF new
  <2>3. CounterInv' /\ \A name \in CounterNames : GetCounter(name)' = added'[name]
    BY <1>1, <2>1, <2>2, CustomUntouched
  <2>4. /\ recorder[r].pc = from /\ recorder'[r] = new
        /\ \A s \in Recorders : s # r => recorder'[s] = recorder[s]
        /\ recorder' \in [Recorders -> Recorder]
        /\ Recording' = Recording /\ IsFiniteSet(Recording')
        /\ Resetting' = IF to # "custom" THEN Resetting \cup {r} ELSE Resetting \ {r}
    <3>1. /\ Recording' = IF new.pc = "record" THEN Recording \cup {r} ELSE Recording \ {r}
          /\ Resetting' = IF new.pc \in {"successful", "failed"} THEN Resetting \cup {r}
                                                               ELSE Resetting \ {r}
          /\ r \in Recording <=> from = "record"
          /\ recorder[r].pc = from /\ recorder'[r] = new
          /\ \A s \in Recorders : s # r => recorder'[s] = recorder[s]
          /\ recorder' \in [Recorders -> Recorder] /\ IsFiniteSet(Recording')
      BY <2>1, <2>2, GoesFacts
    <3>2. new.pc # "record" /\ (new.pc \in {"successful", "failed"} <=> to # "custom")
      BY <1>1, <2>1
    <3>3. r \notin Recording
      BY <1>1, <3>1
    <3>4. Recording' = Recording
      BY <3>1, <3>2, <3>3
    <3>5. Resetting' = IF to # "custom" THEN Resetting \cup {r} ELSE Resetting \ {r}
      BY <3>1, <3>2
    <3> QED BY <3>1, <3>4, <3>5
  <2>5. MetricsTypeOK'
    BY <1>0, <1>1, <2>1, <2>4 DEF MetricsTypeOK, customVars
  <2> QED BY <2>1, <2>3, <2>4, <2>5
<1>2. \A p \in {"idle", "record", "successful", "failed", "custom"} : p \in RecorderPoints
  BY DEF RecorderPoints
<1>3. CASE ResetTotal(r)
  <2>1. /\ Goes(r, "idle", [IdleRecorder EXCEPT !.pc = "successful"]) /\ total' = 0
        /\ disturbed' = (disturbed \/ Recording # {})
        /\ UNCHANGED <<successful, failed, customVars, came, fatal>>
        /\ successful' \in Nat /\ failed' \in Nat /\ disturbed' \in BOOLEAN
    BY <1>0, <1>3 DEF ResetTotal, MetricsTypeOK
  <2>2. /\ recorder[r].pc = "idle" /\ recorder'[r].pc = "successful"
        /\ \A s \in Recorders : s # r => recorder'[s] = recorder[s]
        /\ Recording' = Recording /\ IsFiniteSet(Recording') /\ r \in Resetting'
        /\ MetricsTypeOK' /\ CounterInv'
        /\ \A name \in CounterNames : GetCounter(name)' = added'[name]
    BY <1>1, <1>2, <2>1
  <2>3. \A s \in Recorders : recorder'[s].pc = "failed" => recorder[s].pc = "failed" /\ s \in Resetting
    BY <2>2 DEF Resetting
  <2>4. RequestInv'
    BY <1>0, <2>1, <2>2, <2>3 DEF RequestInv
  <2> QED BY <2>2, <2>4 DEF MetricsInv, CountsAgree
<1>4. CASE ResetSuccessful(r)
  <2>1. /\ Goes(r, "successful", [IdleRecorder EXCEPT !.pc = "failed"]) /\ successful' = 0
        /\ UNCHANGED <<total, failed, disturbed, customVars, came, fatal>>
        /\ total' \in Nat /\ failed' \in Nat /\ disturbed' \in BOOLEAN
    BY <1>0, <1>4 DEF ResetSuccessful, MetricsTypeOK
  <2>2. /\ recorder[r].pc = "successful"
        /\ Recording' = Recording /\ IsFiniteSet(Recording') /\ r \in Resetting'
        /\ MetricsTypeOK' /\ CounterInv'
        /\ \A name \in CounterNames : GetCounter(name)' = added'[name]
    BY <1>1, <1>2, <2>1
  <2>3. Resetting # {}
    BY <2>2 DEF Resetting
  <2>4. RequestInv'
    BY <1>0, <2>1, <2>2, <2>3 DEF RequestInv
  <2> QED BY <2>2, <2>4 DEF MetricsInv, CountsAgree
<1>5. CASE ResetFailed(r)
  <2>1. /\ Goes(r, "failed", [IdleRecorder EXCEPT !.pc = "custom"]) /\ failed' = 0
        /\ UNCHANGED <<total, successful, disturbed, customVars, came, fatal>>
        /\ total' \in Nat /\ successful' \in Nat /\ disturbed' \in BOOLEAN
    BY <1>0, <1>5 DEF ResetFailed, MetricsTypeOK
  <2>2. /\ recorder[r].pc = "failed" /\ recorder'[r].pc = "custom"
        /\ \A s \in Recorders : s # r => recorder'[s] = recorder[s]
        /\ Recording' = Recording /\ IsFiniteSet(Recording') /\ Resetting' \subseteq Resetting
        /\ MetricsTypeOK' /\ CounterInv'
        /\ \A name \in CounterNames : GetCounter(name)' = added'[name]
    BY <1>1, <1>2, <2>1
  <2>3. ~disturbed => Recording = {} /\ total = 0 /\ successful = 0
    <3>1. Resetting # {}
      BY <2>2 DEF Resetting
    <3> QED BY <1>0, <2>2, <3>1 DEF RequestInv
  <2>4. RequestInv'
    BY <1>0, <2>1, <2>2, <2>3 DEF RequestInv
  <2>5. ~disturbed' => total' = successful' + failed' + Cardinality(Recording')
    BY <2>1, <2>2, <2>3, FS_EmptySet
  <2> QED BY <2>2, <2>4, <2>5 DEF MetricsInv, CountsAgree
<1> QED BY <1>3, <1>4, <1>5

\* A step that concerns the custom counters only.
LEMMA RequestsUntouched ==
    ASSUME MetricsInv, NEW r \in Recorders, NEW from, NEW to \in Recorder, Goes(r, from, to),
           UNCHANGED requestVars,
           from \notin {"record", "successful", "failed"},
           to.pc \notin {"record", "successful", "failed"}
    PROVE  /\ RequestInv'
           /\ ~disturbed' /\ Resetting' = {} =>
                 total' = successful' + failed' + Cardinality(Recording')
<1>1. UNCHANGED <<total, successful, failed, disturbed>>
  BY DEF requestVars
<1>2. /\ Recording' = Recording /\ Resetting' = Resetting /\ IsFiniteSet(Recording')
      /\ recorder'[r] = to /\ \A s \in Recorders : s # r => recorder'[s] = recorder[s]
  BY GoesFacts
<1> QED BY <1>1, <1>2 DEF MetricsInv, RequestInv, CountsAgree

LEMMA CustomKeepsInv ==
    ASSUME MetricsInv, NEW r \in Recorders,
           \/ \E name \in CounterNames : MakeCounter(r, name)
           \/ ReadCounter(r) \/ AddToCounter(r) \/ ResetCustom(r)
    PROVE  MetricsInv'
<1>0. MetricsTypeOK /\ CounterInv /\ CountsAgree
  BY DEF MetricsInv
<1>a. /\ customMetrics \in [CounterNames -> Counters \cup {NoCounter}]
      /\ value \in [Counters -> Nat] /\ added \in [CounterNames -> Nat] /\ came \in Nat
      /\ \A c \in Counters : c \in Nat
  BY <1>0, MetricsAssumption DEF MetricsTypeOK, Counters
<1>b. ASSUME RequestInv', MetricsTypeOK', CounterInv',
             ~disturbed' /\ Resetting' = {} =>
                total' = successful' + failed' + Cardinality(Recording'),
             \A name \in CounterNames : GetCounter(name)' = added'[name]
      PROVE  MetricsInv'
  BY <1>b DEF MetricsInv, CountsAgree
<1>1. ASSUME NEW name \in CounterNames, MakeCounter(r, name) PROVE MetricsInv'
  <2> DEFINE new == [pc |-> "read", name |-> name, counter |-> NoCounter]
             number == IF customMetrics[name] = NoCounter THEN came + 1 ELSE customMetrics[name]
  <2>1. new \in Recorder /\ new.pc = "read" /\ new.name = name
    BY DEF Recorder, RecorderPoints
  <2> HIDE DEF new
  <2>2. /\ Goes(r, "idle", new) /\ came' = came + 1 /\ came < MaxCount
        /\ customMetrics' = [customMetrics EXCEPT ![name] = number]
        /\ UNCHANGED <<requestVars, value, added, fatal>>
    BY <1>1 DEF MakeCounter, new
  <2>3. number \in Counters /\ number # NoCounter /\ came' \in 0..MaxCount
    BY <1>0, <1>a, <2>2, RecorderTypes, MetricsAssumption DEF MetricsTypeOK, Counters
  <2>4. /\ recorder'[r] = new /\ \A s \in Recorders : s # r => recorder'[s] = recorder[s]
        /\ recorder' \in [Recorders -> Recorder]
    BY <2>1, <2>2, GoesFacts
  <2>5. /\ customMetrics'[name] = number
        /\ \A n \in CounterNames : n # name => customMetrics'[n] = customMetrics[n]
        /\ \A n \in CounterNames :
              customMetrics[n] # NoCounter => customMetrics'[n] = customMetrics[n]
    BY <1>a, <2>2
  <2>6. MetricsTypeOK'
    BY <1>0, <2>1, <2>2, <2>3, <2>4, <2>5 DEF MetricsTypeOK, requestVars
  <2>7. CounterInv'
    <3>1. \A n \in CounterNames : customMetrics'[n] # NoCounter => customMetrics'[n] <= came'
      BY <1>0, <1>a, <2>2, <2>5 DEF CounterInv
    <3>2. \A m, n \in CounterNames :
             customMetrics'[m] = customMetrics'[n] /\ customMetrics'[m] # NoCounter => m = n
      <4>1. \A n \in CounterNames : n # name => customMetrics[n] # number \/ number = NoCounter
        BY <1>0, <1>a, <2>3 DEF CounterInv
      <4> QED BY <1>0, <2>3, <2>5, <4>1 DEF CounterInv
    <3>3. \A c \in Counters : c > came' => value'[c] = 0
      BY <1>0, <1>a, <2>2 DEF CounterInv
    <3>4. \A s \in Recorders :
             /\ recorder'[s].pc \in {"read", "add"} =>
                   /\ recorder'[s].name \in CounterNames
                   /\ customMetrics'[recorder'[s].name] # NoCounter
             /\ recorder'[s].pc = "add" =>
                   recorder'[s].counter = customMetrics'[recorder'[s].name]
      <4>1. CASE TRUE
        BY <1>0, <2>1, <2>3, <2>4, <2>5 DEF CounterInv
      <4> QED BY <4>1
    <3> QED BY <3>1, <3>2, <3>3, <3>4 DEF CounterInv
  <2>8. \A n \in CounterNames : GetCounter(n)' = added'[n]
    <3>1. \A n \in CounterNames : n # name => GetCounter(n)' = added'[n]
      BY <1>0, <2>2, <2>5 DEF CountsAgree, GetCounter
    <3>2. CASE customMetrics[name] = NoCounter
      <4>1. added[name] = 0 /\ value[number] = 0
        BY <1>0, <1>a, <2>3, <3>2 DEF CountsAgree, GetCounter, CounterInv
      <4> QED BY <2>2, <2>3, <2>5, <3>1, <4>1 DEF GetCounter
    <3>3. CASE customMetrics[name] # NoCounter
      BY <1>0, <2>2, <2>5, <3>1, <3>3 DEF CountsAgree, GetCounter
    <3> QED BY <3>2, <3>3
  <2> QED BY <1>b, <2>1, <2>2, <2>6, <2>7, <2>8, RequestsUntouched
<1>2. CASE ReadCounter(r)
  <2> DEFINE new == [recorder[r] EXCEPT !.pc = "add", !.counter = customMetrics[recorder[r].name]]
  <2>1. /\ Goes(r, "read", new) /\ UNCHANGED <<requestVars, customVars, came, fatal>>
        /\ UNCHANGED <<customMetrics, value, added>>
    BY <1>2 DEF ReadCounter, customVars
  <2>2. /\ recorder[r].name \in CounterNames
        /\ customMetrics[recorder[r].name] \in Counters
        /\ recorder[r] \in Recorder
    BY <1>0, <1>a, <2>1, RecorderTypes DEF Goes, CounterInv
  <2>3. /\ new \in Recorder /\ new.pc = "add" /\ new.name = recorder[r].name
        /\ new.counter = customMetrics[recorder[r].name]
    BY <2>2 DEF Recorder, RecorderPoints
  <2> HIDE DEF new
  <2>4. /\ recorder'[r] = new /\ \A s \in Recorders : s # r => recorder'[s] = recorder[s]
        /\ recorder' \in [Recorders -> Recorder]
    BY <2>1, <2>3, GoesFacts
  <2>5. MetricsTypeOK'
    BY <1>0, <2>1, <2>2, <2>3, <2>4 DEF MetricsTypeOK, requestVars
  <2>6. CounterInv'
    BY <1>0, <2>1, <2>2, <2>3, <2>4, RecorderTypes DEF CounterInv
  <2>7. \A n \in CounterNames : GetCounter(n)' = added'[n]
    BY <1>0, <2>1 DEF CountsAgree, GetCounter
  <2> QED BY <1>b, <2>1, <2>3, <2>5, <2>6, <2>7, RequestsUntouched
<1>3. CASE AddToCounter(r)
  <2> DEFINE name == recorder[r].name
             c == recorder[r].counter
  <2>1. /\ Goes(r, "add", IdleRecorder)
        /\ value' = [value EXCEPT ![c] = value[c] + 1]
        /\ added' = [added EXCEPT ![name] = added[name] + 1]
        /\ UNCHANGED <<requestVars, customMetrics, came, fatal>>
    BY <1>3 DEF AddToCounter
  <2>2. name \in CounterNames /\ c = customMetrics[name] /\ c \in Counters /\ c <= came
    BY <1>0, <2>1 DEF Goes, CounterInv, MetricsTypeOK
  <2>3. IdleRecorder \in Recorder /\ IdleRecorder.pc = "idle"
    BY <1>0, RecorderTypes
  <2>4. /\ recorder'[r] = IdleRecorder
        /\ \A s \in Recorders : s # r => recorder'[s] = recorder[s]
        /\ recorder' \in [Recorders -> Recorder]
    BY <2>1, <2>3, GoesFacts
  <2>5. /\ value' \in [Counters -> Nat] /\ value'[c] = value[c] + 1
        /\ \A d \in Counters : d # c => value'[d] = value[d]
        /\ added' \in [CounterNames -> Nat] /\ added'[name] = added[name] + 1
        /\ \A n \in CounterNames : n # name => added'[n] = added[n]
    BY <1>a, <2>1, <2>2
  <2>6. MetricsTypeOK'
    BY <1>0, <2>1, <2>3, <2>4, <2>5 DEF MetricsTypeOK, requestVars
  <2>7. CounterInv'
    BY <1>0, <1>a, <2>1, <2>2, <2>3, <2>4, <2>5 DEF CounterInv
  <2>8. \A n \in CounterNames : GetCounter(n)' = added'[n]
    <3>1. \A n \in CounterNames : n # name /\ customMetrics[n] # NoCounter =>
             customMetrics[n] \in Counters /\ customMetrics[n] # c
      BY <1>0, <1>a, <2>2 DEF CounterInv
    <3>2. c # NoCounter
      BY <1>0, <2>2, RecorderTypes
    <3>3. \A n \in CounterNames : GetCounter(n) = added[n]
      BY <1>0 DEF CountsAgree
    <3>4. ASSUME NEW n \in CounterNames, n = name
          PROVE  GetCounter(n)' = added'[n]
      <4>1. customMetrics'[n] = c /\ customMetrics[n] = c /\ c # NoCounter
        BY <2>1, <2>2, <3>2, <3>4
      <4>2. value'[c] = value[c] + 1 /\ added'[n] = added[n] + 1
        BY <2>5, <3>4
      <4>3. value[c] = added[n]
        BY <3>3, <4>1 DEF GetCounter
      <4>4. GetCounter(n)' = value'[customMetrics'[n]]
        BY <4>1 DEF GetCounter
      <4> QED BY <4>1, <4>2, <4>3, <4>4
    <3>5. ASSUME NEW n \in CounterNames, n # name
          PROVE  GetCounter(n)' = added'[n]
      BY <2>1, <2>5, <3>1, <3>3, <3>5 DEF GetCounter
    <3> QED BY <3>4, <3>5
  <2> QED BY <1>b, <2>1, <2>3, <2>6, <2>7, <2>8, RequestsUntouched
<1>4. CASE ResetCustom(r)
  <2>1. /\ Goes(r, "custom", IdleRecorder)
        /\ value' = [c \in Counters |-> IF c \in Made THEN 0 ELSE value[c]]
        /\ added' = [n \in CounterNames |-> 0]
        /\ UNCHANGED <<requestVars, customMetrics, came, fatal>>
    BY <1>4 DEF ResetCustom
  <2>2. IdleRecorder \in Recorder /\ IdleRecorder.pc = "idle"
    BY <1>0, RecorderTypes
  <2>3. /\ recorder'[r] = IdleRecorder
        /\ \A s \in Recorders : s # r => recorder'[s] = recorder[s]
        /\ recorder' \in [Recorders -> Recorder]
    BY <2>1, <2>2, GoesFacts
  <2>4. value' \in [Counters -> Nat] /\ added' \in [CounterNames -> Nat]
    BY <1>a, <2>1
  <2>5. MetricsTypeOK'
    BY <1>0, <2>1, <2>2, <2>3, <2>4 DEF MetricsTypeOK, requestVars
  <2>6. CounterInv'
    BY <1>0, <1>a, <2>1, <2>2, <2>3 DEF CounterInv
  <2>7. \A n \in CounterNames : GetCounter(n)' = added'[n]
    <3>1. \A n \in CounterNames : customMetrics[n] # NoCounter =>
             customMetrics[n] \in Made /\ customMetrics[n] \in Counters
      BY <1>a DEF Made
    <3> QED BY <2>1, <3>1 DEF GetCounter
  <2> QED BY <1>b, <2>1, <2>2, <2>5, <2>6, <2>7, RequestsUntouched
<1> QED BY <1>1, <1>2, <1>3, <1>4

LEMMA MetricsInvariant == MetricsSpec => []MetricsInv
<1>1. MetricsInit => MetricsInv
  <2> SUFFICES ASSUME MetricsInit PROVE MetricsInv
    OBVIOUS
  <2>1. IdleRecorder \in Recorder /\ IdleRecorder.pc = "idle"
    BY DEF IdleRecorder, Recorder, RecorderPoints
  <2>2. Recording = {} /\ Resetting = {}
    BY <2>1 DEF MetricsInit, Recording, Resetting
  <2>3. MetricsTypeOK
    <3>1. 0 \in 0..MaxCount
      BY MetricsAssumption
    <3>2. \A r \in Recorders : recorder[r].pc = "idle"
      BY <2>1 DEF MetricsInit
    <3>3. recorder \in [Recorders -> Recorder]
      BY <2>1 DEF MetricsInit
    <3>4. /\ customMetrics \in [CounterNames -> Counters \cup {NoCounter}]
          /\ value \in [Counters -> Nat] /\ added \in [CounterNames -> Nat]
      BY DEF MetricsInit
    <3> QED BY <3>1, <3>2, <3>3, <3>4 DEF MetricsInit, MetricsTypeOK
  <2>4. CounterInv
    BY <2>1 DEF MetricsInit, CounterInv
  <2>5. RequestInv
    BY <2>2, FS_EmptySet DEF RequestInv
  <2>6. CountsAgree
    BY <2>2, FS_EmptySet DEF MetricsInit, CountsAgree, GetCounter
  <2> QED BY <2>3, <2>4, <2>5, <2>6 DEF MetricsInv
<1>2. MetricsInv /\ [MetricsNext]_metricsVars => MetricsInv'
  <2> SUFFICES ASSUME MetricsInv, [MetricsNext]_metricsVars PROVE MetricsInv'
    OBVIOUS
  <2>1. ASSUME UNCHANGED <<total, successful, failed, disturbed, customMetrics, value, added,
                           recorder, came>>,
               fatal' \in BOOLEAN
        PROVE  MetricsInv'
    BY <2>1 DEF MetricsInv, MetricsTypeOK, CounterInv, RequestInv, CountsAgree, GetCounter,
                Recording, Resetting
  <2>2. ASSUME NEW r \in Recorders, ReadCollides(r) PROVE MetricsInv'
    BY <2>1, <2>2 DEF ReadCollides, requestVars, customVars
  <2>3. CASE UNCHANGED metricsVars
    BY <2>1, <2>3 DEF metricsVars, requestVars, customVars, MetricsInv, MetricsTypeOK
  <2> QED BY <2>2, <2>3, RecordKeepsInv, ResetKeepsInv, CustomKeepsInv DEF MetricsNext
<1> QED BY <1>1, <1>2, PTL DEF MetricsSpec

\* With any number of recorders the totals of the requests agree unless a Reset has
\* overlapped with a RecordRequest, and no increment of a custom counter is lost.
THEOREM NoCountIsLost == MetricsSpec => []CountsAgree
<1>1. MetricsInv => CountsAgree
  BY DEF MetricsInv
<1> QED BY <1>1, MetricsInvariant, PTL

-----------------------------------------------------------------------------
(* LogWriters.                                                             *)

\* No output has an entry that it was not given, and those that keep entries
\* have all that they were given.
LinesFollowCalls ==
    \A i \in Writers :
        /\ \A p \in DOMAIN lines[i] :
              /\ lines[i][p].n <= Given(lines[i][p].by, i)
              /\ Reaches(lines[i][p].by, lines[i][p].n, i)
        /\ i \notin Buffers =>
              \A c \in LogCallers : \A n \in 1..Given(c, i) :
                  Reaches(c, n, i) => HasLine(i, c, n)

\* The entry on its way has not failed yet.
UnderWay ==
    \A c \in LogCallers :
        /\ logging[c].pc = "write" => logging[c].count # 0
        /\ \A n \in Entries :
              n > logging[c].count \/ (n = logging[c].count /\ logging[c].pc = "write") =>
                  failedAt[c][n] = 0

LogInv ==
    /\ LogTypeOK
    /\ LinesFollowCalls
    /\ UnderWay
    /\ CallersStayInOrder

LEMMA LogInitially == LogInit => LogInv
<1> SUFFICES ASSUME LogInit PROVE LogInv
  OBVIOUS
<1>1. BufferCapacity \in Nat \ {0}
  BY LogWritersAssumption DEF BufferCapacity
<1>2. /\ LogTypeOK
      /\ \A i \in Writers : DOMAIN lines[i] = {}
  BY <1>1, LogWritersAssumption
     DEF LogInit, LogTypeOK, LogCall, NoLogCall, Writers, Line
<1>4. UnderWay
  BY DEF LogInit, NoLogCall, UnderWay
<1>3. \A c \in LogCallers, i \in Writers : Given(c, i) = 0
  BY DEF LogInit, NoLogCall, Given
<1> QED
  BY <1>2, <1>3, <1>4 DEF LogInv, LinesFollowCalls, CallersStayInOrder

\* A step that leaves the outputs alone, and gives to them only what fails.
LEMMA QuietStep ==
    ASSUME LogInv, LogTypeOK', UnderWay', UNCHANGED lines,
           \A c \in LogCallers, i \in Writers :
               \A n \in Entries :
                  /\ n <= Given(c, i) =>
                        n <= Given(c, i)' /\ Reaches(c, n, i)' = Reaches(c, n, i)
                  /\ n <= Given(c, i)' => n <= Given(c, i) \/ ~Reaches(c, n, i)'
    PROVE  LogInv'
<1> USE DEF LogInv
<1>1. \A i \in Writers : \A p \in DOMAIN lines[i] :
         lines[i][p].by \in LogCallers /\ lines[i][p].n \in Entries
  <2> SUFFICES ASSUME NEW i \in Writers, NEW p \in DOMAIN lines[i]
               PROVE  lines[i][p].by \in LogCallers /\ lines[i][p].n \in Entries
    OBVIOUS
  <2>1. lines[i] \in Seq(Line)
    BY DEF LogTypeOK
  <2>2. lines[i][p] \in Line
    BY <2>1
  <2> QED BY <2>2 DEF Line
<1>2. \A i, c, n : HasLine(i, c, n)' = HasLine(i, c, n)
  BY DEF HasLine
<1>3. \A c \in LogCallers, i \in Writers :
         Given(c, i)' \in Int /\ Given(c, i)' <= MaxLogCalls
  BY LogWritersAssumption DEF LogTypeOK, LogCall, Given
<1>4. LinesFollowCalls'
  <2>1. \A i \in Writers : \A p \in DOMAIN lines[i] :
            /\ lines[i][p].n <= Given(lines[i][p].by, i)'
            /\ Reaches(lines[i][p].by, lines[i][p].n, i)'
    BY <1>1 DEF LinesFollowCalls
  <2>2. ASSUME NEW i \in Writers, i \notin Buffers, NEW c \in LogCallers,
               NEW n \in 1..Given(c, i)', Reaches(c, n, i)'
        PROVE  HasLine(i, c, n)
    <3>1. n \in Entries /\ n <= Given(c, i)'
      BY <1>3, LogWritersAssumption DEF Entries
    <3>2. n <= Given(c, i) /\ Reaches(c, n, i)
      BY <2>2, <3>1
    <3>3. n \in 1..Given(c, i)
      BY <3>1, <3>2, LogWritersAssumption DEF Entries, LogTypeOK, LogCall, Given
    <3> QED BY <2>2, <3>2, <3>3 DEF LinesFollowCalls
  <2> QED BY <1>2, <2>1, <2>2 DEF LinesFollowCalls
<1>5. CallersStayInOrder'
  <2>1. ASSUME NEW i \in Writers, NEW p \in DOMAIN lines[i],
               NEW c \in LogCallers, lines[i][p].by = c,
               NEW n \in lines[i][p].n..Given(c, i)', Reaches(c, n, i)'
        PROVE  HasLine(i, c, n)
    <3>1. n \in Entries /\ n <= Given(c, i)'
      BY <1>1, <1>3, LogWritersAssumption DEF Entries
    <3>2. n <= Given(c, i) /\ Reaches(c, n, i)
      BY <2>1, <3>1
    <3>3. n \in lines[i][p].n..Given(c, i)
      BY <1>1, <3>1, <3>2, LogWritersAssumption DEF Entries, LogTypeOK, LogCall, Given
    <3> QED BY <2>1, <3>2, <3>3 DEF CallersStayInOrder
  <2>2. \A i \in Writers : \A p, q \in DOMAIN lines[i] :
           p < q /\ lines[i][q].by = lines[i][p].by => lines[i][p].n < lines[i][q].n
    BY DEF CallersStayInOrder
  <2> QED BY <1>1, <1>2, <2>1, <2>2 DEF CallersStayInOrder
<1> QED BY <1>4, <1>5

\* The line comes behind the entries of output i, the first k of which are gone.
LineLast(i, old, new, line, k) ==
    /\ i \notin Buffers => k = 0
    /\ Len(new) = Len(old) - k + 1 /\ Len(new) > 0
    /\ new[Len(new)] = line
    /\ \A p \in 1..(Len(new) - 1) : p + k \in DOMAIN old /\ new[p] = old[p + k]
    /\ \A q \in DOMAIN old : q > k => q - k \in DOMAIN new /\ new[q - k] = old[q]

\* What an output is after it took a line: the line comes last, behind all that
\* was there but, in a full buffer, the first.
LEMMA LineGoesLast ==
    ASSUME LogTypeOK, NEW i \in Writers, NEW line \in Line,
           NEW old, old = lines[i],
           NEW new, new = IF i \in Buffers THEN Buffered(old, line) ELSE Append(old, line)
    PROVE  /\ new \in Seq(Line)
           /\ i \in Buffers => Len(new) <= BufferCapacity
           /\ \E k \in {0, 1} : LineLast(i, old, new, line, k)
<1>1. /\ old \in Seq(Line)
      /\ i \in Buffers => Len(old) <= BufferCapacity
      /\ BufferCapacity \in Nat \ {0}
  <2>1. BufferCapacity \in Nat \ {0}
    BY LogWritersAssumption DEF BufferCapacity
  <2> QED BY <2>1 DEF LogTypeOK
<1>2. CASE i \in Buffers /\ Len(old) >= BufferCapacity
  <2>1. PICK rest : rest = Tail(old) /\ new = Append(rest, line)
    BY <1>2 DEF Buffered
  <2>2. /\ rest \in Seq(Line) /\ Len(rest) = Len(old) - 1
        /\ Len(old) \in Nat \ {0} /\ DOMAIN old = 1..Len(old)
        /\ \A p \in 1..(Len(old) - 1) : rest[p] = old[p + 1]
    BY <1>1, <1>2, <2>1
  <2>3. /\ new \in Seq(Line) /\ Len(new) = Len(old) /\ new[Len(new)] = line
        /\ \A p \in 1..(Len(new) - 1) : p + 1 \in DOMAIN old /\ new[p] = old[p + 1]
    <3>0. new = Append(rest, line) /\ rest \in Seq(Line) /\ line \in Line
      BY <2>1, <2>2
    <3>1. /\ Append(rest, line) \in Seq(Line)
          /\ Len(Append(rest, line)) = Len(rest) + 1
          /\ \A p \in 1..Len(rest) : Append(rest, line)[p] = rest[p]
          /\ Append(rest, line)[Len(rest) + 1] = line
      BY <3>0, AppendProperties
    <3>2. /\ new \in Seq(Line) /\ Len(new) = Len(rest) + 1 /\ new[Len(rest) + 1] = line
          /\ \A p \in 1..Len(rest) : new[p] = rest[p]
      BY <3>0, <3>1
    <3> QED BY <2>2, <3>2
  <2>4. \A q \in DOMAIN old : q > 1 => q - 1 \in DOMAIN new /\ new[q - 1] = old[q]
    BY <1>1, <2>3
  <2>5. LineLast(i, old, new, line, 1)
    BY <1>1, <1>2, <2>2, <2>3, <2>4 DEF LineLast
  <2> QED BY <1>1, <2>3, <2>5
<1>3. CASE ~(i \in Buffers /\ Len(old) >= BufferCapacity)
  <2>1. new = Append(old, line)
    BY <1>3 DEF Buffered
  <2>2. /\ new \in Seq(Line) /\ Len(new) = Len(old) + 1 /\ new[Len(new)] = line
        /\ \A p \in 1..Len(old) : new[p] = old[p]
    BY <1>1, <2>1
  <2>3. \A p \in 1..(Len(new) - 1) : p + 0 \in DOMAIN old /\ new[p] = old[p + 0]
    BY <1>1, <2>2
  <2>4. \A q \in DOMAIN old : q > 0 => q - 0 \in DOMAIN new /\ new[q - 0] = old[q]
    BY <1>1, <2>2
  <2>5. i \in Buffers => Len(new) <= BufferCapacity
    BY <1>1, <1>3, <2>2
  <2>6. LineLast(i, old, new, line, 0)
    BY <1>1, <2>2, <2>3, <2>4 DEF LineLast
  <2> QED BY <2>2, <2>5, <2>6
<1> QED BY <1>2, <1>3

LEMMA WriteLineKeepsInv ==
    ASSUME LogInv, NEW c \in LogCallers, WriteLine(c)
    PROVE  LogInv'
<1>0. PICK i, count, line, old, new :
         /\ i = logging[c].next /\ count = logging[c].count
         /\ line = [by |-> c, n |-> count]
         /\ old = lines[i]
         /\ new = IF i \in Buffers THEN Buffered(old, line) ELSE Append(old, line)
  OBVIOUS
<1>1. /\ logging \in [LogCallers -> LogCall] /\ logging[c].pc = "write"
      /\ i \in Writers /\ count \in Entries /\ count \in Nat /\ line \in Line
      /\ Outputs \in Nat /\ Writers = 1..Outputs
      /\ lines \in [Writers -> Seq(Line)]
      /\ line.by = c /\ line.n = count
  <2>1. /\ logging \in [LogCallers -> LogCall] /\ logging[c].pc = "write"
        /\ i \in Writers /\ Outputs \in Nat /\ Writers = 1..Outputs
        /\ lines \in [Writers -> Seq(Line)]
    BY <1>0, LogWritersAssumption DEF LogInv, LogTypeOK, LogCall, WriteLine, Writers
  <2>2. count \in Entries /\ count \in Nat
    <3>1. count \in 0..MaxLogCalls /\ count # 0
      BY <1>0, <2>1 DEF LogInv, LogCall, UnderWay
    <3> QED BY <3>1, LogWritersAssumption DEF Entries
  <2> QED BY <1>0, <2>1, <2>2 DEF Line
<1>2. /\ lines' = [lines EXCEPT ![i] = new]
      /\ logging' = [logging EXCEPT ![c] = IF i = Outputs THEN [@ EXCEPT !.pc = "idle"]
                                           ELSE [@ EXCEPT !.next = i + 1]]
      /\ UNCHANGED <<closedFiles, closing, failedAt>>
  BY <1>0 DEF WriteLine
<1>3. /\ new \in Seq(Line)
      /\ i \in Buffers => Len(new) <= BufferCapacity
  BY <1>0, <1>1, LineGoesLast DEF LogInv
<1>b. PICK k \in {0, 1} : LineLast(i, old, new, line, k)
  <2>1. LogTypeOK /\ i \in Writers /\ line \in Line
    BY <1>1 DEF LogInv
  <2>2. old = lines[i] /\ new = IF i \in Buffers THEN Buffered(old, line) ELSE Append(old, line)
    BY <1>0
  <2> QED BY <2>1, <2>2, LineGoesLast, Zenon
<1>4. /\ i \notin Buffers => k = 0
      /\ Len(new) = Len(old) - k + 1 /\ Len(new) > 0
      /\ new[Len(new)] = line
      /\ \A p \in 1..(Len(new) - 1) : p + k \in DOMAIN old /\ new[p] = old[p + k]
      /\ \A q \in DOMAIN old : q > k => q - k \in DOMAIN new /\ new[q - k] = old[q]
  BY <1>b DEF LineLast
<1>5. /\ lines'[i] = new
      /\ \A j \in Writers : j # i => lines'[j] = lines[j]
      /\ old \in Seq(Line) /\ Len(new) \in Nat \ {0} /\ DOMAIN new = 1..Len(new)
      /\ DOMAIN old = 1..Len(old) /\ Len(old) \in Nat
  <2>1. /\ lines'[i] = new
        /\ \A j \in Writers : j # i => lines'[j] = lines[j]
    BY <1>1, <1>2
  <2>2. old \in Seq(Line)
    BY <1>0, <1>1
  <2> QED BY <1>3, <1>4, <2>1, <2>2
<1>a. /\ \A p, q \in DOMAIN old :
            p < q /\ old[q].by = old[p].by => old[p].n < old[q].n
      /\ \A p \in DOMAIN old :
            /\ old[p].n <= Given(old[p].by, i)
            /\ Reaches(old[p].by, old[p].n, i)
            /\ \A n \in old[p].n..Given(old[p].by, i) :
                  Reaches(old[p].by, n, i) => HasLine(i, old[p].by, n)
  BY <1>0, <1>1 DEF LogInv, CallersStayInOrder, LinesFollowCalls
<1>6. LogTypeOK'
  <2>1. logging' \in [LogCallers -> LogCall]
    <3>1. CASE i = Outputs
      <4>1. logging' = [logging EXCEPT ![c] = [@ EXCEPT !.pc = "idle"]]
        BY <1>2, <3>1
      <4> QED BY <1>1, <4>1 DEF LogCall
    <3>2. CASE i # Outputs
      <4>1. logging' = [logging EXCEPT ![c] = [@ EXCEPT !.next = i + 1]]
        BY <1>2, <3>2
      <4>2. i + 1 \in Writers
        BY <1>1, <3>2
      <4> QED BY <1>1, <4>1, <4>2 DEF LogCall
    <3> QED BY <3>1, <3>2
  <2>2. lines' \in [Writers -> Seq(Line)]
    BY <1>1, <1>2, <1>3
  <2>3. \A j \in Buffers : Len(lines'[j]) <= BufferCapacity
    BY <1>3, <1>5, LogWritersAssumption DEF LogInv, LogTypeOK, Writers
  <2> QED
    BY <1>2, <2>1, <2>2, <2>3 DEF LogInv, LogTypeOK, BufferCapacity
<1>c. /\ \A d, n, j : Reaches(d, n, j)' = Reaches(d, n, j)
      /\ Reaches(c, count, i)
      /\ UnderWay'
  <2>1. \A d \in LogCallers :
            logging'[d].count = logging[d].count /\ logging'[d].pc \in {logging[d].pc, "idle"}
    BY <1>1, <1>2 DEF LogCall
  <2>2. failedAt[c][count] = 0
    BY <1>0, <1>1 DEF LogInv, UnderWay
  <2> QED BY <1>2, <2>1, <2>2 DEF Reaches, LogInv, UnderWay
<1>7. /\ Given(c, i) = count - 1 /\ Given(c, i)' = count
      /\ \A d \in LogCallers, j \in Writers : d # c \/ j # i => Given(d, j)' = Given(d, j)
      /\ \A d \in LogCallers, j \in Writers : Given(d, j) \in Int
  BY <1>0, <1>1, <1>2 DEF Given, LogCall
<1>8. /\ \A j \in Writers : \A p \in DOMAIN lines[j] : lines[j][p] \in Line
      /\ \A p \in DOMAIN new : new[p] \in Line
  <2>1. ASSUME NEW l \in Seq(Line), NEW p \in DOMAIN l PROVE l[p] \in Line
    BY <2>1, ElementOfSeq
  <2>2. \A j \in Writers : lines[j] \in Seq(Line)
    BY <1>1
  <2>3. new \in Seq(Line)
    BY <1>3
  <2> QED BY <2>1, <2>2, <2>3
<1>d. \A l \in Line : l.by \in LogCallers /\ l.n \in Nat
  BY LogWritersAssumption DEF Line, Entries
<1>9. \A j, d, n : j \in Writers /\ j # i => HasLine(j, d, n)' = HasLine(j, d, n)
  BY <1>5 DEF HasLine
<1>10. HasLine(i, c, count)'
  <2>1. lines'[i] = new /\ Len(new) \in DOMAIN new
    BY <1>5
  <2>2. new[Len(new)] = [by |-> c, n |-> count]
    BY <1>0, <1>4, Zenon
  <2> QED BY <2>1, <2>2 DEF HasLine
<1>11. \A p \in DOMAIN old : p > k =>
          \A n : HasLine(i, old[p].by, n) /\ n >= old[p].n => HasLine(i, old[p].by, n)'
  <2> SUFFICES ASSUME NEW p \in DOMAIN old, p > k, NEW n,
                      HasLine(i, old[p].by, n), n >= old[p].n
               PROVE  HasLine(i, old[p].by, n)'
    OBVIOUS
  <2>1. PICK q \in DOMAIN old : old[q] = [by |-> old[p].by, n |-> n]
    BY <1>0 DEF HasLine
  <2>2. q > k
    <3> SUFFICES ASSUME q <= k PROVE FALSE
      BY <1>4, <1>5
    <3>1. q = 1 /\ k = 1 /\ q < p
      BY <1>4, <1>5
    <3>2. old[q].n < old[p].n
      BY <1>a, <2>1, <3>1
    <3>3. old[q].n = n /\ old[q].n \in Nat /\ old[p].n \in Nat
      BY <1>0, <1>1, <1>8, <1>d, <2>1
    <3> QED BY <3>2, <3>3
  <2>3. q - k \in DOMAIN new /\ new[q - k] = old[q]
    BY <1>4, <2>2
  <2> QED BY <1>5, <2>1, <2>3 DEF HasLine
<1>12. \A p \in DOMAIN new :
          \/ p = Len(new) /\ new[p] = line
          \/ p < Len(new) /\ p + k \in DOMAIN old /\ p + k > k /\ new[p] = old[p + k]
  BY <1>4, <1>5
<1>13. LinesFollowCalls'
  <2> SUFFICES ASSUME NEW j \in Writers
               PROVE  /\ \A p \in DOMAIN lines'[j] : \A d \in LogCallers :
                            lines'[j][p].by = d =>
                                lines'[j][p].n <= Given(d, j)' /\ Reaches(d, lines'[j][p].n, j)
                      /\ j \notin Buffers =>
                            \A d \in LogCallers : \A n \in 1..Given(d, j)' :
                                Reaches(d, n, j) => HasLine(j, d, n)'
    <3>1. \A j \in Writers : \A p \in DOMAIN lines'[j] : lines'[j][p].by \in LogCallers
      BY <1>5, <1>8 DEF Line
    <3> QED BY <1>c, <3>1 DEF LinesFollowCalls
  <2>1. CASE j # i
    <3>1. \A p \in DOMAIN lines[j] :
             lines[j][p].n <= Given(lines[j][p].by, j) /\ Reaches(lines[j][p].by, lines[j][p].n, j)
      BY DEF LogInv, LinesFollowCalls
    <3>2. j \notin Buffers =>
             \A d \in LogCallers : \A n \in 1..Given(d, j) : Reaches(d, n, j) => HasLine(j, d, n)
      BY DEF LogInv, LinesFollowCalls
    <3> QED BY <1>5, <1>7, <1>9, <2>1, <3>1, <3>2
  <2>2. CASE j = i
    <3>1. ASSUME NEW p \in DOMAIN new, NEW d \in LogCallers, new[p].by = d
          PROVE  new[p].n <= Given(d, i)' /\ Reaches(d, new[p].n, i)
      <4>1. CASE new[p] = line
        BY <1>1, <1>7, <1>c, <3>1, <4>1
      <4>2. CASE p + k \in DOMAIN old /\ new[p] = old[p + k]
        <5>1. /\ old[p + k].n <= Given(d, i) /\ old[p + k].n \in Nat
              /\ Reaches(d, old[p + k].n, i)
          BY <1>0, <1>1, <1>8, <1>d, <1>a, <3>1, <4>2
        <5>2. Given(d, i) \in Int /\ Given(d, i)' \in Int /\ Given(d, i) <= Given(d, i)'
          <6>1. CASE d = c
            BY <1>1, <1>7, <6>1
          <6>2. CASE d # c
            BY <1>1, <1>7, <6>2
          <6> QED BY <6>1, <6>2
        <5> QED BY <4>2, <5>1, <5>2
      <4> QED BY <1>12, <4>1, <4>2
    <3>2. ASSUME i \notin Buffers, NEW d \in LogCallers, NEW n \in 1..Given(d, i)',
                 Reaches(d, n, i)
          PROVE  HasLine(i, d, n)'
      <4>1. CASE d = c /\ n = count
        BY <1>10, <4>1
      <4>2. CASE ~(d = c /\ n = count)
        <5>1. n \in 1..Given(d, i)
          BY <1>1, <1>7, <4>2
        <5>2. HasLine(i, d, n)
          BY <1>1, <3>2, <5>1 DEF LogInv, LinesFollowCalls
        <5>3. PICK q \in DOMAIN old : old[q] = [by |-> d, n |-> n]
          BY <1>0, <5>2 DEF HasLine
        <5>4. q > k /\ n >= old[q].n /\ old[q].by = d
          BY <1>4, <1>5, <3>2, <5>3
        <5> QED BY <1>11, <5>2, <5>3, <5>4
      <4> QED BY <4>1, <4>2
    <3> QED BY <1>5, <2>2, <3>1, <3>2
  <2> QED BY <2>1, <2>2
<1>14. CallersStayInOrder'
  <2> SUFFICES ASSUME NEW j \in Writers, NEW p \in DOMAIN lines'[j],
                      NEW d \in LogCallers, lines'[j][p].by = d
               PROVE  /\ \A q \in DOMAIN lines'[j] :
                            p < q /\ lines'[j][q].by = d => lines'[j][p].n < lines'[j][q].n
                      /\ \A n \in lines'[j][p].n..Given(d, j)' :
                            Reaches(d, n, j) => HasLine(j, d, n)'
    <3>1. \A j \in Writers : \A p \in DOMAIN lines'[j] : lines'[j][p].by \in LogCallers
      BY <1>5, <1>8 DEF Line
    <3> QED BY <1>c, <3>1 DEF CallersStayInOrder
  <2>1. CASE j # i
    <3>1. lines'[j] = lines[j] /\ Given(d, j)' = Given(d, j)
      BY <1>5, <1>7, <2>1
    <3>2. /\ \A q \in DOMAIN lines[j] :
                p < q /\ lines[j][q].by = d => lines[j][p].n < lines[j][q].n
          /\ \A n \in lines[j][p].n..Given(d, j) : Reaches(d, n, j) => HasLine(j, d, n)
      BY <3>1 DEF LogInv, CallersStayInOrder
    <3> QED BY <1>9, <2>1, <3>1, <3>2
  <2>2. CASE j = i
    <3>1. p \in DOMAIN new
      BY <1>5, <2>2
    <3>2. ASSUME NEW q \in DOMAIN new, p < q, new[q].by = new[p].by
          PROVE  new[p].n < new[q].n
      <4>1. p + k \in DOMAIN old /\ new[p] = old[p + k]
        BY <1>5, <1>12, <3>1, <3>2
      <4>2. CASE new[q] = line
        <5>1. old[p + k].n <= Given(c, i)
          BY <1>1, <1>a, <3>2, <4>1, <4>2
        <5>2. old[p + k].n \in Nat
          BY <1>0, <1>1, <1>8, <1>d, <4>1
        <5> QED BY <1>1, <1>7, <4>1, <4>2, <5>1, <5>2
      <4>3. CASE q + k \in DOMAIN old /\ new[q] = old[q + k]
        <5>1. p + k < q + k
          BY <1>4, <1>5, <3>1, <3>2
        <5> QED BY <1>a, <3>2, <4>1, <4>3, <5>1
      <4> QED BY <1>12, <4>2, <4>3
    <3>3. ASSUME NEW n \in new[p].n..Given(d, i)', Reaches(d, n, i) PROVE HasLine(i, d, n)'
      <4>0. new[p].by = d
        BY <1>5, <2>2
      <4>1. CASE new[p] = line
        <5>1. n = count /\ d = c
          BY <1>1, <1>7, <3>3, <4>0, <4>1
        <5> QED BY <1>10, <5>1
      <4>2. CASE p + k \in DOMAIN old /\ p + k > k /\ new[p] = old[p + k]
        <5>1. old[p + k].by = d /\ old[p + k].n \in Nat
          BY <1>0, <1>1, <1>8, <1>d, <4>0, <4>2
        <5>2. CASE d = c /\ n = count
          BY <1>10, <5>2
        <5>3. CASE ~(d = c /\ n = count)
          <6>1. n \in old[p + k].n..Given(d, i)
            BY <1>1, <1>7, <3>3, <4>2, <5>1, <5>3
          <6>2. HasLine(i, d, n)
            BY <1>a, <3>3, <4>2, <5>1, <6>1
          <6>3. n >= old[p + k].n
            BY <1>1, <1>7, <5>1, <6>1
          <6> QED BY <1>11, <4>2, <5>1, <6>2, <6>3
        <5> QED BY <5>2, <5>3
      <4> QED BY <1>12, <3>1, <4>1, <4>2
    <3> QED BY <1>5, <2>2, <3>2, <3>3
  <2> QED BY <2>1, <2>2
<1> QED BY <1>6, <1>c, <1>13, <1>14 DEF LogInv

\* What did not take the entry, and the writers behind it, never have it.
LEMMA WriteLineFailsKeepsInv ==
    ASSUME LogInv, NEW c \in LogCallers, WriteLineFails(c)
    PROVE  LogInv'
<1>0. PICK i, count : i = logging[c].next /\ count = logging[c].count
  OBVIOUS
<1>1. /\ logging \in [LogCallers -> LogCall] /\ logging[c].pc = "write"
      /\ i \in Writers /\ i \in 1..Outputs /\ Outputs \in Nat /\ Writers = 1..Outputs
      /\ count \in Entries /\ count \in Nat /\ MaxLogCalls \in Nat
      /\ failedAt \in [LogCallers -> [Entries -> 0..Outputs]]
  BY <1>0, LogWritersAssumption
     DEF LogInv, LogTypeOK, LogCall, WriteLineFails, Writers, Entries, UnderWay
<1>2. /\ logging' = [logging EXCEPT ![c].pc = "idle"]
      /\ failedAt' = [failedAt EXCEPT ![c] = [@ EXCEPT ![count] = i]]
      /\ UNCHANGED <<lines, closedFiles, closing>>
  BY <1>0 DEF WriteLineFails
<1>3. /\ failedAt'[c][count] = i /\ failedAt[c][count] = 0
      /\ \A d \in LogCallers, n \in Entries :
            d # c \/ n # count => failedAt'[d][n] = failedAt[d][n]
  <2>1. failedAt[c][count] = 0
    BY <1>0, <1>1 DEF LogInv, UnderWay
  <2> QED BY <1>1, <1>2, <2>1
<1>4. /\ logging'[c].pc = "idle" /\ logging'[c].count = count
      /\ \A d \in LogCallers : d # c => logging'[d] = logging[d]
  BY <1>0, <1>1, <1>2 DEF LogCall
<1>5. LogTypeOK'
  <2>1. logging' \in [LogCallers -> LogCall]
    BY <1>1, <1>2 DEF LogCall
  <2>2. failedAt' \in [LogCallers -> [Entries -> 0..Outputs]]
    <3>1. [failedAt[c] EXCEPT ![count] = i] \in [Entries -> 0..Outputs]
      BY <1>1
    <3> QED BY <1>1, <1>2, <3>1
  <2> QED BY <1>2, <2>1, <2>2 DEF LogInv, LogTypeOK, BufferCapacity
<1>6. UnderWay'
  <2> SUFFICES ASSUME NEW d \in LogCallers
               PROVE  /\ logging'[d].pc = "write" => logging'[d].count # 0
                      /\ \A n \in Entries :
                            n > logging'[d].count
                            \/ (n = logging'[d].count /\ logging'[d].pc = "write") =>
                                failedAt'[d][n] = 0
    BY DEF UnderWay
  <2>1. CASE d = c
    <3>1. \A n \in Entries : n > count => failedAt'[c][n] = 0
      <4>1. \A n \in Entries : n > count => failedAt[c][n] = 0
        BY <1>0 DEF LogInv, UnderWay
      <4> QED BY <1>1, <1>3, <4>1
    <3> QED BY <1>4, <2>1, <3>1
  <2>2. CASE d # c
    BY <1>3, <1>4, <2>2 DEF LogInv, UnderWay
  <2> QED BY <2>1, <2>2
<1>7. ASSUME NEW d \in LogCallers, NEW j \in Writers, NEW n \in Entries
      PROVE  /\ n <= Given(d, j) =>
                   n <= Given(d, j)' /\ Reaches(d, n, j)' = Reaches(d, n, j)
             /\ n <= Given(d, j)' => n <= Given(d, j) \/ ~Reaches(d, n, j)'
  <2>1. CASE d # c
    <3>1. Given(d, j)' = Given(d, j)
      BY <1>4, <2>1 DEF Given
    <3>2. Reaches(d, n, j)' = Reaches(d, n, j)
      BY <1>3, <2>1 DEF Reaches
    <3> QED BY <3>1, <3>2
  <2>2. CASE d = c
    <3>1. /\ Given(c, j)' = count
          /\ i <= j => Given(c, j) = count - 1
          /\ ~(i <= j) => Given(c, j) = count
      BY <1>0, <1>1, <1>4 DEF Given
    <3>2. n # count => Reaches(c, n, j)' = Reaches(c, n, j)
      BY <1>3 DEF Reaches
    <3>3. Reaches(c, count, j) /\ (Reaches(c, count, j)' <=> j < i)
      BY <1>1, <1>3 DEF Reaches
    <3>4. /\ n \in Nat /\ count \in Nat /\ i \in Nat /\ j \in Nat
          /\ (i <= j <=> ~(j < i))
      BY <1>1 DEF Entries
    <3>5. CASE n = count
      <4>1. n <= Given(c, j) => j < i
        BY <3>1, <3>4, <3>5
      <4>2. n <= Given(c, j)' => n <= Given(c, j) \/ ~(j < i)
        BY <3>1, <3>4, <3>5
      <4>3. n <= Given(c, j)'
        BY <3>1, <3>4, <3>5
      <4>4. n <= Given(c, j) => (Reaches(c, n, j)' = Reaches(c, n, j))
        BY <3>3, <3>5, <4>1 DEF Reaches
      <4> QED BY <2>2, <3>3, <3>5, <4>2, <4>3, <4>4
    <3>6. CASE n # count
      <4>1. n <= Given(c, j) <=> n <= Given(c, j)'
        BY <3>1, <3>4, <3>6
      <4> QED BY <2>2, <3>2, <3>6, <4>1
    <3> QED BY <3>5, <3>6
  <2> QED BY <2>1, <2>2
<1> QED BY <1>2, <1>5, <1>6, <1>7, QuietStep

\* A step that neither logs nor fails.
LEMMA NoEntryStep ==
    ASSUME LogInv, LogTypeOK', UnderWay', UNCHANGED <<lines, failedAt>>,
           \A c \in LogCallers, i \in Writers : Given(c, i)' = Given(c, i)
    PROVE  LogInv'
<1>1. \A c, n, i : Reaches(c, n, i)' = Reaches(c, n, i)
  BY DEF Reaches
<1> QED BY <1>1, QuietStep

LEMMA LogStep == LogInv /\ [LogNext]_logVars => LogInv'
<1> SUFFICES ASSUME LogInv, [LogNext]_logVars PROVE LogInv'
  OBVIOUS
<1>1. ASSUME NEW c \in LogCallers, BeginLog(c) PROVE LogInv'
  <2>0. /\ logging \in [LogCallers -> LogCall] /\ logging[c] \in LogCall
        /\ logging[c].pc = "idle" /\ logging[c].count < MaxLogCalls
        /\ 1 \in Writers /\ MaxLogCalls \in Nat /\ logging[c].count \in Nat
        /\ UNCHANGED <<lines, closedFiles, closing, failedAt>>
    BY <1>1, LogWritersAssumption DEF LogInv, LogTypeOK, BeginLog, LogCall, Writers
  <2>1. logging' = [logging EXCEPT ![c] =
                       [pc |-> "write", count |-> logging[c].count + 1, next |-> 1]]
    BY <1>1 DEF BeginLog
  <2>2. /\ logging'[c] = [pc |-> "write", count |-> logging[c].count + 1, next |-> 1]
        /\ \A d \in LogCallers : d # c => logging'[d] = logging[d]
    BY <2>0, <2>1
  <2>3. LogTypeOK'
    <3>1. [pc |-> "write", count |-> logging[c].count + 1, next |-> 1] \in LogCall
      BY <2>0 DEF LogCall
    <3> QED BY <2>0, <2>1, <3>1 DEF LogInv, LogTypeOK, BufferCapacity
  <2>4. UnderWay'
    <3>1. \A n \in Entries : n > logging[c].count => failedAt[c][n] = 0
      BY DEF LogInv, UnderWay
    <3>2. logging'[c].count = logging[c].count + 1 /\ logging'[c].count # 0
      BY <2>0, <2>2
    <3>3. \A n \in Entries : n >= logging'[c].count => failedAt'[c][n] = 0
      BY <2>0, <3>1, <3>2, LogWritersAssumption DEF Entries
    <3>4. \A d \in LogCallers : d # c =>
             /\ logging'[d].pc = "write" => logging'[d].count # 0
             /\ \A n \in Entries :
                   n > logging'[d].count
                   \/ (n = logging'[d].count /\ logging'[d].pc = "write") =>
                       failedAt'[d][n] = 0
      BY <2>0, <2>2 DEF LogInv, UnderWay
    <3>5. \A n \in Entries :
             n > logging'[c].count \/ n = logging'[c].count => failedAt'[c][n] = 0
      BY <2>0, <3>2, <3>3, LogWritersAssumption DEF Entries
    <3> QED BY <3>2, <3>4, <3>5 DEF UnderWay
  <2>5. \A d \in LogCallers, i \in Writers : Given(d, i)' = Given(d, i)
    <3>1. \A i \in Writers : Given(c, i)' = Given(c, i)
      BY <2>0, <2>2, LogWritersAssumption DEF Given, Writers
    <3> QED BY <2>2, <3>1 DEF Given
  <2> QED BY <2>0, <2>3, <2>4, <2>5, NoEntryStep
<1>2. ASSUME NEW c \in LogCallers, WriteLine(c) PROVE LogInv'
  BY <1>2, WriteLineKeepsInv
<1>3. ASSUME NEW c \in LogCallers, WriteLineFails(c) PROVE LogInv'
  BY <1>3, WriteLineFailsKeepsInv
<1>4. ASSUME NEW i \in Buffers, ClearBuffer(i) PROVE LogInv'
  <2>1. /\ i \in Writers
        /\ lines' = [lines EXCEPT ![i] = <<>>] /\ lines \in [Writers -> Seq(Line)]
        /\ UNCHANGED <<closedFiles, logging, closing, failedAt>>
    BY <1>4, LogWritersAssumption DEF ClearBuffer, Writers, LogInv, LogTypeOK
  <2>2. /\ lines'[i] = <<>>
        /\ \A j \in Writers : j # i => lines'[j] = lines[j]
    BY <2>1
  <2>3. LogTypeOK'
    <3>1. lines' \in [Writers -> Seq(Line)]
      BY <2>1
    <3>2. BufferCapacity \in Nat
      BY LogWritersAssumption DEF BufferCapacity
    <3>3. \A j \in Buffers : Len(lines'[j]) <= BufferCapacity
      BY <2>2, <3>2, LogWritersAssumption DEF LogInv, LogTypeOK, Writers
    <3> QED BY <2>1, <3>1, <3>3 DEF LogInv, LogTypeOK, BufferCapacity
  <2>4. /\ \A c, j : Given(c, j)' = Given(c, j)
        /\ \A c, n, j : Reaches(c, n, j)' = Reaches(c, n, j)
        /\ \A j, c, n : j \in Writers /\ j # i => HasLine(j, c, n)' = HasLine(j, c, n)
    BY <2>1, <2>2 DEF Given, HasLine, Reaches
  <2>5. LinesFollowCalls'
    BY <1>4, <2>2, <2>4 DEF LogInv, LinesFollowCalls
  <2>6. CallersStayInOrder'
    BY <2>2, <2>4 DEF LogInv, CallersStayInOrder
  <2>7. UnderWay'
    BY <2>1 DEF LogInv, UnderWay
  <2> QED BY <2>3, <2>5, <2>6, <2>7 DEF LogInv
<1>5. ASSUME CloseWriter PROVE LogInv'
  <2>1. LogTypeOK'
    BY <1>5, LogWritersAssumption DEF LogInv, LogTypeOK, CloseWriter, BufferCapacity
  <2>2. UnderWay' /\ \A d \in LogCallers, i \in Writers : Given(d, i)' = Given(d, i)
    BY <1>5 DEF CloseWriter, Given, LogInv, UnderWay
  <2> QED BY <1>5, <2>1, <2>2, NoEntryStep DEF CloseWriter
<1>6. ASSUME UNCHANGED logVars PROVE LogInv'
  <2>1. /\ LogTypeOK' /\ UnderWay'
        /\ \A d \in LogCallers, i \in Writers : Given(d, i)' = Given(d, i)
    BY <1>6 DEF logVars, LogInv, LogTypeOK, BufferCapacity, Given, UnderWay
  <2> QED BY <1>6, <2>1, NoEntryStep DEF logVars
<1> QED
  BY <1>1, <1>2, <1>3, <1>4, <1>5, <1>6 DEF LogNext

LEMMA LogInvariant == LogSpec => []LogInv
BY LogInitially, LogStep, PTL DEF LogSpec

\* Any number of callers may log to any outputs while these fail and are closed:
\* every output has the entries of each caller in its order and without a gap,
\* but those that failed on their way to it.
THEOREM OutputsKeepOrder == LogSpec => []CallersStayInOrder
<1>1. LogInv => CallersStayInOrder
  BY DEF LogInv
<1> QED BY <1>1, LogInvariant, PTL

\* The entry of a call that is over is in the outputs before the one that failed,
\* and in none behind it.
THEOREM EndMeansWritten == LogSpec => []EndedIsWritten
<1>1. LogInv => EndedIsWritten
  <2> SUFFICES ASSUME LogInv, NEW c \in LogCallers, NEW n \in 1..logging[c].count,
                      logging[c].pc = "idle" \/ n < logging[c].count,
                      NEW i \in Writers
               PROVE  /\ HasLine(i, c, n) => Reaches(c, n, i)
                      /\ Reaches(c, n, i) /\ i \notin Buffers => HasLine(i, c, n)
    BY DEF EndedIsWritten
  <2>1. n \in 1..Given(c, i)
    BY DEF LogInv, LogTypeOK, LogCall, Given
  <2>2. HasLine(i, c, n) => Reaches(c, n, i)
    BY DEF LogInv, LinesFollowCalls, HasLine
  <2> QED BY <2>1, <2>2 DEF LogInv, LinesFollowCalls
<1> QED BY <1>1, LogInvariant, PTL

\* The outputs have what was logged, in order, and are without an entry only where
\* it failed and behind, with any callers and outputs (log_writer.go:136-148,
\* 198-207, middleware.go:112-118).
THEOREM OutputsFollow == LogSpec => []OutputsFollowCalls
<1>1. CallersStayInOrder /\ EndedIsWritten => OutputsFollowCalls
  BY DEF OutputsFollowCalls
<1> QED BY <1>1, OutputsKeepOrder, EndMeansWritten, PTL

-----------------------------------------------------------------------------
(* ConfigUpdate.                                                           *)

\* An invalid port was assigned by a request that has not been answered 200.
InvalidHasWriter ==
    config["port"] \notin 1..MaxPort =>
        \E p \in Putters : /\ put[p].pc \in {"writing", "rejected"}
                           /\ put[p].update["port"] = config["port"]
                           /\ "port" \notin put[p].left

\* What a request has assigned stays while no other one has begun since.
LastHasItsWords ==
    \A p \in Putters : put[p].pc # "none" /\ CameLast(p) =>
        /\ \A w \in Words : put[p].update[w] # Keep /\ w \notin put[p].left =>
              config[w] = put[p].update[w]
        /\ put[p].pc = "accepted" => config["port"] \in 1..MaxPort
        /\ put[p].pc = "rejected" => config["port"] \notin 1..MaxPort

ConfigInv ==
    /\ ConfigTypeOK
    /\ \A p \in Putters : /\ put[p].before \subseteq Answered
                          /\ put[p].pc \in {"accepted", "rejected"} => put[p].left = {}
                          /\ \A w \in put[p].left : put[p].update[w] # Keep
    /\ InvalidHasWriter
    /\ LastHasItsWords

\* Updates have texts and a port where they do not keep what there is.
LEMMA UpdateWords ==
    ASSUME NEW u \in Updates
    PROVE  /\ \A w \in Words : u[w] # Keep => u[w] \in Texts \cup Ports
           /\ u["port"] # Keep => u["port"] \in Ports
<1>1. PICK h \in Texts \cup {Keep}, p \in Ports \cup {Keep}, l \in Texts \cup {Keep} :
         u = WordsOf(h, p, l)
  BY DEF Updates
<1>2. \A w \in Words : u[w] \in {h, p, l}
  BY <1>1 DEF WordsOf, Words
<1>3. u["port"] = p
  BY <1>1 DEF WordsOf, Words
<1> QED BY <1>2, <1>3

LEMMA ConfigInitially == ConfigInit => ConfigInv
<1> SUFFICES ASSUME ConfigInit PROVE ConfigInv
  OBVIOUS
<1>1. PICK file \in Updates, env \in Updates : config = Load(file, env)
  BY DEF ConfigInit
<1>2. WordsOf(DefaultText, DefaultPort, DefaultText) \in Updates
  BY ConfigAssumption DEF Updates
<1>3. /\ config \in [Words -> Texts \cup Ports]
      /\ config["port"] \in Ports
  <2>1. /\ config = [w \in Words |-> config[w]]
        /\ \A w \in Words : config[w] = IF env[w] # Keep THEN env[w]
                     ELSE IF file[w] # Keep THEN file[w]
                     ELSE WordsOf(DefaultText, DefaultPort, DefaultText)[w]
    BY <1>1 DEF Load
  <2>2. \A w \in Words : WordsOf(DefaultText, DefaultPort, DefaultText)[w] \in Texts \cup Ports
    BY ConfigAssumption DEF WordsOf
  <2>3. "port" \in Words /\ WordsOf(DefaultText, DefaultPort, DefaultText)["port"] = DefaultPort
    BY DEF WordsOf, Words
  <2>4. \A w \in Words : config[w] \in Texts \cup Ports
    BY <2>1, <2>2, UpdateWords
  <2>5. config["port"] \in Ports
    <3>1. /\ env["port"] # Keep => env["port"] \in Ports
          /\ file["port"] # Keep => file["port"] \in Ports
      BY UpdateWords
    <3>2. config["port"] = IF env["port"] # Keep THEN env["port"]
                           ELSE IF file["port"] # Keep THEN file["port"] ELSE DefaultPort
      BY <2>1, <2>3
    <3> QED BY <3>1, <3>2, ConfigAssumption
  <2> QED BY <2>1, <2>4, <2>5
<1>4. NoPutRequest \in PutRequest
  <2>1. WordsOf(Keep, Keep, Keep) \in Updates
    BY DEF Updates
  <2> QED BY <2>1 DEF NoPutRequest, PutRequest
<1>5. ConfigTypeOK
  BY <1>3, <1>4 DEF ConfigInit, ConfigTypeOK
<1>6. \A p \in Putters : put[p].pc = "none" /\ put[p].before = {} /\ put[p].left = {}
  BY DEF ConfigInit, NoPutRequest
<1>7. config["port"] \in 1..MaxPort
  <2>1. config["port"] \in Int
    BY <1>3, ConfigAssumption
  <2>2. config["port"] > 0 /\ config["port"] <= MaxPort
    BY DEF ConfigInit, Valid
  <2> QED BY <2>1, <2>2
<1>8. LastHasItsWords
  BY <1>6 DEF LastHasItsWords
<1>9. InvalidHasWriter
  BY <1>7 DEF InvalidHasWriter
<1> QED BY <1>5, <1>6, <1>8, <1>9 DEF ConfigInv

LEMMA BeginPutKeepsInv ==
    ASSUME ConfigInv, NEW p \in Putters, NEW update \in Updates, BeginPut(p, update)
    PROVE  ConfigInv'
<1>1. /\ put \in [Putters -> PutRequest] /\ put[p].pc = "none" /\ p \notin Answered
      /\ Answered \subseteq Putters
  BY DEF ConfigInv, ConfigTypeOK, BeginPut, Answered
<1>2. PICK new : /\ new = [pc |-> "writing", update |-> update,
                           left |-> {w \in Words : update[w] # Keep}, before |-> Answered]
                 /\ put' = [put EXCEPT ![p] = new] /\ config' = config
  BY DEF BeginPut
<1>3. new \in PutRequest
  BY <1>1, <1>2 DEF PutRequest
<1>4. /\ put'[p] = new
      /\ \A q \in Putters : q # p => put'[q] = put[q]
  BY <1>1, <1>2
<1>5. ConfigTypeOK'
  BY <1>1, <1>2, <1>3 DEF ConfigInv, ConfigTypeOK
<1>6. Answered' = Answered
  BY <1>1, <1>2, <1>4 DEF Answered
<1>7. \A q \in Putters : /\ put'[q].before \subseteq Answered'
                         /\ put'[q].pc \in {"accepted", "rejected"} => put'[q].left = {}
                         /\ \A w \in put'[q].left : put'[q].update[w] # Keep
  BY <1>2, <1>4, <1>6 DEF ConfigInv
<1>8. InvalidHasWriter'
  BY <1>1, <1>2, <1>4 DEF ConfigInv, InvalidHasWriter
<1>9. LastHasItsWords'
  <2> SUFFICES ASSUME NEW q \in Putters, put'[q].pc # "none", CameLast(q)'
               PROVE  /\ \A w \in Words : put'[q].update[w] # Keep /\ w \notin put'[q].left =>
                            config'[w] = put'[q].update[w]
                      /\ put'[q].pc = "accepted" => config'["port"] \in 1..MaxPort
                      /\ put'[q].pc = "rejected" => config'["port"] \notin 1..MaxPort
    BY DEF LastHasItsWords
  <2>1. CASE q = p
    BY <1>2, <1>4, <2>1
  <2>2. CASE q # p
    <3>1. put'[p].pc = "none" \/ p \in put'[q].before
      BY <2>2 DEF CameLast
    <3> QED BY <1>1, <1>2, <1>4, <2>2, <3>1 DEF ConfigInv
  <2> QED BY <2>1, <2>2
<1> QED BY <1>5, <1>7, <1>8, <1>9 DEF ConfigInv

LEMMA AssignWordKeepsInv ==
    ASSUME ConfigInv, NEW p \in Putters, NEW w \in Words, AssignWord(p, w)
    PROVE  ConfigInv'
<1>1. /\ put \in [Putters -> PutRequest] /\ put[p].pc = "writing" /\ p \notin Answered
      /\ put[p] \in PutRequest
      /\ w \in put[p].left /\ put[p].update \in Updates /\ put[p].update[w] # Keep
      /\ config \in [Words -> Texts \cup Ports] /\ config["port"] \in Ports
  BY DEF ConfigInv, ConfigTypeOK, AssignWord, Answered, PutRequest
<1>2. PICK new : /\ new = [put[p] EXCEPT !.left = @ \ {w}]
                 /\ put' = [put EXCEPT ![p] = new]
                 /\ config' = [config EXCEPT ![w] = put[p].update[w]]
  BY DEF AssignWord
<1>3. /\ new \in PutRequest /\ new.pc = "writing" /\ new.update = put[p].update
      /\ new.left = put[p].left \ {w} /\ new.before = put[p].before
  BY <1>1, <1>2 DEF PutRequest
<1>4. /\ put'[p] = new
      /\ \A q \in Putters : q # p => put'[q] = put[q]
      /\ config'[w] = put[p].update[w]
      /\ \A v \in Words : v # w => config'[v] = config[v]
  BY <1>1, <1>2
<1>5. ConfigTypeOK'
  <2>1. put[p].update[w] \in Texts \cup Ports /\ (w = "port" => put[p].update[w] \in Ports)
    BY <1>1, UpdateWords
  <2>2. config' \in [Words -> Texts \cup Ports]
    BY <1>1, <1>2, <2>1
  <2>3. config'["port"] \in Ports
    <3>1. "port" \in Words
      BY DEF Words
    <3> QED BY <1>1, <1>4, <2>1, <3>1
  <2>4. put' \in [Putters -> PutRequest]
    BY <1>1, <1>2, <1>3
  <2> QED BY <2>2, <2>3, <2>4 DEF ConfigTypeOK
<1>6. Answered' = Answered
  BY <1>1, <1>3, <1>4 DEF Answered
<1>7. \A q \in Putters : /\ put'[q].before \subseteq Answered'
                         /\ put'[q].pc \in {"accepted", "rejected"} => put'[q].left = {}
                         /\ \A v \in put'[q].left : put'[q].update[v] # Keep
  BY <1>3, <1>4, <1>6 DEF ConfigInv
<1>8. InvalidHasWriter'
  <2>1. CASE w = "port"
    BY <1>3, <1>4, <2>1 DEF InvalidHasWriter
  <2>2. CASE w # "port"
    <3>1. config'["port"] = config["port"]
      BY <1>4, <2>2 DEF Words
    <3>2. ASSUME config["port"] \notin 1..MaxPort
          PROVE  \E q \in Putters : /\ put'[q].pc \in {"writing", "rejected"}
                                    /\ put'[q].update["port"] = config["port"]
                                    /\ "port" \notin put'[q].left
      <4>1. PICK q \in Putters : /\ put[q].pc \in {"writing", "rejected"}
                                 /\ put[q].update["port"] = config["port"]
                                 /\ "port" \notin put[q].left
        BY <3>2 DEF ConfigInv, InvalidHasWriter
      <4>2. CASE q = p
        BY <1>3, <1>4, <4>1, <4>2
      <4>3. CASE q # p
        BY <1>4, <4>1, <4>3
      <4> QED BY <4>2, <4>3
    <3> QED BY <3>1, <3>2 DEF InvalidHasWriter
  <2> QED BY <2>1, <2>2
<1>9. LastHasItsWords'
  <2> SUFFICES ASSUME NEW q \in Putters, put'[q].pc # "none", CameLast(q)'
               PROVE  /\ \A v \in Words : put'[q].update[v] # Keep /\ v \notin put'[q].left =>
                            config'[v] = put'[q].update[v]
                      /\ put'[q].pc = "accepted" => config'["port"] \in 1..MaxPort
                      /\ put'[q].pc = "rejected" => config'["port"] \notin 1..MaxPort
    BY DEF LastHasItsWords
  <2>1. CASE q = p
    <3>1. CameLast(p)
      BY <1>1, <1>3, <1>4, <2>1 DEF CameLast
    <3>2. \A v \in Words : put[p].update[v] # Keep /\ v \notin put[p].left =>
             config[v] = put[p].update[v]
      BY <1>1, <3>1 DEF ConfigInv, LastHasItsWords
    <3> QED BY <1>3, <1>4, <2>1, <3>2
  <2>2. CASE q # p
    <3>1. put'[p].pc = "none" \/ p \in put'[q].before
      BY <2>2 DEF CameLast
    <3> QED BY <1>1, <1>3, <1>4, <2>2, <3>1 DEF ConfigInv
  <2> QED BY <2>1, <2>2
<1> QED BY <1>5, <1>7, <1>8, <1>9 DEF ConfigInv

LEMMA AnswerPutKeepsInv ==
    ASSUME ConfigInv, NEW p \in Putters, AnswerPut(p)
    PROVE  ConfigInv'
<1>1. /\ put \in [Putters -> PutRequest] /\ put[p].pc = "writing" /\ p \notin Answered
      /\ put[p] \in PutRequest /\ put[p].left = {}
      /\ config["port"] \in Int
  BY ConfigAssumption DEF ConfigInv, ConfigTypeOK, AnswerPut, Answered, PutRequest
<1>2. Valid(config) <=> config["port"] \in 1..MaxPort
  BY <1>1, ConfigAssumption DEF Valid
<1>3. PICK new : /\ new = [put[p] EXCEPT !.pc = IF Valid(config) THEN "accepted" ELSE "rejected"]
                 /\ put' = [put EXCEPT ![p] = new] /\ config' = config
  BY DEF AnswerPut
<1>4. /\ new \in PutRequest /\ new.update = put[p].update
      /\ new.left = {} /\ new.before = put[p].before
      /\ new.pc = IF config["port"] \in 1..MaxPort THEN "accepted" ELSE "rejected"
  BY <1>1, <1>2, <1>3 DEF PutRequest
<1>5. /\ put'[p] = new
      /\ \A q \in Putters : q # p => put'[q] = put[q]
  BY <1>1, <1>3
<1>6. ConfigTypeOK'
  BY <1>1, <1>3, <1>4 DEF ConfigInv, ConfigTypeOK
<1>7. Answered \subseteq Answered'
  BY <1>1, <1>5 DEF Answered
<1>8. \A q \in Putters : /\ put'[q].before \subseteq Answered'
                         /\ put'[q].pc \in {"accepted", "rejected"} => put'[q].left = {}
                         /\ \A v \in put'[q].left : put'[q].update[v] # Keep
  BY <1>4, <1>5, <1>7 DEF ConfigInv
<1>9. InvalidHasWriter'
  <2>1. ASSUME config["port"] \notin 1..MaxPort
        PROVE  \E q \in Putters : /\ put'[q].pc \in {"writing", "rejected"}
                                  /\ put'[q].update["port"] = config["port"]
                                  /\ "port" \notin put'[q].left
    <3>1. PICK q \in Putters : /\ put[q].pc \in {"writing", "rejected"}
                               /\ put[q].update["port"] = config["port"]
                               /\ "port" \notin put[q].left
      BY <2>1 DEF ConfigInv, InvalidHasWriter
    <3>2. CASE q = p
      BY <1>4, <1>5, <2>1, <3>1, <3>2
    <3>3. CASE q # p
      BY <1>5, <3>1, <3>3
    <3> QED BY <3>2, <3>3
  <2> QED BY <1>3, <2>1 DEF InvalidHasWriter
<1>10. LastHasItsWords'
  <2> SUFFICES ASSUME NEW q \in Putters, put'[q].pc # "none", CameLast(q)'
               PROVE  /\ \A v \in Words : put'[q].update[v] # Keep /\ v \notin put'[q].left =>
                            config'[v] = put'[q].update[v]
                      /\ put'[q].pc = "accepted" => config'["port"] \in 1..MaxPort
                      /\ put'[q].pc = "rejected" => config'["port"] \notin 1..MaxPort
    BY DEF LastHasItsWords
  <2>1. CASE q = p
    <3>1. CameLast(p)
      BY <1>1, <1>4, <1>5, <2>1 DEF CameLast
    <3>2. \A v \in Words : put[p].update[v] # Keep /\ v \notin put[p].left =>
             config[v] = put[p].update[v]
      BY <1>1, <3>1 DEF ConfigInv, LastHasItsWords
    <3> QED BY <1>1, <1>3, <1>4, <1>5, <2>1, <3>2
  <2>2. CASE q # p
    <3>1. put'[p].pc = "none" \/ p \in put'[q].before
      BY <2>2 DEF CameLast
    <3> QED BY <1>1, <1>4, <1>5, <2>2, <3>1 DEF ConfigInv
  <2> QED BY <2>1, <2>2
<1> QED BY <1>6, <1>8, <1>9, <1>10 DEF ConfigInv

LEMMA ConfigStep == ConfigInv /\ [ConfigNext]_configVars => ConfigInv'
<1> SUFFICES ASSUME ConfigInv, [ConfigNext]_configVars PROVE ConfigInv'
  OBVIOUS
<1>1. CASE ConfigNext
  BY <1>1, BeginPutKeepsInv, AssignWordKeepsInv, AnswerPutKeepsInv DEF ConfigNext
<1>2. CASE UNCHANGED configVars
  BY <1>2 DEF configVars, ConfigInv, ConfigTypeOK, Answered, InvalidHasWriter, LastHasItsWords,
             CameLast
<1> QED BY <1>1, <1>2

LEMMA ConfigInvariant == ConfigSpec => []ConfigInv
BY ConfigInitially, ConfigStep, PTL DEF ConfigSpec

\* However many requests overlap, an invalid configuration is the work of one that
\* is under way or was answered 400.
THEOREM InvalidConfigIsReported == ConfigSpec => []InvalidIsReported
<1>1. ConfigInv => InvalidIsReported
  BY DEF ConfigInv, InvalidHasWriter, InvalidIsReported
<1> QED BY <1>1, ConfigInvariant, PTL

\* A request that overlapped with no other has left what it said, and its answer
\* tells whether the configuration is valid.
THEOREM LastRequestStays == ConfigSpec => []LastPutStays
<1>1. ConfigInv => LastPutStays
  <2> SUFFICES ASSUME ConfigInv, NEW p \in Answered, CameLast(p)
               PROVE  /\ \A w \in Words : put[p].update[w] # Keep =>
                            config[w] = put[p].update[w]
                      /\ put[p].pc = "accepted" <=> config["port"] \in 1..MaxPort
    BY DEF LastPutStays
  <2>1. p \in Putters /\ put[p].pc \in {"accepted", "rejected"} /\ put[p].left = {}
    BY DEF ConfigInv, Answered
  <2>2. /\ \A w \in Words : put[p].update[w] # Keep /\ w \notin put[p].left =>
             config[w] = put[p].update[w]
        /\ put[p].pc = "accepted" => config["port"] \in 1..MaxPort
        /\ put[p].pc = "rejected" => config["port"] \notin 1..MaxPort
    BY <2>1 DEF ConfigInv, LastHasItsWords
  <2> QED BY <2>1, <2>2
<1> QED BY <1>1, ConfigInvariant, PTL

\* The answers of PUT /api/config tell what became of the configuration, for any
\* requests, texts and ports (config_handler.go:63-82).
THEOREM UpdatesAnswered == ConfigSpec => []UpdatesAreAnswered
<1>1. InvalidIsReported /\ LastPutStays => UpdatesAreAnswered
  BY DEF UpdatesAreAnswered
<1> QED BY <1>1, InvalidConfigIsReported, LastRequestStays, PTL

-----------------------------------------------------------------------------
(* HttpApi: the types, what a failed request changes, what a change is to,   *)
(* and what a success means.                                                *)

\* What a handler may answer, and when it answers with success.
LEMMA LookupAnswers ==
    ASSUME NEW stored, NEW missing \in {404, 500}
    PROVE  /\ Lookup(stored, missing) \in {0, 400, 404, 500}
           /\ Lookup(stored, missing) # 0 => \A i \in stored : Id # <<i>>
BY DEF Lookup

\* The least of some numbers.
LEMMA LeastNumber ==
    ASSUME NEW T \in SUBSET Nat, T # {}
    PROVE  \E x \in T : \A y \in T : x <= y
<1>1. PICK R : R = OpToRel(<, Nat)
  OBVIOUS
<1>2. IsWellFoundedOn(R, Nat)
  BY <1>1, NatLessThanWellFounded
<1>3. \A x, y \in Nat : y < x => <<y, x>> \in R
  BY <1>1 DEF OpToRel
<1>4. PICK x \in T : \A y \in T : ~(<<y, x>> \in R)
  BY <1>2, WFMin
<1>5. \A y \in T : ~(y < x) /\ y \in Nat /\ x \in Nat
  BY <1>3, <1>4
<1>6. \A y \in T : x <= y
  BY <1>5
<1> QED BY <1>4, <1>6

\* The counts of what one more item adds and of what it pushes out.
LEMMA OneMore ==
    ASSUME NEW old, NEW new, IsFiniteSet(old), IsFiniteSet(new),
           Cardinality(new \ old) = 1, Cardinality(old \ new) = 0
    PROVE  old \subseteq new /\ Cardinality(new) = Cardinality(old) + 1
<1>1. IsFiniteSet(old \ new) /\ IsFiniteSet(new \ old)
  BY FS_Difference
<1>2. old \ new = {}
  BY <1>1, FS_EmptySet
<1>3. new = old \cup (new \ old) /\ old \cap (new \ old) = {}
  BY <1>2
<1>4. /\ Cardinality(old \cup (new \ old)) =
            Cardinality(old) + Cardinality(new \ old) - Cardinality(old \cap (new \ old))
      /\ Cardinality({}) = 0 /\ Cardinality(old) \in Nat
  BY <1>1, FS_Union, FS_EmptySet, FS_CardinalityType
<1>5. Cardinality(new) = Cardinality(old \cup (new \ old))
      /\ Cardinality(old \cap (new \ old)) = 0
  BY <1>3, <1>4
<1> QED BY <1>2, <1>4, <1>5

\* As long as there is room each item is added to what was stored.
LEMMA RoomForAll ==
    ASSUME NEW ids, IsFiniteSet(ids), NEW n \in Nat, NEW at \in [0..n -> SUBSET ids],
           NEW capacity \in Nat, StoredInTurn(at, n, capacity),
           Cardinality(at[0]) + n <= capacity
    PROVE  at[0] \subseteq at[n] /\ Cardinality(at[n]) = Cardinality(at[0]) + n
<1> DEFINE Good(i) == at[0] \subseteq at[i] /\ Cardinality(at[i]) = Cardinality(at[0]) + i
           bad == {i \in 0..n : ~Good(i)}
<1>1. \A i \in 0..n : IsFiniteSet(at[i]) /\ Cardinality(at[i]) \in Nat
  BY FS_Subset, FS_CardinalityType
<1>2. Good(0)
  BY <1>1
<1>3. ASSUME NEW i \in 1..n, Good(i - 1) PROVE Good(i)
  <2>1. i - 1 \in 0..n /\ i \in 0..n
    OBVIOUS
  <2>2. Cardinality(at[i - 1]) = Cardinality(at[0]) + (i - 1) /\ at[0] \subseteq at[i - 1]
    BY <1>3
  <2>3. ~(Cardinality(at[i - 1]) >= capacity)
    BY <1>1, <2>1, <2>2
  <2>4. Cardinality(at[i] \ at[i - 1]) = 1 /\ Cardinality(at[i - 1] \ at[i]) = 0
    BY <2>3 DEF StoredInTurn
  <2>5. at[i - 1] \subseteq at[i] /\ Cardinality(at[i]) = Cardinality(at[i - 1]) + 1
    BY <1>1, <2>1, <2>4, OneMore
  <2>6. Cardinality(at[0]) \in Nat /\ i \in Nat
    BY <1>1
  <2> QED BY <2>2, <2>5, <2>6
<1>4. bad = {}
  <2> SUFFICES ASSUME bad # {} PROVE FALSE
    OBVIOUS
  <2>0. bad \in SUBSET Nat
    OBVIOUS
  <2>1. PICK x \in bad : \A y \in bad : x <= y
    <3> HIDE DEF bad
    <3> QED BY <2>0, LeastNumber
  <2>2. x \in 0..n /\ ~Good(x) /\ x # 0
    <3> HIDE DEF Good
    <3> QED BY <1>2, <2>1
  <2>3. x \in 1..n /\ x - 1 \in 0..n /\ ~(x <= x - 1)
    BY <2>2
  <2>4. Good(x - 1)
    BY <2>1, <2>3
  <2> QED BY <1>3, <2>2, <2>3, <2>4
<1> QED BY <1>4

\* The last item is there, and was not before.
LEMMA LastIsStored ==
    ASSUME NEW ids, NEW n \in Nat, n > 0, NEW at \in [0..n -> SUBSET ids],
           NEW capacity \in Nat, StoredInTurn(at, n, capacity)
    PROVE  at[n] \ at[0] # {}
<1>1. n \in 1..n /\ 0 \in 0..(n - 1)
  OBVIOUS
<1>2. /\ Cardinality(at[n] \ at[n - 1]) = 1
      /\ (at[n] \ at[n - 1]) \cap at[0] = {}
  BY <1>1 DEF StoredInTurn
<1>3. at[n] \ at[n - 1] # {}
  BY <1>2, FS_EmptySet
<1> QED BY <1>2, <1>3

\* The input of a batch is a sequence.
LEMMA BatchLength ==
    ASSUME NEW input \in Inputs("CreateLogs")
    PROVE  Len(input) \in Nat
<1>1. \/ input = Malformed
      \/ \E n \in 0..MaxItems : input \in [1..n -> {"valid", "invalid", "null"}]
  BY DEF Inputs
<1>2. CASE input = Malformed
  BY <1>2 DEF Malformed
<1>3. ASSUME NEW n \in 0..MaxItems, input \in [1..n -> {"valid", "invalid", "null"}]
      PROVE  Len(input) \in Nat
  <2>1. input \in Seq({"valid", "invalid", "null"})
    BY <1>3, ApiAssumption, SeqDef
  <2> QED BY <2>1
<1> QED BY <1>1, <1>2, <1>3

\* What a request to create stores.
LEMMA CreatedLogs ==
    ASSUME ApiTypeOK, NEW n \in Nat, Create(n)
    PROVE  /\ logs' \subseteq LogIds
           /\ Cardinality(logs) + n <= LogCapacity =>
                 logs \subseteq logs' /\ Cardinality(logs') = Cardinality(logs) + n
           /\ n > 0 => logs' \ logs # {}
<1>1. PICK at \in [0..n -> SUBSET LogIds] :
         at[0] = logs /\ StoredInTurn(at, n, LogCapacity) /\ logs' = at[n]
  BY DEF Create
<1>2. LogCapacity \in Nat /\ IsFiniteSet(LogIds)
  BY ApiAssumption, IdentitiesAssumption
<1>0. n \in 0..n
  OBVIOUS
<1>3. Cardinality(logs) + n <= LogCapacity =>
         logs \subseteq logs' /\ Cardinality(logs') = Cardinality(logs) + n
  BY <1>1, <1>2, RoomForAll
<1>4. n > 0 => logs' \ logs # {}
  BY <1>1, <1>2, LastIsStored
<1> QED BY <1>0, <1>1, <1>3, <1>4

\* How many entries a handler that creates is asked for.
LEMMA HowManyLogs ==
    ASSUME ApiTypeOK, CreateLog \/ CreateLogs
    PROVE  \/ code' # 0 /\ UNCHANGED <<logs, rules, alerts>>
           \/ Len(request.input) \in Nat /\ Create(Len(request.input))
<1>1. CASE CreateLog
  <2>1. CASE request.input = <<"valid">>
    <3>1. Len(request.input) = 1
      BY <2>1
    <3> QED BY <1>1, <2>1, <3>1 DEF CreateLog
  <2>2. CASE request.input # <<"valid">>
    BY <1>1, <2>2 DEF CreateLog, Refuse, Respond
  <2> QED BY <2>1, <2>2
<1>2. CASE CreateLogs
  <2>1. request.input \in Inputs("CreateLogs")
    BY <1>2 DEF CreateLogs, Handles, ApiTypeOK
  <2> QED BY <1>2, <2>1, BatchLength DEF CreateLogs, Refuse, Respond
<1> QED BY <1>1, <1>2

\* A scan that has room for an alert of every active rule evicts none.
LEMMA ScanWithRoom ==
    ASSUME ApiTypeOK, ScanNow, NEW a \in StoredAlerts, alerts'[a] # alerts[a]
    PROVE  /\ alerts'[a] = "none"
           /\ Cardinality(StoredAlerts) + Cardinality(ActiveRules) > AlertCapacity
<1> DEFINE Recorded(at, n) ==
               /\ at[0] = StoredAlerts /\ StoredInTurn(at, n, AlertCapacity)
               /\ alerts' = [z \in AlertIds |->
                                CASE z \notin at[n] -> "none"
                                  [] z \in at[n] \cap StoredAlerts -> alerts[z]
                                  [] OTHER -> "open"]
<1>0. PICK n \in 0..Cardinality(ActiveRules) :
         \E at \in [0..n -> SUBSET AlertIds] : Recorded(at, n)
  BY DEF ScanNow
<1>1. PICK at \in [0..n -> SUBSET AlertIds] : Recorded(at, n)
  BY <1>0
<1>2. a \in AlertIds /\ a \notin at[n] /\ alerts'[a] = "none"
  BY <1>1 DEF StoredAlerts
<1>3. /\ AlertCapacity \in Nat /\ IsFiniteSet(AlertIds)
      /\ IsFiniteSet(ActiveRules) /\ IsFiniteSet(StoredAlerts)
  BY ApiAssumption, IdentitiesAssumption, FS_Subset DEF ActiveRules, StoredAlerts
<1>4. /\ Cardinality(ActiveRules) \in Nat /\ Cardinality(StoredAlerts) \in Nat
      /\ n \in Nat /\ n <= Cardinality(ActiveRules)
  BY <1>3, FS_CardinalityType
<1>5. ~(Cardinality(at[0]) + n <= AlertCapacity)
  BY <1>1, <1>2, <1>3, <1>4, RoomForAll
<1>6. ~(Cardinality(StoredAlerts) + n <= AlertCapacity)
  BY <1>1, <1>5
<1> QED BY <1>2, <1>3, <1>4, <1>6

\* A request that is refused keeps the types.
LEMMA RefusalKeepsTypes ==
    ASSUME ApiTypeOK, code' \in {0, 400, 404, 405, 500}, request' = NoRequest,
           UNCHANGED <<logs, rules, alerts>>
    PROVE  ApiTypeOK'
BY DEF ApiTypeOK

-----------------------------------------------------------------------------
\* Every handler keeps the types.
LEMMA HandleKeepsTypes ==
    ASSUME ApiTypeOK, Handle
    PROVE  ApiTypeOK'
<1> USE DEF Refuse, Respond
<1>1. CASE Preflight \/ MethodNotAllowed \/ List
  BY <1>1, RefusalKeepsTypes DEF Preflight, MethodNotAllowed, List
<1>2. CASE GetLog \/ GetRule \/ GetAlert
  BY <1>2, RefusalKeepsTypes, LookupAnswers DEF GetLog, GetRule, GetAlert
<1>3. CASE QueryLogs \/ QueryAlerts
  BY <1>3, RefusalKeepsTypes DEF QueryLogs, QueryAlerts
<1>4. CASE CreateLog \/ CreateLogs
  <2>1. ASSUME NEW n \in Nat, Create(n) PROVE ApiTypeOK'
    <3>1. logs' \subseteq LogIds
      BY <2>1, CreatedLogs
    <3> QED BY <2>1, <3>1 DEF Create, ApiTypeOK
  <2>2. CASE code' # 0 /\ UNCHANGED <<logs, rules, alerts>>
    BY <1>4, <2>2, RefusalKeepsTypes DEF CreateLog, CreateLogs, Create
  <2> QED BY <1>4, <2>1, <2>2, HowManyLogs
<1>5. CASE DeleteLog
  BY <1>5, LookupAnswers DEF DeleteLog, ApiTypeOK
<1>6. CASE CreateRule
  <2>1. CASE request.input = <<"valid">>
    <3>1. [status |-> "active", edited |-> FALSE] \in RuleState
      BY DEF RuleState, RuleStatuses
    <3>2. PICK r \in RuleIds :
             rules' = [rules EXCEPT ![r] = [status |-> "active", edited |-> FALSE]]
      BY <1>6, <2>1 DEF CreateRule
    <3>3. rules' \in [RuleIds -> RuleState]
      BY <3>1, <3>2 DEF ApiTypeOK
    <3> QED BY <1>6, <2>1, <3>3 DEF CreateRule, ApiTypeOK
  <2> QED BY <1>6, <2>1, RefusalKeepsTypes DEF CreateRule
<1>7. CASE UpdateRule
  <2>1. CASE Id = <<>> \/ request.input = Malformed
    BY <1>7, <2>1, RefusalKeepsTypes DEF UpdateRule
  <2>2. CASE ~(Id = <<>> \/ request.input = Malformed)
    <3>1. \A r \in StoredRules : [rules[r] EXCEPT !.edited = TRUE] \in RuleState
      <4> SUFFICES ASSUME NEW r \in StoredRules
                   PROVE  [rules[r] EXCEPT !.edited = TRUE] \in RuleState
        OBVIOUS
      <4>1. rules[r] \in [status : RuleStatuses, edited : BOOLEAN]
        BY DEF StoredRules, ApiTypeOK, RuleState
      <4> QED BY <4>1 DEF RuleState
    <3>2. rules' = [r \in RuleIds |-> IF r \in StoredRules /\ Id = <<r>>
                                     THEN [rules[r] EXCEPT !.edited = TRUE] ELSE rules[r]]
      BY <1>7, <2>2 DEF UpdateRule, ChangeRule
    <3>3. rules' \in [RuleIds -> RuleState]
      BY <3>1, <3>2 DEF ApiTypeOK
    <3> QED BY <1>7, <2>2, <3>3, LookupAnswers DEF UpdateRule, ApiTypeOK
  <2> QED BY <2>1, <2>2
<1>8. CASE DeleteRule
  BY <1>8, LookupAnswers DEF DeleteRule, ChangeRule, ApiTypeOK, RuleState
<1>9. CASE ToggleRuleStatus
  BY <1>9, RefusalKeepsTypes, LookupAnswers
     DEF ToggleRuleStatus, ChangeRule, ApiTypeOK, RuleState, StoredRules
<1>10. CASE AcknowledgeAlert \/ ResolveAlert \/ DeleteAlert
  BY <1>10, RefusalKeepsTypes, LookupAnswers
     DEF AcknowledgeAlert, ResolveAlert, DeleteAlert, ChangeAlert, ApiTypeOK, AlertState
<1>11. CASE ScanNow
  BY <1>11 DEF ScanNow, ApiTypeOK, AlertState
<1> QED
  BY <1>1, <1>2, <1>3, <1>4, <1>5, <1>6, <1>7, <1>8, <1>9, <1>10, <1>11 DEF Handle

\* The variables of HttpApi always have their types, whatever is requested.
THEOREM ApiTypeCorrect == ApiSpec => []ApiTypeOK
<1>1. ApiInit => ApiTypeOK
  BY DEF ApiInit, ApiTypeOK, RuleState, AlertState
<1>2. ApiTypeOK /\ [ApiNext]_apiVars => ApiTypeOK'
  <2> SUFFICES ASSUME ApiTypeOK, [ApiNext]_apiVars PROVE ApiTypeOK'
    OBVIOUS
  <2>1. CASE Handle
    BY <2>1, HandleKeepsTypes
  <2>2. ASSUME NEW m \in Methods, NEW p \in Paths, NEW input,
               Receive([method |-> m, path |-> p, input |-> input])
        PROVE  ApiTypeOK'
    BY <2>2 DEF Receive, ApiTypeOK
  <2>3. CASE UNCHANGED apiVars
    BY <2>3 DEF ApiTypeOK, apiVars
  <2> QED BY <2>1, <2>2, <2>3 DEF ApiNext
<1> QED BY <1>1, <1>2, PTL DEF ApiSpec

-----------------------------------------------------------------------------
\* A handler that answers with an error has changed nothing.
LEMMA FailedHandlerHasNoEffect ==
    ASSUME ApiTypeOK, Handle, code' # 0
    PROVE  UNCHANGED <<logs, rules, alerts>>
<1> USE DEF Refuse, Respond
<1>1. CASE \/ Preflight \/ MethodNotAllowed \/ List \/ GetLog \/ GetRule \/ GetAlert
           \/ QueryLogs \/ QueryAlerts
  BY <1>1 DEF Preflight, MethodNotAllowed, List, GetLog, GetRule, GetAlert,
              QueryLogs, QueryAlerts
<1>2. CASE CreateLog \/ CreateLogs \/ CreateRule \/ ScanNow
  BY <1>2 DEF CreateLog, CreateLogs, Create, CreateRule, ScanNow
<1>3. CASE DeleteLog
  BY <1>3, LookupAnswers DEF DeleteLog
<1>4. CASE UpdateRule \/ DeleteRule \/ ToggleRuleStatus
  <2>1. \/ UNCHANGED <<logs, rules, alerts>>
        \/ /\ \A r \in StoredRules : Id # <<r>>
           /\ rules' = [r \in RuleIds |-> rules[r]]
           /\ UNCHANGED <<logs, alerts>>
    BY <1>4, LookupAnswers DEF UpdateRule, DeleteRule, ToggleRuleStatus, ChangeRule
  <2> QED BY <2>1 DEF ApiTypeOK
<1>5. CASE AcknowledgeAlert \/ ResolveAlert \/ DeleteAlert
  <2>1. \/ UNCHANGED <<logs, rules, alerts>>
        \/ /\ \A a \in StoredAlerts : Id # <<a>>
           /\ alerts' = [a \in AlertIds |-> alerts[a]]
           /\ UNCHANGED <<logs, rules>>
    BY <1>5, LookupAnswers DEF AcknowledgeAlert, ResolveAlert, DeleteAlert, ChangeAlert
  <2> QED BY <2>1 DEF ApiTypeOK
<1> QED
  BY <1>1, <1>2, <1>3, <1>4, <1>5 DEF Handle

\* A request that is answered with an error has changed nothing: the identity a
\* handler looks up is the one it would have changed, and the rest is refused
\* before the first change.
THEOREM FailuresHaveNoEffect == ApiSpec => FailureHasNoEffect
<1>1. ApiTypeOK /\ [ApiNext]_apiVars
        => [code' # 0 => UNCHANGED <<logs, rules, alerts>>]_apiVars
  BY FailedHandlerHasNoEffect DEF ApiNext, Receive, apiVars
<1> QED BY <1>1, ApiTypeCorrect, PTL DEF ApiSpec, FailureHasNoEffect

\* The handlers of the routes, and those no exact route leads to.
ExactHandlers == {"CreateLog", "QueryLogs", "CreateLogs", "List", "CreateRule", "QueryAlerts",
                  "ScanNow"}

LEMMA ExactHandlersOf ==
    /\ DOMAIN ExactRoutes = ExactPaths
    /\ ExactRoutes[<<"logs", "batch">>] = [POST |-> "CreateLogs"]
    /\ ExactRoutes[<<"logs">>] = [POST |-> "CreateLog", GET |-> "QueryLogs"]
    /\ \A p \in ExactPaths : \A m \in DOMAIN ExactRoutes[p] :
          /\ ExactRoutes[p][m] \in ExactHandlers
          /\ ExactRoutes[p][m] \in {"CreateLog", "CreateLogs"} =>
                m = "POST" /\ p \in {<<"logs">>, <<"logs", "batch">>}
          /\ ExactRoutes[p][m] = "ScanNow" => p = <<"scheduler", "scan">>
<1>1. DOMAIN ExactRoutes = ExactPaths
  BY DEF ExactRoutes
<1>2. <<"logs", "batch">> \in ExactPaths /\ <<"logs", "batch">> # <<"logs">>
  BY DEF ExactPaths
<1>3. ExactRoutes[<<"logs", "batch">>] = [POST |-> "CreateLogs"]
  BY <1>2 DEF ExactRoutes
<1>4. ASSUME NEW p \in ExactPaths, NEW m \in DOMAIN ExactRoutes[p]
      PROVE  /\ ExactRoutes[p][m] \in ExactHandlers
             /\ ExactRoutes[p][m] \in {"CreateLog", "CreateLogs"} =>
                   m = "POST" /\ p \in {<<"logs">>, <<"logs", "batch">>}
             /\ ExactRoutes[p][m] = "ScanNow" => p = <<"scheduler", "scan">>
  <2>1. \/ p = <<"logs">> /\ ExactRoutes[p] = [POST |-> "CreateLog", GET |-> "QueryLogs"]
        \/ p = <<"logs", "batch">> /\ ExactRoutes[p] = [POST |-> "CreateLogs"]
        \/ ExactRoutes[p] \in {[POST |-> "CreateRule", GET |-> "List"],
                               [GET |-> "QueryAlerts"], AnyMethod("List")}
        \/ p = <<"scheduler", "scan">> /\ ExactRoutes[p] = AnyMethod("ScanNow")
    BY DEF ExactRoutes
  <2> QED
    BY <2>1 DEF AnyMethod, ExactHandlers
<1>5. <<"logs">> \in ExactPaths
  BY DEF ExactPaths
<1>6. ExactRoutes[<<"logs">>] = [POST |-> "CreateLog", GET |-> "QueryLogs"]
  BY <1>5 DEF ExactRoutes
<1> QED
  BY <1>1, <1>3, <1>4, <1>6

LEMMA SuffixHandlersOf ==
    /\ DOMAIN SuffixRoutes =
         {<<"rules", "status">>, <<"alerts", "acknowledge">>, <<"alerts", "resolve">>}
    /\ SuffixRoutes[<<"rules", "status">>] = [PUT |-> "ToggleRuleStatus"]
    /\ SuffixRoutes[<<"alerts", "acknowledge">>] = [POST |-> "AcknowledgeAlert"]
    /\ SuffixRoutes[<<"alerts", "resolve">>] = [POST |-> "ResolveAlert"]
BY DEF SuffixRoutes

LEMMA SubtreeHandlersOf ==
    /\ DOMAIN SubtreeRoutes = {"logs", "rules", "alerts"}
    /\ SubtreeRoutes["logs"] = [GET |-> "GetLog", DELETE |-> "DeleteLog"]
    /\ SubtreeRoutes["rules"] = [GET |-> "GetRule", PUT |-> "UpdateRule", DELETE |-> "DeleteRule"]
    /\ SubtreeRoutes["alerts"] = [GET |-> "GetAlert", DELETE |-> "DeleteAlert"]
BY DEF SubtreeRoutes

LEMMA HandlerOptions ==
    ASSUME NEW q
    PROVE  \/ Handler(q) \in {"Preflight", "MethodNotAllowed"}
           \/ q.method \in DOMAIN Route(q.path) /\ Handler(q) = Route(q.path)[q.method]
BY DEF Handler

\* A handler that changes an object is reached below the path of its collection,
\* and one that fills a store on its own path.
LEMMA ChangingHandlersAreBelow ==
    ASSUME NEW q, q.path \in Paths
    PROVE  /\ Handler(q) \in {"CreateLog", "CreateLogs"} =>
                 q.method = "POST" /\ q.path \in {<<"logs">>, <<"logs", "batch">>}
           /\ Handler(q) = "ScanNow" => q.path = <<"scheduler", "scan">>
           /\ Handler(q) = "DeleteLog" => Len(q.path) > 1 /\ q.path[1] = "logs"
           /\ Handler(q) \in {"UpdateRule", "DeleteRule", "ToggleRuleStatus"} =>
                 Len(q.path) > 1 /\ q.path[1] = "rules"
           /\ Handler(q) \in {"AcknowledgeAlert", "ResolveAlert", "DeleteAlert"} =>
                 Len(q.path) > 1 /\ q.path[1] = "alerts"
<1> DEFINE p == q.path
<1>1. CASE p \in ExactPaths
  <2>1. Route(p) = ExactRoutes[p]
    BY <1>1, ExactHandlersOf DEF Route
  <2>2. \/ Handler(q) \in {"Preflight", "MethodNotAllowed"}
        \/ q.method \in DOMAIN Route(p) /\ Handler(q) = Route(p)[q.method]
    BY HandlerOptions
  <2>3. /\ Handler(q) \in ExactHandlers \cup {"Preflight", "MethodNotAllowed"}
        /\ Handler(q) \in {"CreateLog", "CreateLogs"} =>
              q.method = "POST" /\ p \in {<<"logs">>, <<"logs", "batch">>}
        /\ Handler(q) = "ScanNow" => p = <<"scheduler", "scan">>
    BY <1>1, <2>1, <2>2, ExactHandlersOf
  <2> QED
    BY <2>3 DEF ExactHandlers
<1>2. CASE p \notin ExactPaths
  <2>1. Len(p) > 1 /\ p[1] \in {"logs", "rules", "alerts"} /\ Head(p) = p[1]
    <3>1. /\ p \in Seq({p[i] : i \in DOMAIN p})
          /\ Len(p) > 1 /\ p[1] \in {"logs", "rules", "alerts"}
      BY <1>2, PathsAssumption, ExactHandlersOf, SubtreeHandlersOf
    <3> HIDE DEF p
    <3>2. PICK F : p \in Seq(F)
      BY <3>1
    <3> QED
      BY <3>1, <3>2
  <2>2. CASE <<p[1], Last(p)>> \in DOMAIN SuffixRoutes
    <3>1. Route(p) = SuffixRoutes[<<p[1], Last(p)>>]
      BY <1>2, <2>1, <2>2, ExactHandlersOf DEF Route
    <3>2. \/ p[1] = "rules" /\ Route(p) = [PUT |-> "ToggleRuleStatus"]
          \/ p[1] = "alerts" /\ Route(p) = [POST |-> "AcknowledgeAlert"]
          \/ p[1] = "alerts" /\ Route(p) = [POST |-> "ResolveAlert"]
      BY <2>2, <3>1, SuffixHandlersOf
    <3> QED
      BY <2>1, <3>2 DEF Handler
  <2>3. CASE <<p[1], Last(p)>> \notin DOMAIN SuffixRoutes
    <3>1. Route(p) = SubtreeRoutes[p[1]]
      BY <1>2, <2>1, <2>3, ExactHandlersOf DEF Route
    <3>2. \/ p[1] = "logs" /\ Route(p) = [GET |-> "GetLog", DELETE |-> "DeleteLog"]
          \/ /\ p[1] = "rules"
             /\ Route(p) = [GET |-> "GetRule", PUT |-> "UpdateRule", DELETE |-> "DeleteRule"]
          \/ p[1] = "alerts" /\ Route(p) = [GET |-> "GetAlert", DELETE |-> "DeleteAlert"]
      BY <2>1, <3>1, SubtreeHandlersOf
    <3> QED
      BY <2>1, <3>2 DEF Handler
  <2> QED
    BY <2>2, <2>3
<1> QED
  BY <1>1, <1>2

\* An identity of one segment is the segment that follows the collection.
LEMMA IdentityIsSecond ==
    ASSUME NEW path \in Paths, Len(path) > 1, NEW i, ExtractID(path) = <<i>>
    PROVE  path[2] = i
<1> DEFINE E == {path[j] : j \in DOMAIN path}
           rest == Tail(path)
<1>1. path \in Seq(E)
  BY PathsAssumption
<1>2. rest \in Seq(E) /\ Len(rest) = Len(path) - 1 /\ rest[1] = path[2] /\ Len(rest) \in Nat
  <2> HIDE DEF E
  <2> QED
    BY <1>1
<1>3. \/ rest = <<i>>
      \/ SubSeq(rest, 1, Len(rest) - 1) = <<i>>
  BY DEF ExtractID, Front
<1>4. <<i>>[1] = i /\ Len(<<i>>) = 1
  OBVIOUS
<1>5. CASE rest = <<i>>
  BY <1>2, <1>4, <1>5
<1>6. CASE SubSeq(rest, 1, Len(rest) - 1) = <<i>>
  <2> HIDE DEF rest, E
  <2>1. Len(rest) - 1 = 1
    <3>1. PICK F : rest \in Seq(F)
      BY <1>2
    <3>2. Len(SubSeq(rest, 1, Len(rest) - 1)) = IF Len(rest) >= 1 THEN Len(rest) - 1 ELSE 0
      BY <1>2, <3>1
    <3>3. Len(rest) >= 1
      BY <1>2
    <3> QED
      BY <1>2, <1>4, <1>6, <3>2, <3>3
  <2>2. SubSeq(rest, 1, 1)[1] = rest[1]
    <3>1. \E F : rest \in Seq(F)
      BY <1>2
    <3> QED
      BY <1>2, <2>1, <3>1
  <2> QED
    BY <1>2, <1>4, <1>6, <2>1, <2>2
<1> QED
  BY <1>3, <1>5, <1>6

\* A request that deletes what its path names reaches the handler that does.
LEMMA DeletesAreRouted ==
    ASSUME NEW i \in LogIds \cup RuleIds \cup AlertIds, NEW q, q.method = "DELETE"
    PROVE  /\ q.path = <<"logs", i>> => Handler(q) = "DeleteLog"
           /\ q.path = <<"rules", i>> => Handler(q) = "DeleteRule"
           /\ q.path = <<"alerts", i>> => Handler(q) = "DeleteAlert"
           /\ \A c : ExtractID(<<c, i>>) = <<i>>
<1>1. i \notin {"", "batch", "sources", "services", "active", "status", "recent",
                "acknowledge", "resolve"}
  BY IdentitiesAssumption
<1>2. ASSUME NEW c \in {"logs", "rules", "alerts"}, q.path = <<c, i>>
      PROVE  Route(q.path) = SubtreeRoutes[c]
  <2>1. Head(q.path) = c /\ Last(q.path) = i
    BY <1>2 DEF Last
  <2>2. q.path \notin ExactPaths
    <3>1. \A p \in ExactPaths :
            \/ p = <<p[1]>>
            \/ p[1] = "scheduler"
            \/ p[2] \in {"batch", "sources", "services", "active", "recent"}
      BY DEF ExactPaths
    <3>2. <<c, i>>[1] = c /\ <<c, i>>[2] = i /\ \A x : <<c, i>> # <<x>>
      OBVIOUS
    <3> QED
      BY <1>1, <1>2, <3>1, <3>2
  <2>3. <<c, i>> \notin DOMAIN SuffixRoutes
    BY <1>1, SuffixHandlersOf
  <2> QED
    BY <2>1, <2>2, <2>3, ExactHandlersOf DEF Route
<1>3. ASSUME NEW c PROVE ExtractID(<<c, i>>) = <<i>>
  <2>1. Tail(<<c, i>>) = <<i>> /\ Last(<<i>>) = i
    BY DEF Last
  <2> QED
    BY <1>1, <2>1 DEF ExtractID
<1>4. "DELETE" \in DOMAIN Route(q.path) => Handler(q) = Route(q.path)["DELETE"]
  BY DEF Handler
<1>5. q.path = <<"logs", i>> => Handler(q) = "DeleteLog"
  BY <1>2, <1>4, SubtreeHandlersOf
<1>6. q.path = <<"rules", i>> => Handler(q) = "DeleteRule"
  BY <1>2, <1>4, SubtreeHandlersOf
<1>7. q.path = <<"alerts", i>> => Handler(q) = "DeleteAlert"
  BY <1>2, <1>4, SubtreeHandlersOf
<1> QED
  BY <1>3, <1>5, <1>6, <1>7

\* A handler for each request: what another one is for, it does not do.
LEMMA OnlyItsHandler ==
    ASSUME Handle
    PROVE  /\ request # NoRequest
           /\ Handler(request) = "DeleteLog" => DeleteLog
           /\ Handler(request) = "DeleteRule" => DeleteRule
           /\ Handler(request) = "DeleteAlert" => DeleteAlert
           /\ Handler(request) \in {"CreateLog", "CreateLogs"} => CreateLog \/ CreateLogs
BY DEF Handle, Handles, Preflight, MethodNotAllowed, List, GetLog, QueryLogs, CreateLog, CreateLogs,
       DeleteLog, GetRule, CreateRule, UpdateRule, DeleteRule, ToggleRuleStatus, GetAlert,
       QueryAlerts, AcknowledgeAlert, ResolveAlert, DeleteAlert, ScanNow

\* What a handler changes has the identity in the path, below its collection.
LEMMA HandlersChangeTheNamed ==
    ASSUME ApiTypeOK, Handle
    PROVE  /\ \A l \in logs \ logs' :
                 \/ Handler(request) = "DeleteLog" /\ Id = <<l>>
                 \/ /\ Handler(request) \in {"CreateLog", "CreateLogs"}
                    /\ Cardinality(logs) + Len(request.input) > LogCapacity
           /\ \A r \in StoredRules : rules'[r] # rules[r] =>
                 /\ Handler(request) \in {"UpdateRule", "DeleteRule", "ToggleRuleStatus"}
                 /\ Id = <<r>>
           /\ \A a \in StoredAlerts : alerts'[a] # alerts[a] =>
                 \/ /\ Handler(request) \in {"AcknowledgeAlert", "ResolveAlert", "DeleteAlert"}
                    /\ Id = <<a>>
                 \/ /\ Handler(request) = "ScanNow" /\ alerts'[a] = "none"
                    /\ Cardinality(StoredAlerts) + Cardinality(ActiveRules) > AlertCapacity
<1> USE DEF Refuse, Respond, Handles
<1>1. CASE \/ Preflight \/ MethodNotAllowed \/ List \/ GetLog \/ GetRule \/ GetAlert
           \/ QueryLogs \/ QueryAlerts
  BY <1>1 DEF Preflight, MethodNotAllowed, List, GetLog, GetRule, GetAlert,
              QueryLogs, QueryAlerts
<1>2. CASE CreateLog \/ CreateLogs
  <2>1. Handler(request) \in {"CreateLog", "CreateLogs"} /\ UNCHANGED <<rules, alerts>>
    BY <1>2 DEF CreateLog, CreateLogs, Create
  <2>2. CASE UNCHANGED <<logs, rules, alerts>>
    BY <2>2
  <2>3. CASE Len(request.input) \in Nat /\ Create(Len(request.input))
    <3>1. Cardinality(logs) + Len(request.input) <= LogCapacity => logs \subseteq logs'
      BY <2>3, CreatedLogs
    <3>2. Cardinality(logs) \in Nat /\ LogCapacity \in Nat
      BY ApiAssumption, IdentitiesAssumption, FS_Subset, FS_CardinalityType DEF ApiTypeOK
    <3>3. \/ Cardinality(logs) + Len(request.input) <= LogCapacity
          \/ Cardinality(logs) + Len(request.input) > LogCapacity
      BY <2>3, <3>2
    <3> QED BY <2>1, <3>1, <3>3
  <2> QED BY <1>2, <2>2, <2>3, HowManyLogs
<1>3. CASE DeleteLog
  BY <1>3 DEF DeleteLog
<1>4. CASE CreateRule
  <2>1. CASE request.input = <<"valid">>
    <3>1. PICK r \in RuleIds \ StoredRules :
             rules' = [rules EXCEPT ![r] = [status |-> "active", edited |-> FALSE]]
      BY <1>4, <2>1 DEF CreateRule
    <3>2. \A z \in StoredRules : rules'[z] = rules[z]
      BY <3>1 DEF StoredRules
    <3> QED
      BY <1>4, <2>1, <3>2 DEF CreateRule
  <2> QED
    BY <1>4, <2>1 DEF CreateRule
<1>5. CASE UpdateRule \/ DeleteRule \/ ToggleRuleStatus
  <2>1. /\ UNCHANGED <<logs, alerts>>
        /\ \A r \in StoredRules : rules'[r] # rules[r] => Id = <<r>>
    BY <1>5 DEF UpdateRule, DeleteRule, ToggleRuleStatus, ChangeRule, StoredRules
  <2> QED
    BY <1>5, <2>1 DEF UpdateRule, DeleteRule, ToggleRuleStatus
<1>6. CASE AcknowledgeAlert \/ ResolveAlert \/ DeleteAlert
  <2>1. /\ UNCHANGED <<logs, rules>>
        /\ \A a \in StoredAlerts : alerts'[a] # alerts[a] => Id = <<a>>
    BY <1>6 DEF AcknowledgeAlert, ResolveAlert, DeleteAlert, ChangeAlert, StoredAlerts
  <2> QED
    BY <1>6, <2>1 DEF AcknowledgeAlert, ResolveAlert, DeleteAlert
<1>7. CASE ScanNow
  <2>1. Handler(request) = "ScanNow" /\ UNCHANGED <<logs, rules>>
    BY <1>7 DEF ScanNow
  <2> QED
    BY <1>7, <2>1, ScanWithRoom
<1> QED
  BY <1>1, <1>2, <1>3, <1>4, <1>5, <1>6, <1>7 DEF Handle

\* An object changes only by a request whose path names it, and goes only by one or
\* by a request that fills its store beyond the capacity, for any paths,
\* identities and capacities.
THEOREM ChangesAreNamed == ApiSpec => OnlyTheNamedChanges
<1> DEFINE Named ==
             /\ \A l \in logs \ logs' : RequestNames("logs", l) \/ FillsLogs
             /\ \A r \in StoredRules : rules'[r] # rules[r] => RequestNames("rules", r)
             /\ \A a \in StoredAlerts : alerts'[a] # alerts[a] =>
                   \/ RequestNames("alerts", a)
                   \/ FillsAlerts /\ alerts'[a] = "none"
<1>1. ApiTypeOK /\ [ApiNext]_apiVars => [Named]_apiVars
  <2> SUFFICES ASSUME ApiTypeOK, ApiNext PROVE Named
    OBVIOUS
  <2>1. CASE UNCHANGED <<logs, rules, alerts>>
    BY <2>1
  <2>2. CASE Handle
    <3>1. request.path \in Paths
      BY <2>2, OnlyItsHandler DEF ApiTypeOK
    <3>2. ASSUME NEW i, Id = <<i>>, Len(request.path) > 1 PROVE request.path[2] = i
      BY <3>1, <3>2, IdentityIsSecond DEF Id
    <3>3. \A l \in logs \ logs' : RequestNames("logs", l) \/ FillsLogs
      BY <2>2, <3>1, <3>2, HandlersChangeTheNamed, ChangingHandlersAreBelow
         DEF RequestNames, FillsLogs
    <3>4. \A r \in StoredRules : rules'[r] # rules[r] => RequestNames("rules", r)
      BY <2>2, <3>1, <3>2, HandlersChangeTheNamed, ChangingHandlersAreBelow DEF RequestNames
    <3>5. \A a \in StoredAlerts : alerts'[a] # alerts[a] =>
             \/ RequestNames("alerts", a)
             \/ FillsAlerts /\ alerts'[a] = "none"
      BY <2>2, <3>1, <3>2, HandlersChangeTheNamed, ChangingHandlersAreBelow
         DEF RequestNames, FillsAlerts
    <3> QED
      BY <3>3, <3>4, <3>5
  <2> QED
    BY <2>1, <2>2 DEF ApiNext, Receive
<1> QED
  BY <1>1, ApiTypeCorrect, PTL DEF ApiSpec, OnlyTheNamedChanges

\* What a request to create entries has done: SuccessIsDone's first part.
BatchIsStored ==
    /\ Cardinality(logs) + Len(request.input) <= LogCapacity =>
          logs \subseteq logs'
          /\ Cardinality(logs') = Cardinality(logs) + Len(request.input)
    /\ Len(request.input) > 0 => logs' \ logs # {}

\* What a request that is answered with success asked for is done.
LEMMA SuccessfulHandlers ==
    ASSUME ApiTypeOK, Handle, code' = 0
    PROVE  /\ Handler(request) \in {"CreateLog", "CreateLogs"} => BatchIsStored
           /\ \A i : Handler(request) = "DeleteLog" /\ Id = <<i>> => i \in logs \ logs'
           /\ \A i : Handler(request) = "DeleteRule" /\ Id = <<i>> =>
                 i \in StoredRules /\ rules'[i] = NoRule
           /\ \A i : Handler(request) = "DeleteAlert" /\ Id = <<i>> =>
                 i \in StoredAlerts /\ alerts'[i] = "none"
<1> USE DEF Respond, Refuse
<1>0. <<>> # <<1>> /\ \A i : <<i>> # <<>> /\ \A j : <<i>> = <<j>> => i = j
  OBVIOUS
<1>1. ASSUME Handler(request) \in {"CreateLog", "CreateLogs"} PROVE BatchIsStored
  <2>1. CreateLog \/ CreateLogs
    BY <1>1, OnlyItsHandler
  <2>2. Len(request.input) \in Nat /\ Create(Len(request.input))
    BY <2>1, HowManyLogs
  <2> QED BY <2>2, CreatedLogs DEF BatchIsStored
<1>2. ASSUME NEW stored, NEW missing \in {404, 500}, NEW i, Id = <<i>>,
             Lookup(stored, missing) = 0
      PROVE  i \in stored
  BY <1>0, <1>2 DEF Lookup
<1>3. ASSUME NEW i, Handler(request) = "DeleteLog", Id = <<i>> PROVE i \in logs \ logs'
  <2>1. logs' = {l \in logs : Id # <<l>>} /\ Lookup(logs, 404) = 0
    BY <1>3, OnlyItsHandler DEF DeleteLog
  <2> QED
    BY <1>2, <1>3, <2>1
<1>4. ASSUME NEW i, Handler(request) = "DeleteRule", Id = <<i>>
      PROVE  i \in StoredRules /\ rules'[i] = NoRule
  <2>1. ChangeRule([r \in StoredRules |-> NoRule]) /\ Lookup(StoredRules, 404) = 0
    BY <1>4, OnlyItsHandler DEF DeleteRule
  <2>2. i \in StoredRules
    BY <1>2, <1>4, <2>1
  <2> QED
    BY <1>4, <2>1, <2>2 DEF ChangeRule, StoredRules
<1>5. ASSUME NEW i, Handler(request) = "DeleteAlert", Id = <<i>>
      PROVE  i \in StoredAlerts /\ alerts'[i] = "none"
  <2>1. ChangeAlert("none") /\ Lookup(StoredAlerts, 404) = 0
    BY <1>5, OnlyItsHandler DEF DeleteAlert
  <2>2. i \in StoredAlerts
    BY <1>2, <1>5, <2>1
  <2> QED
    BY <1>5, <2>1, <2>2 DEF ChangeAlert, StoredAlerts
<1> QED
  BY <1>1, <1>3, <1>4, <1>5

\* Success means done: what is created is added as far as there is room, and never
\* lost entirely; the named object was there and is there no longer.  For any
\* identities and capacities.
THEOREM SuccessesAreDone == ApiSpec => SuccessIsDone
<1>1. ApiTypeOK /\ [ApiNext]_apiVars =>
        [/\ \A path \in {<<"logs">>, <<"logs", "batch">>} : Succeeds("POST", path) => BatchIsStored
         /\ \A l \in LogIds : Succeeds("DELETE", <<"logs", l>>) => l \in logs \ logs'
         /\ \A r \in RuleIds : Succeeds("DELETE", <<"rules", r>>) =>
               rules[r] # NoRule /\ rules'[r] = NoRule
         /\ \A a \in AlertIds : Succeeds("DELETE", <<"alerts", a>>) =>
               alerts[a] # "none" /\ alerts'[a] = "none"]_apiVars
  <2> SUFFICES ASSUME ApiTypeOK, ApiNext, NEW method, NEW path, Succeeds(method, path)
               PROVE  /\ method = "POST" /\ path \in {<<"logs">>, <<"logs", "batch">>} =>
                            BatchIsStored
                      /\ method = "DELETE" =>
                            /\ \A l \in LogIds : path = <<"logs", l>> => l \in logs \ logs'
                            /\ \A r \in RuleIds : path = <<"rules", r>> =>
                                  rules[r] # NoRule /\ rules'[r] = NoRule
                            /\ \A a \in AlertIds : path = <<"alerts", a>> =>
                                  alerts[a] # "none" /\ alerts'[a] = "none"
    OBVIOUS
  <2>1. request.method = method /\ request.path = path /\ request' = NoRequest /\ code' = 0
    BY DEF Succeeds
  <2>2. CASE Handle
    <3>1. ASSUME method = "POST", path \in {<<"logs">>, <<"logs", "batch">>}
          PROVE  Handler(request) \in {"CreateLog", "CreateLogs"}
      <4>1. path \in ExactPaths
        BY <3>1 DEF ExactPaths
      <4>2. Route(path) = ExactRoutes[path]
        BY <4>1, ExactHandlersOf DEF Route
      <4>3. \/ Route(path) = [POST |-> "CreateLogs"]
            \/ Route(path) = [POST |-> "CreateLog", GET |-> "QueryLogs"]
        BY <3>1, <4>2, ExactHandlersOf
      <4> QED
        BY <2>1, <3>1, <4>3 DEF Handler
    <3>2. ASSUME NEW i \in LogIds \cup RuleIds \cup AlertIds, method = "DELETE"
          PROVE  /\ path = <<"logs", i>> => Handler(request) = "DeleteLog" /\ Id = <<i>>
                 /\ path = <<"rules", i>> => Handler(request) = "DeleteRule" /\ Id = <<i>>
                 /\ path = <<"alerts", i>> => Handler(request) = "DeleteAlert" /\ Id = <<i>>
      BY <2>1, <3>2, DeletesAreRouted DEF Id
    <3> QED
      BY <2>1, <2>2, <3>1, <3>2, SuccessfulHandlers DEF StoredRules, StoredAlerts
  <2>3. CASE request = NoRequest
    BY <2>1, <2>3 DEF NoRequest
  <2> QED
    BY <2>2, <2>3 DEF ApiNext
<1> QED
  BY <1>1, ApiTypeCorrect, PTL DEF ApiSpec, SuccessIsDone, BatchIsStored

-----------------------------------------------------------------------------
(* The parts together.                                                     *)

\* A behaviour of the server is one of each of its parts: a step of one leaves
\* the others' variables alone.
LEMMA ServerParts ==
    ServerSpec => /\ ApiSpec /\ RateSpec /\ ManagerSpec /\ CacheSpec
                  /\ MetricsSpec /\ WindowsSpec /\ LogSpec /\ ConfigSpec
<1>1. ServerInit => /\ ApiInit /\ RateInit /\ ManagerInit /\ CacheInit
                    /\ MetricsInit /\ WindowsInit /\ LogInit /\ ConfigInit
  BY DEF ServerInit
<1>2. [ServerNext \/ Ended]_<<apiVars, rateVars, managerVars, cacheVars, metricsVars, windowVars,
                               logVars, configVars, exercised>>
      => /\ [ApiNext]_apiVars /\ [RateNext]_rateVars /\ [ManagerNext]_managerVars
         /\ [CacheNext]_cacheVars /\ [MetricsNext]_metricsVars /\ [WindowsNext]_windowVars
         /\ [LogNext]_logVars /\ [ConfigNext]_configVars
  BY DEF ServerNext, Ended
<1> QED
  BY <1>1, <1>2, PTL DEF ServerSpec, ApiSpec, RateSpec, ManagerSpec, CacheSpec, MetricsSpec,
                         WindowsSpec, LogSpec, ConfigSpec

\* The handlers' stores, and what the server keeps beside them, always have
\* their types, with any identities, clients, callers and sizes: among others
\* the cache never holds more than it was made for (cache.go:40), and a buffer of
\* the logger no more than its maximum (log_writer.go:136-148).
THEOREM ServerTypeCorrect == ServerSpec => []ServerTypeOK
<1>1. ManagerInv => ManagerTypeOK
  BY DEF ManagerInv
<1>2. CacheInv => CacheTypeOK
  BY DEF CacheInv
<1>3. MetricsInv => MetricsTypeOK
  BY DEF MetricsInv
<1>4. WindowsInv => WindowsTypeOK
  BY DEF WindowsInv
<1>5. LogInv => LogTypeOK
  BY DEF LogInv
<1>6. ConfigInv => ConfigTypeOK
  BY DEF ConfigInv
<1>7. /\ ApiTypeOK /\ RateTypeOK /\ ManagerTypeOK /\ CacheTypeOK
      /\ MetricsTypeOK /\ WindowsTypeOK /\ LogTypeOK /\ ConfigTypeOK
      => ServerTypeOK
  BY DEF ServerTypeOK
<1> QED
  BY <1>1, <1>2, <1>3, <1>4, <1>5, <1>6, <1>7, ServerParts, ApiTypeCorrect, RateTypes,
     ManagerInvariant, CacheInvariant, MetricsInvariant, WindowsInvariant, LogInvariant,
     ConfigInvariant, PTL
=============================================================================
