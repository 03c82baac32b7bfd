----------------------------- MODULE RuleEngine -----------------------------
(***************************************************************************)
(* The rule evaluation engine of LogAlert: the scans of                    *)
(* internal/service/scheduler.go, run by the scheduling loop and by        *)
(* POST /api/scheduler/scan, over the rules and the logs that the HTTP     *)
(* handlers change at the same time.                                       *)
(*                                                                         *)
(* MemoryRuleStore hands out pointers: Get, List and ListActive return the *)
(* stored *AlertRule itself, and UpdateRule, ToggleRuleStatus and MarkFired *)
(* write its fields with no lock held.  So `rule' is the heap of rule      *)
(* objects, which outlive their deletion, `stored' the keys of the store's *)
(* map, and a step is one access to shared memory or one critical section  *)
(* of a store.  A condition (level, source, service, keywords) is          *)
(* abstracted to its source; an empty source is AnySource.                 *)
(***************************************************************************)
EXTENDS Integers, Sequences, FiniteSets, FiniteSetsExt

CONSTANTS
    Rules,              \* identities of rules; an identity is used once
    Scanners,           \* goroutines that run ScanOnce: the loop, HTTP requests
    Clients,            \* HTTP requests that update a rule
    Sources,            \* sources of log entries
    AnySource,          \* the empty source of a condition
    LogIds,             \* identities of log entries: bounds how many are stored
    Windows,            \* windows CreateRuleRequest.Validate lets through
    Thresholds,         \* thresholds CreateRuleRequest.Validate lets through
    Cooldowns,          \* cooldowns of created rules, which nothing validates
    EditedWindows,      \* windows of update requests, which nothing validates
    EditedThresholds,   \* thresholds of update requests, which nothing validates
    NoRule,             \* a rule object that does not exist yet
    Never,              \* LastFiredAt = nil
    MaxTime,            \* bound: the clock stops here
    MaxScans            \* bound: how many scans are started

ASSUME ValuesAssumption ==
    /\ Windows \subseteq Int /\ \A w \in Windows : w > 0
    /\ Thresholds \subseteq Int /\ \A t \in Thresholds : t > 0
    /\ Cooldowns \subseteq Int
    /\ EditedWindows \subseteq Int
    /\ EditedThresholds \subseteq Int
    /\ MaxTime \in Nat /\ MaxScans \in Nat

ASSUME SetsAssumption ==
    /\ IsFiniteSet(Scanners)
    /\ IsFiniteSet(LogIds)
    /\ NoRule \notin Rules
    /\ NoRule \notin [status : {"active", "paused", "archived"},
                      source : Sources \cup {AnySource},
                      window : Int, threshold : Int, cooldown : Int,
                      lastFired : Int \cup {Never}]
    /\ AnySource \notin Sources
    /\ Never \notin Int

VARIABLES
    now,     \* the clock
    logs,    \* the entries in the log store
    rule,    \* the heap of rule objects
    stored,  \* the rules in the rule store
    alerts,  \* every alert RecordAlert has stored, in order
    scan,    \* what each scanner is doing
    upd,     \* what each updating client is doing
    status,  \* SchedulerStatus
    scans    \* how many scans were started

vars == <<now, logs, rule, stored, alerts, scan, upd, status, scans>>

-----------------------------------------------------------------------------
Times == 0..MaxTime
Conditions == Sources \cup {AnySource}
Statuses == {"active", "paused", "archived"}

LogEntry == [id : LogIds, source : Sources, ts : Times]

RuleObject == [status : Statuses, source : Conditions,
               window : Windows \cup EditedWindows,
               threshold : Thresholds \cup EditedThresholds,
               cooldown : Cooldowns, lastFired : Times \cup {Never}]

\* source: what the alert says; counted: the source its logs were counted for;
\* scanAt: the time of the scan.
Alert == [rule : Rules, source : Conditions, counted : Conditions,
          scanAt : Times]

\* Where a scanner is in ScanOnce ("next" is the head of its loop) and, from
\* "count" on, in evaluateRule.
ScanPoints == {"idle", "clock", "next", "count", "decide", "record", "mark", "get", "put"}

InScanOnce == {"idle", "clock", "next"}

\* The local variables of ScanOnce and evaluateRule.
Scan == [pc : ScanPoints, at : Times, listed : SUBSET Rules, todo : SUBSET Rules,
         cur : Rules \cup {NoRule}, filter : [source : Conditions, from : Int],
         count : Nat, draft : Conditions, triggered : Nat]

NoFilter == [source |-> AnySource, from |-> 0]

Idle == [pc |-> "idle", at |-> 0, listed |-> {}, todo |-> {}, cur |-> NoRule,
         filter |-> NoFilter, count |-> 0, draft |-> AnySource,
         triggered |-> 0]

\* How far an update has come: 0 after store.Get, then the number of the last
\* field it has written; it writes condition, window and threshold in this order.
Update == [rule : Rules \cup {NoRule}, stage : 0..3]

NoUpdate == [rule |-> NoRule, stage |-> 0]

Init ==
    /\ now = 0
    /\ logs = {}
    /\ rule = [r \in Rules |-> NoRule]
    /\ stored = {}
    /\ alerts = <<>>
    /\ scan = [s \in Scanners |-> Idle]
    /\ upd = [c \in Clients |-> NoUpdate]
    /\ status = [lastScan |-> Never, rulesScanned |-> 0, alertsTriggered |-> 0, total |-> 0]
    /\ scans = 0

-----------------------------------------------------------------------------
(* The environment: time, and the log store as the engine sees it.         *)

Tick ==
    /\ now < MaxTime
    /\ now' = now + 1
    /\ UNCHANGED <<logs, rule, stored, alerts, scan, upd, status, scans>>

\* A log entry is stored.  A client may give it any timestamp.
StoreLog(e) ==
    /\ \A l \in logs : l.id # e.id
    /\ logs' = logs \cup {e}
    /\ UNCHANGED <<now, rule, stored, alerts, scan, upd, status, scans>>

\* A log entry goes: deleted, or evicted by the store at its capacity.
DropLog(e) ==
    /\ logs' = logs \ {e}
    /\ UNCHANGED <<now, rule, stored, alerts, scan, upd, status, scans>>

-----------------------------------------------------------------------------
(* The operations on rules.                                                *)

NewAlertRule(src, w, t, c) ==
    [status |-> "active", source |-> src, window |-> w, threshold |-> t,
     cooldown |-> c, lastFired |-> Never]

CreateRule(r, src, w, t, c) ==
    /\ rule[r] = NoRule
    /\ rule' = [rule EXCEPT ![r] = NewAlertRule(src, w, t, c)]
    /\ stored' = stored \cup {r}
    /\ UNCHANGED <<now, logs, alerts, scan, upd, status, scans>>

DeleteRule(r) ==
    /\ r \in stored
    /\ stored' = stored \ {r}
    /\ UNCHANGED <<now, logs, rule, alerts, scan, upd, status, scans>>

\* UpdateRule and ToggleRuleStatus both start with store.Get, which returns the
\* shared object, and end with store.Update.
BeginUpdate(c, r) ==
    /\ upd[c] = NoUpdate
    /\ r \in stored
    /\ upd' = [upd EXCEPT ![c] = [rule |-> r, stage |-> 0]]
    /\ UNCHANGED <<now, logs, rule, stored, alerts, scan, status, scans>>

\* A field of the shared object is assigned, with no lock held.
Write(c, stage, obj) ==
    /\ upd[c].rule # NoRule
    /\ upd[c].stage < stage
    /\ upd' = [upd EXCEPT ![c].stage = stage]
    /\ rule' = [rule EXCEPT ![upd[c].rule] = obj]
    /\ UNCHANGED <<now, logs, stored, alerts, scan, status, scans>>

WriteCondition(c, src) == Write(c, 1, [rule[upd[c].rule] EXCEPT !.source = src])

WriteWindow(c, w) == Write(c, 2, [rule[upd[c].rule] EXCEPT !.window = w])

WriteThreshold(c, t) == Write(c, 3, [rule[upd[c].rule] EXCEPT !.threshold = t])

\* Activate, Pause or Archive: the only write of ToggleRuleStatus.
WriteStatus(c, st) ==
    /\ upd[c].stage = 0
    /\ Write(c, 3, [rule[upd[c].rule] EXCEPT !.status = st])

\* Mutant: store.Update without its existence check.
StoreUpdateUpserts(r) == stored' = stored \cup {r}

\* store.Update: an error when the rule was deleted meanwhile.
StoreUpdate(r) == stored' = IF r \in stored THEN stored \cup {r} ELSE stored

CommitUpdate(c) ==
    /\ upd[c].rule # NoRule
    /\ StoreUpdate(upd[c].rule)
    /\ upd' = [upd EXCEPT ![c] = NoUpdate]
    /\ UNCHANGED <<now, logs, rule, alerts, scan, status, scans>>

-----------------------------------------------------------------------------
(* A scan: ScanOnce, and evaluateRule for each rule it has listed.         *)

IsActive(r) == rule[r].status = "active"

\* Mutant: the status of the rule is not looked at again.
CanFireWhenPaused(r, t) ==
    rule[r].lastFired = Never \/ t > rule[r].lastFired + rule[r].cooldown

\* Mutant: not before the end of the cooldown, rather than after it.
CanFireAtCooldownEnd(r, t) ==
    /\ IsActive(r)
    /\ rule[r].lastFired = Never \/ t >= rule[r].lastFired + rule[r].cooldown

CanFire(r, t) ==
    /\ IsActive(r)
    /\ rule[r].lastFired = Never \/ t > rule[r].lastFired + rule[r].cooldown

\* Mutant: the end of the window is excluded.
MatchesBeforeEnd(e, filter, until) ==
    /\ filter.source \in {AnySource, e.source}
    /\ e.ts \in filter.from..(until - 1)

Matches(e, filter, until) ==
    /\ filter.source \in {AnySource, e.source}
    /\ e.ts \in filter.from..until

Count(filter, until) == Cardinality({e \in logs : Matches(e, filter, until)})

RuleFilter(r, t) == [source |-> rule[r].source, from |-> t - rule[r].window]

\* ScanOnce lists the active rules, and reads the clock after that.
ScanBegin(s) ==
    LET active == {r \in stored : IsActive(r)} IN
    /\ scan[s].pc = "idle"
    /\ scans < MaxScans
    /\ scans' = scans + 1
    /\ scan' = [scan EXCEPT ![s] = [Idle EXCEPT !.pc = "clock", !.listed = active,
                                                !.todo = active]]
    /\ UNCHANGED <<now, logs, rule, stored, alerts, upd, status>>

ReadClock(s) ==
    /\ scan[s].pc = "clock"
    /\ scan' = [scan EXCEPT ![s] = [@ EXCEPT !.pc = "next", !.at = now]]
    /\ UNCHANGED <<now, logs, rule, stored, alerts, upd, status, scans>>

\* The next listed rule, in the arbitrary order of a map: CanFire, then the filter.
Consider(s, r) ==
    LET sc == scan[s]
        left == [sc EXCEPT !.todo = @ \ {r}]
    IN
    /\ sc.pc = "next"
    /\ r \in sc.todo
    /\ scan' = [scan EXCEPT ![s] =
                  IF CanFire(r, sc.at)
                  THEN [left EXCEPT !.pc = "count", !.cur = r, !.filter = RuleFilter(r, sc.at)]
                  ELSE left]
    /\ UNCHANGED <<now, logs, rule, stored, alerts, upd, status, scans>>

CountLogs(s) ==
    /\ scan[s].pc = "count"
    /\ scan' = [scan EXCEPT ![s].pc = "decide",
                            ![s].count = Count(scan[s].filter, scan[s].at)]
    /\ UNCHANGED <<now, logs, rule, stored, alerts, upd, status, scans>>

\* evaluateRule returns to the loop of ScanOnce with n alerts triggered.
Return(sc, n) ==
    [pc |-> "next", at |-> sc.at, listed |-> sc.listed, todo |-> sc.todo, cur |-> NoRule,
     filter |-> NoFilter, count |-> 0, draft |-> AnySource,
     triggered |-> sc.triggered + n]

\* The threshold test, and NewAlertEvent: threshold and source are read again.
Decide(s) ==
    LET r == scan[s].cur IN
    /\ scan[s].pc = "decide"
    /\ scan' = [scan EXCEPT ![s] =
                  IF @.count < rule[r].threshold
                  THEN Return(@, 0)
                  ELSE [@ EXCEPT !.pc = "record", !.draft = rule[r].source]]
    /\ UNCHANGED <<now, logs, rule, stored, alerts, upd, status, scans>>

Record(s) ==
    /\ scan[s].pc = "record"
    /\ alerts' = Append(alerts, [rule |-> scan[s].cur, source |-> scan[s].draft,
                                 counted |-> scan[s].filter.source, scanAt |-> scan[s].at])
    /\ scan' = [scan EXCEPT ![s].pc = "mark"]
    /\ UNCHANGED <<now, logs, rule, stored, upd, status, scans>>

\* Mutant: the current time rather than the time of the scan.
MarkFiredNow(s) ==
    /\ scan[s].pc = "mark"
    /\ rule' = [rule EXCEPT ![scan[s].cur].lastFired = now]
    /\ scan' = [scan EXCEPT ![s].pc = "get"]
    /\ UNCHANGED <<now, logs, stored, alerts, upd, status, scans>>

\* Mutant: the end of the cooldown is stored.
MarkCooldownEnd(s) ==
    /\ scan[s].pc = "mark"
    /\ rule' = [rule EXCEPT ![scan[s].cur].lastFired = scan[s].at + rule[scan[s].cur].cooldown]
    /\ scan' = [scan EXCEPT ![s].pc = "get"]
    /\ UNCHANGED <<now, logs, stored, alerts, upd, status, scans>>

\* Mutant: a rule that is not in the store is not marked.
MarkFiredIfStored(s) ==
    /\ scan[s].pc = "mark"
    /\ rule' = IF scan[s].cur \in stored
               THEN [rule EXCEPT ![scan[s].cur].lastFired = scan[s].at] ELSE rule
    /\ scan' = [scan EXCEPT ![s].pc = "get"]
    /\ UNCHANGED <<now, logs, stored, alerts, upd, status, scans>>

MarkFired(s) ==
    /\ scan[s].pc = "mark"
    /\ rule' = [rule EXCEPT ![scan[s].cur].lastFired = scan[s].at]
    /\ scan' = [scan EXCEPT ![s].pc = "get"]
    /\ UNCHANGED <<now, logs, stored, alerts, upd, status, scans>>

\* Mutant: the error of the update is returned, and no alert reported.
GetFiredOrFail(s) ==
    /\ scan[s].pc = "get"
    /\ scan' = [scan EXCEPT ![s] = IF @.cur \in stored
                                   THEN [@ EXCEPT !.pc = "put"]
                                   ELSE Return(@, 0)]
    /\ UNCHANGED <<now, logs, rule, stored, alerts, upd, status, scans>>

\* Mutant: the update is retried until it succeeds.
GetFiredRetrying(s) ==
    /\ scan[s].pc = "get"
    /\ scan[s].cur \in stored
    /\ scan' = [scan EXCEPT ![s].pc = "put"]
    /\ UNCHANGED <<now, logs, rule, stored, alerts, upd, status, scans>>

\* UpdateRule with an empty request.  When the rule is gone, its error is only
\* logged: evaluateRule reports an alert all the same.
GetFired(s) ==
    /\ scan[s].pc = "get"
    /\ scan' = [scan EXCEPT ![s] = IF @.cur \in stored
                                   THEN [@ EXCEPT !.pc = "put"]
                                   ELSE Return(@, 1)]
    /\ UNCHANGED <<now, logs, rule, stored, alerts, upd, status, scans>>

PutFired(s) ==
    /\ scan[s].pc = "put"
    /\ StoreUpdate(scan[s].cur)
    /\ scan' = [scan EXCEPT ![s] = Return(@, 1)]
    /\ UNCHANGED <<now, logs, rule, alerts, upd, status, scans>>

ScanEnd(s) ==
    /\ scan[s].pc = "next"
    /\ scan[s].todo = {}
    /\ status' = [lastScan |-> scan[s].at,
                  rulesScanned |-> Cardinality(scan[s].listed),
                  alertsTriggered |-> scan[s].triggered,
                  total |-> status.total + scan[s].triggered]
    /\ scan' = [scan EXCEPT ![s] = Idle]
    /\ UNCHANGED <<now, logs, rule, stored, alerts, upd, scans>>

-----------------------------------------------------------------------------
Environment ==
    \/ Tick
    \/ \E e \in LogEntry : StoreLog(e)
    \/ \E e \in logs : DropLog(e)

RuleOperation ==
    \/ \E r \in Rules, src \in Conditions, w \in Windows, t \in Thresholds, c \in Cooldowns :
          CreateRule(r, src, w, t, c)
    \/ \E r \in Rules : DeleteRule(r)
    \/ \E c \in Clients :
          \/ \E r \in Rules : BeginUpdate(c, r)
          \/ \E src \in Conditions : WriteCondition(c, src)
          \/ \E w \in EditedWindows : WriteWindow(c, w)
          \/ \E t \in EditedThresholds : WriteThreshold(c, t)
          \/ \E st \in Statuses : WriteStatus(c, st)
          \/ CommitUpdate(c)

Evaluate(s) ==
    \/ ReadClock(s)
    \/ \E r \in Rules : Consider(s, r)
    \/ CountLogs(s)
    \/ Decide(s)
    \/ Record(s)
    \/ MarkFired(s)
    \/ GetFired(s)
    \/ PutFired(s)
    \/ ScanEnd(s)

Next ==
    \/ Environment
    \/ RuleOperation
    \/ \E s \in Scanners : ScanBegin(s) \/ Evaluate(s)

Spec == Init /\ [][Next]_vars

\* A scan that has begun is a running goroutine that nothing blocks: the stores'
\* locks are held for one step only.  ScanBegin has no fairness: it may never be
\* asked for.
FairSpec == Spec /\ \A s \in Scanners : WF_vars(Evaluate(s))

-----------------------------------------------------------------------------
(* Properties.                                                             *)

AlertsOf(r) == {i \in DOMAIN alerts : alerts[i].rule = r}

\* The scans that have stored an alert and not yet counted it in `triggered'.
Uncounted == {s \in Scanners : scan[s].pc \in {"mark", "get", "put"}}

\* Every variable holds a value its Go counterpart can hold.
TypeOK ==
    /\ now \in Times
    /\ logs \subseteq LogEntry /\ IsFiniteSet(logs)
    /\ rule \in [Rules -> RuleObject \cup {NoRule}]
    /\ stored \subseteq Rules /\ IsFiniteSet(stored)
    /\ alerts \in Seq(Alert)
    /\ scan \in [Scanners -> Scan]
    /\ upd \in [Clients -> Update]
    /\ status \in [lastScan : Times \cup {Never}, rulesScanned : Nat,
                   alertsTriggered : Nat, total : Nat]
    /\ scans \in Nat
    /\ \A s \in Scanners : IsFiniteSet(scan[s].listed)

\* No pointer is nil: what the store, an alert, an update or a scan refers to is
\* a rule object that was created, whoever has deleted it since.  Every
\* dereference in evaluateRule, UpdateRule and ToggleRuleStatus relies on it.
NoDangling ==
    /\ \A r \in stored : rule[r] # NoRule
    /\ \A i \in DOMAIN alerts : rule[alerts[i].rule] # NoRule
    /\ \A c \in Clients : upd[c].rule # NoRule => rule[upd[c].rule] # NoRule
    /\ \A s \in Scanners :
          /\ \A r \in scan[s].todo : rule[r] # NoRule
          /\ scan[s].pc \notin InScanOnce =>
                scan[s].cur \in Rules /\ rule[scan[s].cur] # NoRule

\* A rule is put in cooldown only by an alert that is in the alert store, from
\* the scan whose time the cooldown is counted from: RecordAlert comes before
\* MarkFired (scheduler.go:230-234), whatever other scans and updates do to the
\* shared rule object in between, and after the rule was deleted.
CooldownIsBacked ==
    \A r \in Rules :
        rule[r] # NoRule /\ rule[r].lastFired # Never =>
            \E i \in AlertsOf(r) : alerts[i].scanAt = rule[r].lastFired

\* The running total of the status is the number of alerts recorded, up to those
\* of the scans still running (scheduler.go:119-129): concurrent scans lose no
\* count, and an alert whose rule was deleted under it is counted too.
EveryAlertCounted ==
    Len(alerts) = status.total + Cardinality(Uncounted)
                  + SumFunction([s \in Scanners |-> scan[s].triggered])

\* A deleted rule never comes back, although the requests and scans that hold its
\* object finish with store.Update (memory_rule_store.go:70).
DeletionIsFinal ==
    [][\A r \in Rules : rule[r] # NoRule /\ r \notin stored => r \notin stored']_vars

\* No scan can still fire the rule: it is deleted and in no scan's list, or it
\* is not active and no scan is past CanFire with it.
Silenced(r) ==
    \/ r \notin stored /\ \A s \in Scanners : r \notin scan[s].todo \cup {scan[s].cur}
    \/ rule[r] # NoRule /\ ~IsActive(r) /\ \A s \in Scanners : scan[s].cur # r

\* A rule that was silenced stays silent until a client activates it again or
\* creates it: no scan, however old its list of rules, gets it past CanFire.
SilencedRuleStaysSilent ==
    [][\A r \in Rules : Silenced(r) =>
          /\ Silenced(r)' \/ rule'[r] # rule[r]
          /\ Len(alerts') = Len(alerts) \/ alerts'[Len(alerts')].rule # r]_vars

\* "Cooldown is the minimum time between alerts for this rule"
\* (internal/model/alert_rule.go:25): a rule's alerts come from scans that lie
\* more than its cooldown apart.  The cooldown is tested at the start of an
\* evaluation (scheduler.go:186) and set at its end (scheduler.go:234), so this
\* holds with one scanner, and fails with two.
CooldownBetweenScans ==
    \A r \in Rules : \A i, j \in AlertsOf(r) :
        i < j => alerts[j].scanAt > alerts[i].scanAt + rule[r].cooldown

\* LastFiredAt is the time of the latest scan that has fired the rule and marked
\* it.  This holds with one scanner: with two, an older scan may mark it last.
LastFiredIsLatest ==
    \A r \in Rules : \A i \in AlertsOf(r) :
        (\A s \in Scanners : scan[s].pc = "mark" => scan[s].cur # r) =>
            rule[r].lastFired # Never /\ rule[r].lastFired >= alerts[i].scanAt

\* "Source is the source that triggered the alert"
\* (internal/model/alert_event.go:21): the one whose logs were counted.
AlertSourceIsCounted ==
    \A i \in DOMAIN alerts : alerts[i].source = alerts[i].counted

\* Every scan that begins ends, whatever clients do to the rules under it.
EveryScanEnds ==
    \A s \in Scanners : scan[s].pc # "idle" ~> scan[s].pc = "idle"

=============================================================================
