-------------------------- MODULE RuleEngineProofs --------------------------
(***************************************************************************)
(* Proofs about RuleEngine and ScanCoverage, for any sets of rules,          *)
(* scanners, clients and logs and any bounds.                              *)
(***************************************************************************)
EXTENDS ScanCoverage, CountingProofs, FiniteSetTheorems, SequenceTheorems, TLAPS

\* What every step relies on: types, and no reference to an object not created.
IInv == TypeOK /\ NoDangling

\* The types of the parts of a rule object that arithmetic needs.
LEMMA RuleObjectTypes ==
    /\ NoRule \notin RuleObject
    /\ \A o \in RuleObject : /\ o.window \in Int
                             /\ o.threshold \in Int
                             /\ o.cooldown \in Int
                             /\ o.lastFired \in Int \cup {Never}
<1> DEFINE Wide == [status : {"active", "paused", "archived"},
                    source : Sources \cup {AnySource},
                    window : Int, threshold : Int, cooldown : Int,
                    lastFired : Int \cup {Never}]
<1>1. NoRule \notin Wide
  BY SetsAssumption
<1>2. Times \subseteq Int
  BY ValuesAssumption DEF Times
<1>3. RuleObject \subseteq Wide
  BY <1>2, ValuesAssumption DEF RuleObject, Statuses, Conditions
<1>4. \A o \in Wide : /\ o.window \in Int /\ o.threshold \in Int /\ o.cooldown \in Int
                      /\ o.lastFired \in Int \cup {Never}
  OBVIOUS
<1> HIDE DEF Wide
<1> QED
  BY <1>1, <1>3, <1>4

\* ScanOnce's locals start and restart well typed.
LEMMA IdleTypes == Idle \in Scan
<1>1. 0 \in Times /\ AnySource \in Conditions
  BY ValuesAssumption DEF Times, Conditions
<1> QED
  BY <1>1 DEF Idle, Scan, ScanPoints, NoFilter

LEMMA ReturnTypes ==
    ASSUME NEW sc \in Scan, NEW n \in {0, 1}
    PROVE  /\ Return(sc, n) \in Scan
           /\ Return(sc, n).pc = "next"
           /\ Return(sc, n).todo = sc.todo
           /\ Return(sc, n).listed = sc.listed
           /\ Return(sc, n).at = sc.at
<1>1. 0 \in Times /\ AnySource \in Conditions
  BY ValuesAssumption DEF Times, Conditions
<1>2. /\ sc.at \in Times
      /\ sc.listed \in SUBSET Rules
      /\ sc.todo \in SUBSET Rules
      /\ sc.triggered + n \in Nat
  BY DEF Scan
<1>3. NoFilter \in [source : Conditions, from : Int]
  BY <1>1 DEF NoFilter
<1> QED
  BY <1>1, <1>2, <1>3 DEF Return, Scan, ScanPoints

-----------------------------------------------------------------------------
\* No goroutine runs and no rule exists at first.
LEMMA InitIInv == Init => IInv
<1> SUFFICES ASSUME Init PROVE IInv
  OBVIOUS
<1>1. 0 \in Times
  BY ValuesAssumption DEF Times
<1>2. IsFiniteSet({})
  BY FS_EmptySet
<1>3. scan \in [Scanners -> Scan]
  BY IdleTypes DEF Init
<1>4. upd \in [Clients -> Update]
  BY DEF Init, Update, NoUpdate
<1>5. \A s \in Scanners : scan[s] = Idle
  BY DEF Init
<1>6. TypeOK
  <2>1. \A s \in Scanners : IsFiniteSet(scan[s].listed)
    BY <1>2, <1>5 DEF Idle
  <2>2. status \in [lastScan : Times \cup {Never}, rulesScanned : Nat,
                    alertsTriggered : Nat, total : Nat]
    BY DEF Init
  <2>3. alerts \in Seq(Alert) /\ rule \in [Rules -> RuleObject \cup {NoRule}]
    BY DEF Init
  <2> QED
    BY <1>1, <1>2, <1>3, <1>4, <2>1, <2>2, <2>3 DEF Init, TypeOK
<1>7. NoDangling
  BY <1>5 DEF Init, NoDangling, Idle, NoUpdate, InScanOnce
<1> QED
  BY <1>6, <1>7 DEF IInv

\* A step that leaves rules, alerts, scans and updates alone.
LEMMA EnvironmentIInv == IInv /\ Environment => IInv'
<1> SUFFICES ASSUME IInv, Environment PROVE IInv'
  OBVIOUS
<1>1. UNCHANGED <<rule, stored, alerts, scan, upd, status, scans>>
  BY DEF Environment, Tick, StoreLog, DropLog
<1>2. now' \in Times
  BY ValuesAssumption DEF Environment, Tick, StoreLog, DropLog, IInv, TypeOK, Times
<1>3. logs' \subseteq LogEntry /\ IsFiniteSet(logs')
  <2>1. CASE Tick
    BY <2>1 DEF Tick, IInv, TypeOK
  <2>2. ASSUME NEW e \in LogEntry, StoreLog(e) PROVE logs' \subseteq LogEntry /\ IsFiniteSet(logs')
    BY <2>2, FS_AddElement DEF StoreLog, IInv, TypeOK
  <2>3. ASSUME NEW e \in logs, DropLog(e) PROVE logs' \subseteq LogEntry /\ IsFiniteSet(logs')
    BY <2>3, FS_RemoveElement DEF DropLog, IInv, TypeOK
  <2> QED
    BY <2>1, <2>2, <2>3 DEF Environment
<1> QED
  BY <1>1, <1>2, <1>3 DEF IInv, TypeOK, NoDangling

\* A step of a client: rule objects appear and change, none disappears.
LEMMA RuleOperationIInv == IInv /\ RuleOperation => IInv'
<1> SUFFICES ASSUME IInv, RuleOperation PROVE IInv'
  OBVIOUS
<1>1. ASSUME NEW r \in Rules, NEW src \in Conditions, NEW w \in Windows, NEW t \in Thresholds,
             NEW c \in Cooldowns, CreateRule(r, src, w, t, c)
      PROVE  IInv'
  <2>1. NewAlertRule(src, w, t, c) \in RuleObject
    BY DEF NewAlertRule, RuleObject, Statuses
  <2>2. IsFiniteSet(stored') /\ stored' \subseteq Rules
    BY <1>1, FS_AddElement DEF CreateRule, IInv, TypeOK
  <2>3. /\ rule' \in [Rules -> RuleObject \cup {NoRule}]
        /\ \A x \in Rules : rule[x] # NoRule => rule'[x] # NoRule
        /\ rule'[r] # NoRule
    BY <1>1, <2>1, RuleObjectTypes DEF CreateRule, IInv, TypeOK
  <2> QED
    BY <1>1, <2>2, <2>3 DEF CreateRule, IInv, TypeOK, NoDangling, Alert, Update, Scan
<1>2. ASSUME NEW r \in Rules, DeleteRule(r) PROVE IInv'
  BY <1>2, FS_RemoveElement DEF DeleteRule, IInv, TypeOK, NoDangling
<1>3. ASSUME NEW c \in Clients, NEW r \in Rules, BeginUpdate(c, r) PROVE IInv'
  <2>1. upd' \in [Clients -> Update]
    BY <1>3 DEF BeginUpdate, IInv, TypeOK, Update
  <2>2. \A d \in Clients : upd'[d].rule # NoRule => rule[upd'[d].rule] # NoRule
    BY <1>3 DEF BeginUpdate, IInv, TypeOK, NoDangling
  <2> QED
    BY <1>3, <2>1, <2>2 DEF BeginUpdate, IInv, TypeOK, NoDangling
<1>4. ASSUME NEW c \in Clients, NEW stage \in 1..3, NEW obj,
             rule[upd[c].rule] \in RuleObject => obj \in RuleObject,
             Write(c, stage, obj)
      PROVE  IInv'
  <2> DEFINE x == upd[c].rule
  <2>1. x \in Rules /\ rule[x] \in RuleObject
    BY <1>4 DEF Write, IInv, TypeOK, NoDangling, Update
  <2>2. obj \in RuleObject
    BY <1>4, <2>1
  <2>3. rule' = [rule EXCEPT ![x] = obj]
    BY <1>4 DEF Write
  <2>4. /\ rule' \in [Rules -> RuleObject \cup {NoRule}]
        /\ \A y \in Rules : rule[y] # NoRule => rule'[y] # NoRule
    BY <2>1, <2>2, <2>3, RuleObjectTypes DEF IInv, TypeOK
  <2>5. /\ upd' \in [Clients -> Update]
        /\ \A d \in Clients : upd'[d].rule = upd[d].rule
    BY <1>4 DEF Write, IInv, TypeOK, Update
  <2> QED
    BY <1>4, <2>4, <2>5 DEF Write, IInv, TypeOK, NoDangling, Alert, Update, Scan
<1>5. ASSUME NEW c \in Clients, CommitUpdate(c) PROVE IInv'
  <2>1. stored' = stored
    BY <1>5 DEF CommitUpdate, StoreUpdate
  <2>2. upd' \in [Clients -> Update]
    BY <1>5 DEF CommitUpdate, IInv, TypeOK, Update, NoUpdate
  <2>3. \A d \in Clients : upd'[d].rule # NoRule => upd'[d] = upd[d]
    BY <1>5 DEF CommitUpdate, IInv, TypeOK, NoUpdate
  <2> QED
    BY <1>5, <2>1, <2>2, <2>3 DEF CommitUpdate, IInv, TypeOK, NoDangling
<1>6. ASSUME NEW c \in Clients, NEW src \in Conditions, WriteCondition(c, src) PROVE IInv'
  BY <1>4, <1>6 DEF WriteCondition, RuleObject
<1>7. ASSUME NEW c \in Clients, NEW w \in EditedWindows, WriteWindow(c, w) PROVE IInv'
  BY <1>4, <1>7 DEF WriteWindow, RuleObject
<1>8. ASSUME NEW c \in Clients, NEW t \in EditedThresholds, WriteThreshold(c, t) PROVE IInv'
  BY <1>4, <1>8 DEF WriteThreshold, RuleObject
<1>9. ASSUME NEW c \in Clients, NEW st \in Statuses, WriteStatus(c, st) PROVE IInv'
  BY <1>4, <1>9 DEF WriteStatus, RuleObject
<1> QED
  BY <1>1, <1>2, <1>3, <1>5, <1>6, <1>7, <1>8, <1>9 DEF RuleOperation
-----------------------------------------------------------------------------
\* What a step of scanner s has to show when it changes its own locals and
\* nothing that other goroutines could hold a reference to.
LEMMA ScanStep ==
    ASSUME IInv, NEW s \in Scanners, NEW sc \in Scan,
           scan' = [scan EXCEPT ![s] = sc],
           IsFiniteSet(sc.listed),
           \A r \in sc.todo : rule[r] # NoRule,
           sc.pc \notin InScanOnce => sc.cur \in Rules /\ rule[sc.cur] # NoRule,
           UNCHANGED <<now, logs, rule, stored, upd>>,
           alerts' \in Seq(Alert),
           \A i \in DOMAIN alerts' : rule[alerts'[i].rule] # NoRule,
           status' \in [lastScan : Times \cup {Never}, rulesScanned : Nat,
                        alertsTriggered : Nat, total : Nat],
           scans' \in Nat
    PROVE  IInv'
<1>1. scan' \in [Scanners -> Scan]
  BY DEF IInv, TypeOK
<1>2. \A z \in Scanners : scan'[z] = IF z = s THEN sc ELSE scan[z]
  BY DEF IInv, TypeOK
<1>3. \A z \in Scanners : IsFiniteSet(scan'[z].listed)
  BY <1>2 DEF IInv, TypeOK
<1>4. \A z \in Scanners : /\ \A r \in scan'[z].todo : rule[r] # NoRule
                          /\ scan'[z].pc \notin InScanOnce =>
                               scan'[z].cur \in Rules /\ rule[scan'[z].cur] # NoRule
  BY <1>2 DEF IInv, NoDangling
<1> QED
  BY <1>1, <1>3, <1>4 DEF IInv, TypeOK, NoDangling

LEMMA ScanBeginIInv == ASSUME IInv, NEW s \in Scanners, ScanBegin(s) PROVE IInv'
<1> DEFINE active == {r \in stored : IsActive(r)}
<1> DEFINE sc == [Idle EXCEPT !.pc = "clock", !.listed = active, !.todo = active]
<1>1. active \in SUBSET stored /\ stored \in SUBSET Rules /\ IsFiniteSet(stored)
  BY DEF IInv, TypeOK
<1>2. IsFiniteSet(active)
  BY <1>1, FS_Subset
<1>3. sc \in Scan /\ sc.listed = active /\ sc.todo = active /\ sc.pc = "clock"
  BY <1>1, IdleTypes DEF IInv, TypeOK, Scan, ScanPoints, Idle
<1>4. \A r \in sc.todo : rule[r] # NoRule
  BY <1>1, <1>3 DEF IInv, NoDangling
<1>5. /\ scan' = [scan EXCEPT ![s] = sc]
      /\ UNCHANGED <<now, logs, rule, stored, alerts, upd, status>>
      /\ scans' = scans + 1
  BY DEF ScanBegin
<1> HIDE DEF sc, active
<1> QED
  BY <1>2, <1>3, <1>4, <1>5, ScanStep DEF IInv, TypeOK, NoDangling, InScanOnce

LEMMA EvaluateIInv == ASSUME IInv, NEW s \in Scanners, Evaluate(s) PROVE IInv'
<1> USE DEF InScanOnce
<1> DEFINE old == scan[s]
<1>1. /\ old \in Scan
      /\ IsFiniteSet(old.listed)
      /\ \A r \in old.todo : r \in Rules /\ rule[r] # NoRule
      /\ old.pc \notin InScanOnce => old.cur \in Rules /\ rule[old.cur] \in RuleObject
  BY DEF IInv, TypeOK, NoDangling, Scan
<1>2. /\ alerts \in Seq(Alert)
      /\ \A i \in DOMAIN alerts : rule[alerts[i].rule] # NoRule
      /\ status \in [lastScan : Times \cup {Never}, rulesScanned : Nat,
                     alertsTriggered : Nat, total : Nat]
      /\ scans \in Nat
  BY DEF IInv, TypeOK, NoDangling
<1>3. \A o \in RuleObject : o.source \in Conditions /\ o # NoRule
  BY RuleObjectTypes DEF RuleObject
<1>a. ASSUME NEW sc \in Scan, scan' = [scan EXCEPT ![s] = sc],
             sc.listed = old.listed, sc.todo \subseteq old.todo,
             sc.pc \notin InScanOnce => sc.cur \in Rules /\ rule[sc.cur] # NoRule,
             UNCHANGED <<now, logs, rule, stored, alerts, upd, status, scans>>
      PROVE  IInv'
  BY <1>1, <1>2, <1>a, ScanStep
<1>b. CASE ReadClock(s)
  <2> DEFINE sc == [old EXCEPT !.pc = "next", !.at = now]
  <2>1. sc \in Scan /\ sc.listed = old.listed /\ sc.todo = old.todo /\ sc.pc = "next"
    BY <1>1 DEF IInv, TypeOK, Scan, ScanPoints
  <2>2. /\ scan' = [scan EXCEPT ![s] = sc]
        /\ UNCHANGED <<now, logs, rule, stored, alerts, upd, status, scans>>
    BY <1>b DEF ReadClock
  <2> HIDE DEF sc
  <2> QED
    BY <1>a, <2>1, <2>2
<1>4. ASSUME NEW r \in Rules, Consider(s, r) PROVE IInv'
  <2> DEFINE skipped == [old EXCEPT !.todo = @ \ {r}]
             taken == [skipped EXCEPT !.pc = "count", !.cur = r,
                                      !.filter = RuleFilter(r, old.at)]
  <2>1. r \in old.todo /\ old.pc = "next"
    BY <1>4 DEF Consider
  <2>2. rule[r] \in RuleObject
    BY <1>1, <2>1 DEF IInv, TypeOK
  <2>3. RuleFilter(r, old.at) \in [source : Conditions, from : Int]
    <3>1. old.at \in Int /\ rule[r].window \in Int /\ rule[r].source \in Conditions
      BY <1>1, <1>3, <2>2, RuleObjectTypes, ValuesAssumption DEF Scan, Times
    <3> QED
      BY <3>1 DEF RuleFilter
  <2>4. taken \in Scan /\ taken.listed = old.listed /\ taken.todo \subseteq old.todo /\ taken.cur = r
    BY <1>1, <2>3 DEF Scan, ScanPoints
  <2>5. /\ skipped \in Scan /\ skipped.listed = old.listed /\ skipped.todo \subseteq old.todo
        /\ skipped.pc = "next"
    BY <1>1, <2>1 DEF Scan, ScanPoints
  <2>6. \/ scan' = [scan EXCEPT ![s] = taken]
        \/ scan' = [scan EXCEPT ![s] = skipped]
    BY <1>4 DEF Consider
  <2>7. UNCHANGED <<now, logs, rule, stored, alerts, upd, status, scans>>
    BY <1>4 DEF Consider
  <2> HIDE DEF taken, skipped
  <2> QED
    BY <1>1, <1>a, <2>1, <2>4, <2>5, <2>6, <2>7
<1>5. CASE CountLogs(s)
  <2> DEFINE sc == [old EXCEPT !.pc = "decide", !.count = Count(old.filter, old.at)]
  <2>1. Count(old.filter, old.at) \in Nat
    <3>1. IsFiniteSet({e \in logs : Matches(e, old.filter, old.at)})
      BY FS_Subset DEF IInv, TypeOK
    <3> QED
      BY <3>1, FS_CardinalityType DEF Count
  <2>2. sc \in Scan /\ sc.listed = old.listed /\ sc.todo = old.todo /\ sc.cur = old.cur
    BY <1>1, <2>1 DEF Scan, ScanPoints
  <2>3. scan' = [scan EXCEPT ![s] = sc]
    BY <1>5 DEF CountLogs, IInv, TypeOK
  <2>4. old.pc = "count" /\ UNCHANGED <<now, logs, rule, stored, alerts, upd, status, scans>>
    BY <1>5 DEF CountLogs
  <2> HIDE DEF sc
  <2> QED
    BY <1>1, <1>3, <1>a, <2>2, <2>3, <2>4
<1>6. CASE Decide(s)
  <2> DEFINE fired == [old EXCEPT !.pc = "record", !.draft = rule[old.cur].source]
  <2>1. old.pc = "decide" /\ UNCHANGED <<now, logs, rule, stored, alerts, upd, status, scans>>
    BY <1>6 DEF Decide
  <2>2. fired \in Scan /\ fired.listed = old.listed /\ fired.todo = old.todo /\ fired.cur = old.cur
    BY <1>1, <1>3, <2>1 DEF IInv, TypeOK, Scan, ScanPoints
  <2>3. \/ scan' = [scan EXCEPT ![s] = Return(old, 0)]
        \/ scan' = [scan EXCEPT ![s] = fired]
    BY <1>6 DEF Decide
  <2> HIDE DEF fired
  <2> QED
    BY <1>1, <1>3, <1>a, <2>1, <2>2, <2>3, ReturnTypes
<1>7. CASE Record(s)
  <2> DEFINE sc == [old EXCEPT !.pc = "mark"]
             new == [rule |-> old.cur, source |-> old.draft, counted |-> old.filter.source,
                     scanAt |-> old.at]
  <2>1. /\ old.pc = "record"
        /\ alerts' = Append(alerts, new)
        /\ UNCHANGED <<now, logs, rule, stored, upd, status, scans>>
    BY <1>7 DEF Record
  <2>2. scan' = [scan EXCEPT ![s] = sc]
    BY <1>7 DEF Record, IInv, TypeOK
  <2>3. sc \in Scan /\ sc.listed = old.listed /\ sc.todo = old.todo /\ sc.cur = old.cur
    BY <1>1 DEF Scan, ScanPoints
  <2>4. new \in Alert /\ new.rule = old.cur
    BY <1>1, <2>1 DEF Alert, Scan
  <2> HIDE DEF sc, new
  <2>5. alerts' \in Seq(Alert) /\ \A i \in DOMAIN alerts' : rule[alerts'[i].rule] # NoRule
    BY <1>1, <1>2, <1>3, <2>1, <2>4
  <2> QED
    BY <1>1, <1>2, <1>3, <2>1, <2>2, <2>3, <2>5, ScanStep
<1>8. CASE MarkFired(s)
  <2> DEFINE sc == [old EXCEPT !.pc = "get"]
             obj == [rule[old.cur] EXCEPT !.lastFired = old.at]
  <2>1. /\ old.pc = "mark"
        /\ UNCHANGED <<now, logs, stored, alerts, upd, status, scans>>
    BY <1>8 DEF MarkFired
  <2>2. obj \in RuleObject
    BY <1>1, <2>1 DEF RuleObject, Scan
  <2>3. rule' = [rule EXCEPT ![old.cur] = obj] /\ scan' = [scan EXCEPT ![s] = sc]
    BY <1>8 DEF MarkFired, IInv, TypeOK
  <2>4. sc \in Scan /\ sc.listed = old.listed /\ sc.todo = old.todo /\ sc.cur = old.cur
    BY <1>1 DEF Scan, ScanPoints
  <2> HIDE DEF sc, obj
  <2>5. /\ rule' \in [Rules -> RuleObject \cup {NoRule}]
        /\ \A x \in Rules : rule[x] # NoRule => rule'[x] # NoRule
    BY <1>1, <1>3, <2>1, <2>2, <2>3 DEF IInv, TypeOK
  <2>6. /\ scan' \in [Scanners -> Scan]
        /\ \A z \in Scanners : scan'[z] = IF z = s THEN sc ELSE scan[z]
    BY <2>3, <2>4 DEF IInv, TypeOK
  <2>7. TypeOK'
    BY <1>1, <2>1, <2>4, <2>5, <2>6 DEF IInv, TypeOK
  <2>8. \A z \in Scanners : /\ \A r \in scan'[z].todo : rule[r] # NoRule /\ r \in Rules
                            /\ scan'[z].pc \notin InScanOnce =>
                                 scan'[z].cur \in Rules /\ rule[scan'[z].cur] # NoRule
    BY <1>1, <1>3, <2>1, <2>4, <2>6 DEF IInv, TypeOK, NoDangling, Scan
  <2>9. NoDangling'
    <3>1. \A r \in stored : rule'[r] # NoRule
      BY <2>5 DEF IInv, TypeOK, NoDangling
    <3>2. \A i \in DOMAIN alerts : rule'[alerts[i].rule] # NoRule
      <4> SUFFICES ASSUME NEW i \in DOMAIN alerts PROVE rule'[alerts[i].rule] # NoRule
        OBVIOUS
      <4>1. alerts[i] \in Alert
        BY <1>2
      <4>2. alerts[i].rule \in Rules
        BY <4>1 DEF Alert
      <4> QED
        BY <1>2, <2>5, <4>2
    <3>3. \A c \in Clients : upd[c].rule # NoRule => rule'[upd[c].rule] # NoRule
      BY <2>5 DEF IInv, TypeOK, NoDangling, Update
    <3> QED
      BY <2>1, <2>5, <2>8, <3>1, <3>2, <3>3 DEF NoDangling
  <2> QED
    BY <2>7, <2>9 DEF IInv
<1>9. CASE GetFired(s)
  <2> DEFINE sc == [old EXCEPT !.pc = "put"]
  <2>1. old.pc = "get" /\ UNCHANGED <<now, logs, rule, stored, alerts, upd, status, scans>>
    BY <1>9 DEF GetFired
  <2>2. sc \in Scan /\ sc.listed = old.listed /\ sc.todo = old.todo /\ sc.cur = old.cur
    BY <1>1 DEF Scan, ScanPoints
  <2>3. \/ scan' = [scan EXCEPT ![s] = Return(old, 1)]
        \/ scan' = [scan EXCEPT ![s] = sc]
    BY <1>9 DEF GetFired
  <2> HIDE DEF sc
  <2> QED
    BY <1>1, <1>3, <1>a, <2>1, <2>2, <2>3, ReturnTypes
<1>10. CASE PutFired(s)
  <2>1. /\ scan' = [scan EXCEPT ![s] = Return(old, 1)]
        /\ UNCHANGED <<now, logs, rule, stored, alerts, upd, status, scans>>
    BY <1>10 DEF PutFired, StoreUpdate
  <2> QED
    BY <1>1, <1>a, <2>1, ReturnTypes
<1>11. CASE ScanEnd(s)
  <2>1. /\ scan' = [scan EXCEPT ![s] = Idle]
        /\ UNCHANGED <<now, logs, rule, stored, alerts, upd, scans>>
    BY <1>11 DEF ScanEnd
  <2>2. /\ Cardinality(old.listed) \in Nat
        /\ old.at \in Times /\ old.triggered \in Nat
    BY <1>1, FS_CardinalityType DEF Scan
  <2>3. status' \in [lastScan : Times \cup {Never}, rulesScanned : Nat,
                     alertsTriggered : Nat, total : Nat]
    BY <1>2, <1>11, <2>2 DEF ScanEnd
  <2>4. Idle.pc = "idle" /\ Idle.todo = {} /\ IsFiniteSet(Idle.listed)
    BY FS_EmptySet DEF Idle
  <2> QED
    BY <1>2, <2>1, <2>3, <2>4, IdleTypes, ScanStep
<1> QED
  BY <1>b, <1>4, <1>5, <1>6, <1>7, <1>8, <1>9, <1>10, <1>11 DEF Evaluate

LEMMA Inductive == IInv /\ [Next]_vars => IInv'
<1> SUFFICES ASSUME IInv, [Next]_vars PROVE IInv'
  OBVIOUS
<1>1. CASE UNCHANGED vars
  BY <1>1 DEF IInv, TypeOK, NoDangling, vars
<1> QED
  BY <1>1, EnvironmentIInv, RuleOperationIInv, ScanBeginIInv, EvaluateIInv DEF Next

LEMMA Invariant == Spec => []IInv
  BY InitIInv, Inductive, PTL DEF Spec

\* RuleEngine's variables always have their types.
THEOREM TypeCorrect == Spec => []TypeOK
<1>1. IInv => TypeOK
  BY DEF IInv
<1> QED
  BY <1>1, Invariant, PTL

\* No store, alert, update or scan ever refers to a rule object that was not
\* created, so evaluateRule, UpdateRule and ToggleRuleStatus dereference no nil.
THEOREM ReferencesGood == Spec => []NoDangling
<1>1. IInv => NoDangling
  BY DEF IInv
<1> QED
  BY <1>1, Invariant, PTL

-----------------------------------------------------------------------------
\* Clients and the environment leave the scans and the alerts alone.
LEMMA OthersKeepScans ==
    ASSUME Environment \/ RuleOperation
    PROVE  UNCHANGED <<alerts, scan, status, scans>>
BY DEF Environment, Tick, StoreLog, DropLog, RuleOperation, CreateRule, DeleteRule,
       BeginUpdate, Write, WriteCondition, WriteWindow, WriteThreshold, WriteStatus,
       CommitUpdate

\* store.Update neither adds nor removes a rule.
LEMMA UpdateKeepsStored ==
    ASSUME NEW r, StoreUpdate(r) PROVE stored' = stored
BY DEF StoreUpdate

\* Of the steps of a scan only MarkFired writes to a rule object.
LEMMA ScansKeepRules ==
    ASSUME NEW s \in Scanners, ScanBegin(s) \/ Evaluate(s)
    PROVE  /\ MarkFired(s) \/ UNCHANGED rule
           /\ UNCHANGED <<now, logs, stored, upd>>
BY UpdateKeepsStored
   DEF ScanBegin, Evaluate, ReadClock, Consider, CountLogs, Decide, Record, MarkFired,
       GetFired, PutFired, ScanEnd

\* A deleted rule stays deleted: an identity is created once, and the updates in
\* flight put nothing back.
THEOREM Deletion == Spec => DeletionIsFinal
<1>1. [Next]_vars => [\A r \in Rules : rule[r] # NoRule /\ r \notin stored => r \notin stored']_vars
  <2> SUFFICES ASSUME Next, NEW r \in Rules, rule[r] # NoRule, r \notin stored
               PROVE  r \notin stored'
    OBVIOUS
  <2>1. CASE Environment
    BY <2>1 DEF Environment, Tick, StoreLog, DropLog
  <2>2. CASE RuleOperation
    BY <2>2, UpdateKeepsStored
       DEF RuleOperation, CreateRule, DeleteRule, BeginUpdate, Write, WriteCondition,
           WriteWindow, WriteThreshold, WriteStatus, CommitUpdate
  <2>3. ASSUME NEW s \in Scanners, ScanBegin(s) \/ Evaluate(s) PROVE r \notin stored'
    BY <2>3, ScansKeepRules
  <2> QED
    BY <2>1, <2>2, <2>3 DEF Next
<1> QED
  BY <1>1, PTL DEF Spec, DeletionIsFinal

-----------------------------------------------------------------------------
\* What a step does to a rule object: only MarkFired changes its LastFiredAt,
\* and nothing changes its cooldown.
LEMMA HeapStep ==
    ASSUME IInv, Next, NEW r \in Rules, rule[r] # NoRule
    PROVE  /\ rule'[r].cooldown = rule[r].cooldown
           /\ \/ rule'[r].lastFired = rule[r].lastFired
              \/ \E s \in Scanners : /\ MarkFired(s)
                                     /\ scan[s].cur = r
                                     /\ rule'[r].lastFired = scan[s].at
<1>1. rule \in [Rules -> RuleObject \cup {NoRule}] /\ rule[r] \in RuleObject
  BY DEF IInv, TypeOK
<1>2. CASE Environment
  BY <1>2 DEF Environment, Tick, StoreLog, DropLog
<1>3. CASE RuleOperation
  <2>1. ASSUME NEW x \in Rules, NEW src \in Conditions, NEW w \in Windows, NEW t \in Thresholds,
               NEW c \in Cooldowns, CreateRule(x, src, w, t, c)
        PROVE  rule'[r] = rule[r]
    BY <1>1, <2>1 DEF CreateRule
  <2>2. ASSUME NEW c \in Clients, NEW stage \in 1..3, NEW obj,
               /\ obj.cooldown = rule[upd[c].rule].cooldown
               /\ obj.lastFired = rule[upd[c].rule].lastFired,
               Write(c, stage, obj)
        PROVE  rule'[r].cooldown = rule[r].cooldown /\ rule'[r].lastFired = rule[r].lastFired
    BY <1>1, <2>2 DEF Write
  <2>3. ASSUME NEW c \in Clients, upd[c].rule # NoRule
        PROVE  rule[upd[c].rule] \in RuleObject
    BY <1>1, <2>3 DEF IInv, TypeOK, NoDangling, Update
  <2>4. ASSUME NEW c \in Clients, NEW src \in Conditions, WriteCondition(c, src)
        PROVE  rule'[r].cooldown = rule[r].cooldown /\ rule'[r].lastFired = rule[r].lastFired
    BY <2>2, <2>3, <2>4 DEF WriteCondition, Write, RuleObject
  <2>5. ASSUME NEW c \in Clients, NEW w \in EditedWindows, WriteWindow(c, w)
        PROVE  rule'[r].cooldown = rule[r].cooldown /\ rule'[r].lastFired = rule[r].lastFired
    BY <2>2, <2>3, <2>5 DEF WriteWindow, Write, RuleObject
  <2>6. ASSUME NEW c \in Clients, NEW t \in EditedThresholds, WriteThreshold(c, t)
        PROVE  rule'[r].cooldown = rule[r].cooldown /\ rule'[r].lastFired = rule[r].lastFired
    BY <2>2, <2>3, <2>6 DEF WriteThreshold, Write, RuleObject
  <2>7. ASSUME NEW c \in Clients, NEW st \in Statuses, WriteStatus(c, st)
        PROVE  rule'[r].cooldown = rule[r].cooldown /\ rule'[r].lastFired = rule[r].lastFired
    BY <2>2, <2>3, <2>7 DEF WriteStatus, Write, RuleObject
  <2> QED
    BY <1>3, <2>1, <2>4, <2>5, <2>6, <2>7 DEF RuleOperation, DeleteRule, BeginUpdate, CommitUpdate
<1>4. ASSUME NEW s \in Scanners, ScanBegin(s) \/ Evaluate(s)
      PROVE  \/ rule'[r] = rule[r]
             \/ /\ MarkFired(s)
                /\ scan[s].cur = r
                /\ rule'[r].cooldown = rule[r].cooldown
                /\ rule'[r].lastFired = scan[s].at
  <2>1. CASE MarkFired(s)
    <3> DEFINE obj == [rule[scan[s].cur] EXCEPT !.lastFired = scan[s].at]
    <3>1. rule' = [rule EXCEPT ![scan[s].cur] = obj]
      BY <2>1 DEF MarkFired
    <3>2. CASE scan[s].cur = r
      <4>1. rule'[r] = [rule[r] EXCEPT !.lastFired = scan[s].at]
        BY <1>1, <3>1, <3>2
      <4> QED
        BY <1>1, <2>1, <3>2, <4>1 DEF RuleObject
    <3>3. CASE scan[s].cur # r
      BY <1>1, <3>1, <3>3
    <3> QED
      BY <3>2, <3>3
  <2> QED
    BY <1>4, <2>1, ScansKeepRules
<1> QED
  BY <1>2, <1>3, <1>4 DEF Next

\* A rule that appears has not fired.
LEMMA FreshRule ==
    ASSUME IInv, Next, NEW r \in Rules, rule[r] = NoRule, rule'[r] # NoRule
    PROVE  rule'[r].lastFired = Never
<1>1. rule \in [Rules -> RuleObject \cup {NoRule}]
  BY DEF IInv, TypeOK
<1>2. CASE Environment
  BY <1>2 DEF Environment, Tick, StoreLog, DropLog
<1>3. CASE RuleOperation
  <2>1. ASSUME NEW x \in Rules, NEW src \in Conditions, NEW w \in Windows, NEW t \in Thresholds,
               NEW c \in Cooldowns, CreateRule(x, src, w, t, c)
        PROVE  rule'[r].lastFired = Never
    BY <1>1, <2>1 DEF CreateRule, NewAlertRule
  <2>2. ASSUME NEW c \in Clients, NEW stage, NEW obj, Write(c, stage, obj) PROVE FALSE
    BY <1>1, <2>2 DEF Write, IInv, NoDangling
  <2> QED
    BY <1>3, <2>1, <2>2
       DEF RuleOperation, DeleteRule, BeginUpdate, CommitUpdate, WriteCondition, WriteWindow,
           WriteThreshold, WriteStatus
<1>4. ASSUME NEW s \in Scanners, ScanBegin(s) \/ Evaluate(s) PROVE FALSE
  <2>1. CASE MarkFired(s)
    <3>1. scan[s].cur # r
      BY <2>1 DEF MarkFired, IInv, NoDangling, InScanOnce
    <3> QED
      BY <1>1, <2>1, <3>1 DEF MarkFired
  <2> QED
    BY <1>4, <2>1, ScansKeepRules
<1> QED
  BY <1>2, <1>3, <1>4 DEF Next

\* Only Record changes the alerts, and it appends one.
LEMMA AlertStep ==
    ASSUME Next
    PROVE  UNCHANGED alerts \/ \E s \in Scanners : Record(s)
<1>1. ASSUME NEW s \in Scanners, ScanBegin(s) \/ Evaluate(s) PROVE UNCHANGED alerts \/ Record(s)
  BY <1>1 DEF ScanBegin, Evaluate, ReadClock, Consider, CountLogs, Decide, MarkFired,
              GetFired, PutFired, ScanEnd
<1> QED
  BY <1>1, OthersKeepScans DEF Next

\* What Record appends.
LEMMA RecordAppends ==
    ASSUME IInv, NEW s \in Scanners, Record(s)
    PROVE  /\ DOMAIN alerts = 1..Len(alerts) /\ Len(alerts) \in Nat
           /\ DOMAIN alerts' = 1..(Len(alerts) + 1)
           /\ \A i \in DOMAIN alerts : alerts'[i] = alerts[i]
           /\ alerts'[Len(alerts) + 1].rule = scan[s].cur
           /\ alerts'[Len(alerts) + 1].scanAt = scan[s].at
<1> DEFINE new == [rule |-> scan[s].cur, source |-> scan[s].draft,
                   counted |-> scan[s].filter.source, scanAt |-> scan[s].at]
<1>1. alerts \in Seq(Alert) /\ alerts' = Append(alerts, new)
  BY DEF Record, IInv, TypeOK
<1>2. new.rule = scan[s].cur /\ new.scanAt = scan[s].at
  OBVIOUS
<1> HIDE DEF new
<1> QED
  BY <1>1, <1>2
-----------------------------------------------------------------------------
\* A scan about to mark a rule has stored the alert it marks it for.
MarkIsBacked ==
    \A s \in Scanners : scan[s].pc = "mark" =>
        \E i \in AlertsOf(scan[s].cur) : alerts[i].scanAt = scan[s].at

\* The point before MarkFired is reached by Record only.
LEMMA OnlyRecordMarks ==
    ASSUME IInv, NEW s \in Scanners, ScanBegin(s) \/ Evaluate(s), ~Record(s)
    PROVE  scan'[s].pc # "mark"
<1>1. scan \in [Scanners -> Scan] /\ scan[s] \in Scan
  BY DEF IInv, TypeOK
<1>2. CASE ScanBegin(s)
  BY <1>1, <1>2 DEF ScanBegin, Idle
<1>3. CASE ReadClock(s)
  BY <1>1, <1>3 DEF ReadClock, Scan
<1>4. ASSUME NEW r \in Rules, Consider(s, r) PROVE scan'[s].pc # "mark"
  BY <1>1, <1>4 DEF Consider, Scan
<1>5. CASE CountLogs(s)
  BY <1>1, <1>5 DEF CountLogs, Scan
<1>6. CASE Decide(s)
  BY <1>1, <1>6 DEF Decide, Return, Scan
<1>7. CASE MarkFired(s)
  BY <1>1, <1>7 DEF MarkFired, Scan
<1>8. CASE GetFired(s)
  BY <1>1, <1>8 DEF GetFired, Return, Scan
<1>9. CASE PutFired(s)
  BY <1>1, <1>9 DEF PutFired, Return
<1>10. CASE ScanEnd(s)
  BY <1>1, <1>10 DEF ScanEnd, Idle
<1> QED
  BY <1>2, <1>3, <1>4, <1>5, <1>6, <1>7, <1>8, <1>9, <1>10 DEF Evaluate

LEMMA BackedInductive ==
    IInv /\ CooldownIsBacked /\ MarkIsBacked /\ [Next]_vars => CooldownIsBacked' /\ MarkIsBacked'
<1> SUFFICES ASSUME IInv, CooldownIsBacked, MarkIsBacked, [Next]_vars
             PROVE  CooldownIsBacked' /\ MarkIsBacked'
  OBVIOUS
<1>1. CASE UNCHANGED vars
  BY <1>1 DEF vars, CooldownIsBacked, MarkIsBacked, AlertsOf
<1>2. CASE Next
  \* An alert that backs a rule or a scan goes on backing it.
  <2>1. ASSUME NEW r \in Rules, NEW t, \E i \in AlertsOf(r) : alerts[i].scanAt = t
        PROVE  (\E i \in AlertsOf(r) : alerts[i].scanAt = t)'
    BY <1>2, <2>1, AlertStep, RecordAppends DEF AlertsOf
  <2>2. CooldownIsBacked'
    <3> SUFFICES ASSUME NEW r \in Rules, rule'[r] # NoRule, rule'[r].lastFired # Never
                 PROVE  (\E i \in AlertsOf(r) : alerts[i].scanAt = rule[r].lastFired)'
      BY DEF CooldownIsBacked
    <3>1. rule[r] # NoRule
      BY <1>2, FreshRule
    <3>2. CASE rule'[r].lastFired = rule[r].lastFired
      BY <2>1, <3>1, <3>2 DEF CooldownIsBacked
    <3>3. ASSUME NEW s \in Scanners, MarkFired(s), scan[s].cur = r,
                 rule'[r].lastFired = scan[s].at
          PROVE  (\E i \in AlertsOf(r) : alerts[i].scanAt = rule[r].lastFired)'
      <4>1. \E i \in AlertsOf(r) : alerts[i].scanAt = scan[s].at
        BY <3>3 DEF MarkFired, MarkIsBacked
      <4> QED
        BY <2>1, <3>3, <4>1
    <3> QED
      BY <1>2, <3>1, <3>2, <3>3, HeapStep
  <2>3. MarkIsBacked'
    <3> SUFFICES ASSUME NEW s \in Scanners, scan'[s].pc = "mark"
                 PROVE  (\E i \in AlertsOf(scan[s].cur) : alerts[i].scanAt = scan[s].at)'
      BY DEF MarkIsBacked
    <3>0. scan'[s].pc = "mark"
      OBVIOUS
    <3>1. CASE scan'[s] = scan[s]
      <4>1. scan[s].cur \in Rules
        BY <3>1 DEF IInv, NoDangling, InScanOnce
      <4>2. \E i \in AlertsOf(scan[s].cur) : alerts[i].scanAt = scan[s].at
        BY <3>1 DEF MarkIsBacked
      <4> QED
        BY <2>1, <3>1, <4>1, <4>2
    <3>2. CASE Record(s)
      <4>1. scan'[s].cur = scan[s].cur /\ scan'[s].at = scan[s].at
        BY <3>2 DEF Record, IInv, TypeOK, Scan
      <4> QED
        BY <3>2, <4>1, RecordAppends DEF AlertsOf
    <3>3. scan'[s] = scan[s] \/ Record(s)
      <4>1. ASSUME NEW z \in Scanners, ScanBegin(z) \/ Evaluate(z)
            PROVE  scan'[s] = scan[s] \/ Record(s)
        <5>1. CASE z # s
          BY <4>1, <5>1
             DEF ScanBegin, Evaluate, ReadClock, Consider, CountLogs, Decide, Record, MarkFired,
                 GetFired, PutFired, ScanEnd, IInv, TypeOK
        <5>2. CASE z = s
          <6>1. CASE Record(s)
            BY <6>1
          <6>2. CASE ~Record(s)
            BY <3>0, <4>1, <5>2, <6>2, OnlyRecordMarks
          <6> QED
            BY <6>1, <6>2
        <5> QED
          BY <5>1, <5>2
      <4> QED
        BY <1>2, <4>1, OthersKeepScans DEF Next
    <3> QED
      BY <3>1, <3>2, <3>3
  <2> QED
    BY <2>2, <2>3
<1> QED
  BY <1>1, <1>2

\* Every cooldown has an alert to show for it, with any number of scans running.
THEOREM Backed == Spec => []CooldownIsBacked
<1>1. Init => CooldownIsBacked /\ MarkIsBacked
  BY DEF Init, CooldownIsBacked, MarkIsBacked, Idle
<1> QED
  BY <1>1, Invariant, BackedInductive, PTL DEF Spec

-----------------------------------------------------------------------------
\* What a scan has done and the status does not say yet: the alerts it counts,
\* and the one it has stored and is about to count.
Share(sc) == sc.triggered + (IF sc.pc \in {"mark", "get", "put"} THEN 1 ELSE 0)

Pending == Cardinality(Uncounted) + SumFunction([s \in Scanners |-> scan[s].triggered])

\* A scan that is not running counts nothing.
IdleCountsNothing == \A s \in Scanners : scan[s].pc = "idle" => scan[s].triggered = 0

CountedInv == EveryAlertCounted /\ IdleCountsNothing

LEMMA PendingTypes ==
    IInv => /\ Cardinality(Uncounted) \in Int
            /\ SumFunction([z \in Scanners |-> scan[z].triggered]) \in Int
<1> SUFFICES ASSUME IInv
             PROVE  /\ Cardinality(Uncounted) \in Int
                    /\ SumFunction([z \in Scanners |-> scan[z].triggered]) \in Int
  OBVIOUS
<1> DEFINE f == [z \in Scanners |-> scan[z].triggered]
<1>1. IsFiniteSet(Scanners) /\ \A z \in Scanners : f[z] \in Int
  BY SetsAssumption DEF IInv, TypeOK, Scan
<1>2. SumFunction(f) = SumFunctionOnSet(f, Scanners) /\ Scanners \in SUBSET Scanners
  BY DEF SumFunction
<1>3. Uncounted \in SUBSET Scanners
  BY DEF Uncounted
<1> HIDE DEF f
<1>4. SumFunctionOnSet(f, Scanners) \in Int
  BY <1>1, <1>2, SumRecurrence
<1>5. Cardinality(Uncounted) \in Int
  BY <1>1, <1>3, FS_Subset, FS_CardinalityType
<1> QED
  BY <1>2, <1>4, <1>5 DEF f

\* When one scan moves, what is pending changes by its share.
LEMMA PendingChanges ==
    ASSUME IInv, IInv', NEW s \in Scanners,
           \A z \in Scanners \ {s} : scan'[z] = scan[z]
    PROVE  /\ Pending \in Int
           /\ Share(scan[s]) \in Int /\ Share(scan'[s]) \in Int
           /\ Pending' = Pending + Share(scan'[s]) - Share(scan[s])
<1>1. /\ IsFiniteSet(Scanners)
      /\ \A z \in Scanners : scan[z].triggered \in Nat /\ scan'[z].triggered \in Nat
  BY SetsAssumption DEF IInv, TypeOK, Scan
<1> DEFINE f == [z \in Scanners |-> scan[z].triggered]
           f2 == [z \in Scanners |-> scan'[z].triggered]
           d == scan'[s].triggered - scan[s].triggered
<1>2. /\ SumFunctionOnSet(f, Scanners) \in Int
      /\ SumFunctionOnSet(f2, Scanners) = SumFunctionOnSet(f, Scanners) + d
  <2>1. /\ d \in Int
        /\ \A z \in Scanners : f[z] \in Int
        /\ \A z \in Scanners \ {s} : f2[z] = f[z]
        /\ f2[s] = f[s] + d
    BY <1>1
  <2> HIDE DEF f, f2, d
  <2>2. SumFunctionOnSet(f2, Scanners) = SumFunctionOnSet(f, Scanners) + d
    BY <1>1, <2>1, SumChanges
  <2>3. Scanners \in SUBSET Scanners
    OBVIOUS
  <2>4. SumFunctionOnSet(f, Scanners) \in Int
    BY <1>1, <2>1, <2>3, SumRecurrence
  <2> QED
    BY <2>2, <2>4
<1>3. /\ SumFunction([z \in Scanners |-> scan[z].triggered]) = SumFunctionOnSet(f, Scanners)
      /\ SumFunction([z \in Scanners |-> scan[z].triggered])' = SumFunctionOnSet(f2, Scanners)
  BY DEF SumFunction
<1> DEFINE one(sc) == IF sc.pc \in {"mark", "get", "put"} THEN 1 ELSE 0
<1>4. /\ Cardinality(Uncounted) \in Nat
      /\ Cardinality(Uncounted)' = Cardinality(Uncounted) + one(scan'[s]) - one(scan[s])
  <2> DEFINE others == Uncounted \ {s}
  <2>1. IsFiniteSet(Uncounted)
    BY <1>1, FS_Subset DEF Uncounted
  <2>2. IsFiniteSet(others) /\ Cardinality(Uncounted) \in Nat
        /\ Cardinality(others) = Cardinality(Uncounted) - one(scan[s])
    <3>1. /\ IsFiniteSet(Uncounted \ {s})
          /\ Cardinality(Uncounted \ {s}) = IF s \in Uncounted THEN Cardinality(Uncounted) - 1
                                            ELSE Cardinality(Uncounted)
      BY <2>1, FS_RemoveElement
    <3>2. Cardinality(Uncounted) \in Nat
      BY <2>1, FS_CardinalityType
    <3>3. s \in Uncounted <=> scan[s].pc \in {"mark", "get", "put"}
      BY DEF Uncounted
    <3> QED
      BY <3>1, <3>2, <3>3
  <2>3. Uncounted' = IF one(scan'[s]) = 1 THEN others \cup {s} ELSE others
    BY DEF Uncounted
  <2>4. s \notin others
    OBVIOUS
  <2> HIDE DEF others
  <2>5. Cardinality(others \cup {s}) = Cardinality(others) + 1
    BY <2>2, <2>4, FS_AddElement
  <2>6. Cardinality(Uncounted') = Cardinality(others) + one(scan'[s])
    <3>1. Cardinality(others) \in Int
      BY <2>2, FS_CardinalityType
    <3>2. CASE one(scan'[s]) = 1
      BY <2>3, <2>5, <3>2
    <3>3. CASE one(scan'[s]) = 0
      BY <2>3, <3>1, <3>3
    <3> QED
      BY <3>2, <3>3
  <2> QED
    BY <2>2, <2>6
<1> HIDE DEF f, f2
<1>5. /\ Pending = Cardinality(Uncounted) + SumFunctionOnSet(f, Scanners)
      /\ Pending' = Cardinality(Uncounted)' + SumFunctionOnSet(f2, Scanners)
  BY <1>3 DEF Pending
<1>6. scan[s].triggered \in Int /\ scan'[s].triggered \in Int
  BY <1>1
<1>7. one(scan[s]) \in Int /\ one(scan'[s]) \in Int
  OBVIOUS
<1>8. Share(scan[s]) = scan[s].triggered + one(scan[s])
      /\ Share(scan'[s]) = scan'[s].triggered + one(scan'[s])
  BY DEF Share
<1> HIDE DEF one
<1> QED
  BY <1>2, <1>4, <1>5, <1>6, <1>7, <1>8

\* A scan that moves adds to its share what it adds to the alerts, and hands it
\* over to the status when it ends.
LEMMA ShareIsAccounted ==
    ASSUME IInv, NEW s \in Scanners, ScanBegin(s) \/ Evaluate(s), IdleCountsNothing
    PROVE  /\ \A z \in Scanners \ {s} : scan'[z] = scan[z]
           /\ scan'[s].pc = "idle" => scan'[s].triggered = 0
           /\ Len(alerts) \in Nat /\ status.total \in Nat
           /\ Share(scan[s]) \in Nat /\ Share(scan'[s]) \in Nat
           /\ Len(alerts') + Share(scan[s]) + status.total
                = Len(alerts) + Share(scan'[s]) + status'.total
<1>1. /\ scan \in [Scanners -> Scan] /\ scan[s] \in Scan
      /\ scan[s].triggered \in Nat
      /\ alerts \in Seq(Alert) /\ Len(alerts) \in Nat
      /\ status.total \in Nat
  <2>1. scan \in [Scanners -> Scan] /\ alerts \in Seq(Alert) /\ status.total \in Nat
    BY DEF IInv, TypeOK
  <2>2. scan[s] \in Scan
    BY <2>1
  <2>3. Len(alerts) \in Nat
    BY <2>1, LenProperties
  <2> QED
    BY <2>1, <2>2, <2>3 DEF Scan
<1>2. CASE ScanBegin(s)
  BY <1>1, <1>2 DEF ScanBegin, Idle, Share, IdleCountsNothing
<1>3. CASE ReadClock(s)
  BY <1>1, <1>3 DEF ReadClock, Scan, Share
<1>4. ASSUME NEW r \in Rules, Consider(s, r)
      PROVE  /\ UNCHANGED <<alerts, status>>
             /\ \A z \in Scanners \ {s} : scan'[z] = scan[z]
             /\ scan'[s].pc \in {"next", "count"} /\ scan[s].pc = "next"
             /\ scan'[s].triggered = scan[s].triggered
  BY <1>1, <1>4 DEF Consider, Scan
<1>5. CASE CountLogs(s)
  BY <1>1, <1>5 DEF CountLogs, Scan, Share
<1>6. CASE Decide(s)
  BY <1>1, <1>6 DEF Decide, Return, Scan, Share
<1>7. CASE Record(s)
  <2>1. Len(alerts') = Len(alerts) + 1
    BY <1>1, <1>7, LenProperties DEF Record
  <2>2. /\ scan[s].pc = "record" /\ scan'[s].pc = "mark"
        /\ scan'[s].triggered = scan[s].triggered
        /\ \A z \in Scanners \ {s} : scan'[z] = scan[z]
        /\ status' = status
    BY <1>1, <1>7 DEF Record, Scan
  <2> QED
    BY <1>1, <2>1, <2>2 DEF Share
<1>8. CASE MarkFired(s)
  BY <1>1, <1>8 DEF MarkFired, Scan, Share
<1>9. CASE GetFired(s)
  BY <1>1, <1>9 DEF GetFired, Return, Scan, Share
<1>10. CASE PutFired(s)
  BY <1>1, <1>10 DEF PutFired, Return, Scan, Share
<1>11. CASE ScanEnd(s)
  BY <1>1, <1>11 DEF ScanEnd, Idle, Scan, Share
<1> QED
  BY <1>1, <1>2, <1>3, <1>4, <1>5, <1>6, <1>7, <1>8, <1>9, <1>10, <1>11 DEF Evaluate, Share

LEMMA CountedInductive == IInv /\ CountedInv /\ [Next]_vars => CountedInv'
<1> SUFFICES ASSUME IInv, CountedInv, [Next]_vars PROVE CountedInv'
  OBVIOUS
<1>0. IInv'
  BY Inductive
<1>1. CASE UNCHANGED <<alerts, scan, status>>
  BY <1>1 DEF CountedInv, EveryAlertCounted, IdleCountsNothing, Uncounted
<1>2. ASSUME NEW s \in Scanners, ScanBegin(s) \/ Evaluate(s) PROVE CountedInv'
  <2>1. /\ \A z \in Scanners \ {s} : scan'[z] = scan[z]
        /\ scan'[s].pc = "idle" => scan'[s].triggered = 0
        /\ Len(alerts) \in Nat /\ status.total \in Nat
        /\ Len(alerts') + Share(scan[s]) + status.total
             = Len(alerts) + Share(scan'[s]) + status'.total
    BY <1>2, ShareIsAccounted DEF CountedInv
  <2>2. /\ Pending \in Int
        /\ Share(scan[s]) \in Int /\ Share(scan'[s]) \in Int
        /\ Pending' = Pending + Share(scan'[s]) - Share(scan[s])
    BY <1>0, <2>1, PendingChanges
  <2>3. Len(alerts') \in Nat /\ status'.total \in Nat
    BY <1>0, LenProperties DEF IInv, TypeOK
  <2>4. /\ SumFunction([z \in Scanners |-> scan[z].triggered]) \in Int
        /\ Cardinality(Uncounted) \in Int
        /\ SumFunction([z \in Scanners |-> scan[z].triggered])' \in Int
        /\ Cardinality(Uncounted)' \in Int
    <3>1. (IInv => /\ Cardinality(Uncounted) \in Int
                   /\ SumFunction([z \in Scanners |-> scan[z].triggered]) \in Int)'
      BY PendingTypes, PTL
    <3> QED
      BY <1>0, <3>1, PendingTypes
  <2>5. Len(alerts) = status.total + Pending
    BY <2>1, <2>4 DEF CountedInv, EveryAlertCounted, Pending
  <2>6. Len(alerts') = status'.total + Pending'
    <3> DEFINE n == Len(alerts) n2 == Len(alerts') t == status.total t2 == status'.total
               p == Pending p2 == Pending' a == Share(scan[s]) a2 == Share(scan'[s])
    <3>1. /\ n \in Int /\ n2 \in Int /\ t \in Int /\ t2 \in Int /\ p \in Int /\ a \in Int
          /\ a2 \in Int /\ p2 = p + a2 - a /\ n = t + p /\ n2 + a + t = n + a2 + t2
      BY <2>1, <2>2, <2>3, <2>5
    <3> HIDE DEF n, n2, t, t2, p, p2, a, a2
    <3>2. n2 = t2 + p2
      BY <3>1
    <3> QED
      BY <3>2 DEF n2, t2, p2
  <2>7. EveryAlertCounted'
    BY <2>3, <2>4, <2>6 DEF EveryAlertCounted, Pending
  <2>8. IdleCountsNothing'
    BY <2>1 DEF CountedInv, IdleCountsNothing
  <2> QED
    BY <2>7, <2>8 DEF CountedInv
<1>3. CASE UNCHANGED vars
  BY <1>1, <1>3 DEF vars
<1> QED
  BY <1>1, <1>2, <1>3, OthersKeepScans DEF Next

\* The running total of the status and what the running scans have still to add
\* to it make up the alerts, for any number of concurrent scans.
THEOREM AlertsAreCounted == Spec => []EveryAlertCounted
<1>1. Init => CountedInv
  <2> SUFFICES ASSUME Init PROVE CountedInv
    OBVIOUS
  <2>1. scan = [s \in Scanners |-> Idle] /\ Idle.pc = "idle" /\ Idle.triggered = 0
    BY DEF Init, Idle
  <2>2. Uncounted = {} /\ Cardinality(Uncounted) = 0
    BY <2>1, FS_EmptySet DEF Uncounted
  <2>3. SumFunction([s \in Scanners |-> scan[s].triggered]) = 0
    <3> DEFINE f == [s \in Scanners |-> scan[s].triggered]
    <3>1. \A s \in Scanners : f[s] = 0
      BY <2>1
    <3>2. SumFunction(f) = SumFunctionOnSet(f, Scanners)
      BY DEF SumFunction
    <3> HIDE DEF f
    <3> QED
      BY <3>1, <3>2, SumOfZeros, SetsAssumption DEF f
  <2>4. Len(alerts) = 0 /\ status.total = 0
    BY DEF Init
  <2> QED
    BY <2>1, <2>2, <2>3, <2>4 DEF CountedInv, EveryAlertCounted, IdleCountsNothing
<1>2. CountedInv => EveryAlertCounted
  BY DEF CountedInv
<1> QED
  BY <1>1, <1>2, Invariant, CountedInductive, PTL DEF Spec

-----------------------------------------------------------------------------
\* Where only scanner s runs: what it knows of the alerts stored so far, from the
\* clock it has read and from the CanFire it has passed.
AheadOfAlerts(s) ==
    /\ \A i \in DOMAIN alerts : alerts[i].scanAt <= now
    /\ scan[s].pc \notin {"idle", "clock"} =>
          scan[s].at <= now /\ \A i \in DOMAIN alerts : alerts[i].scanAt <= scan[s].at
    /\ scan[s].pc \in {"count", "decide", "record"} =>
          \A i \in AlertsOf(scan[s].cur) :
             alerts[i].scanAt + rule[scan[s].cur].cooldown < scan[s].at

OneScanInv(s) == CooldownBetweenScans /\ LastFiredIsLatest /\ AheadOfAlerts(s)

LEMMA TimesAreInts == Times \subseteq Int
BY ValuesAssumption DEF Times

LEMMA AlertTypes ==
    ASSUME IInv
    PROVE  \A i \in DOMAIN alerts : /\ alerts[i].rule \in Rules /\ rule[alerts[i].rule] # NoRule
                                    /\ alerts[i].scanAt \in Int
<1> SUFFICES ASSUME NEW i \in DOMAIN alerts
             PROVE  /\ alerts[i].rule \in Rules /\ rule[alerts[i].rule] # NoRule
                    /\ alerts[i].scanAt \in Int
  OBVIOUS
<1>1. alerts \in Seq(Alert)
  BY DEF IInv, TypeOK
<1>2. alerts[i] \in Alert
  BY <1>1
<1> QED
  BY <1>2, TimesAreInts DEF Alert, IInv, NoDangling

\* A step that is not one of the scanner's.
LEMMA OneScanOthers ==
    ASSUME NEW s \in Scanners, Scanners = {s}, IInv, OneScanInv(s), Environment \/ RuleOperation
    PROVE  OneScanInv(s)'
<1>1. UNCHANGED <<alerts, scan>> /\ Next
  BY OthersKeepScans DEF Next
<1>2. now \in Int /\ now' \in Int /\ now <= now'
  <2>1. now \in Int
    BY TimesAreInts DEF IInv, TypeOK
  <2>2. now' = now \/ now' = now + 1
    BY DEF Environment, Tick, StoreLog, DropLog, RuleOperation, CreateRule, DeleteRule,
           BeginUpdate, Write, WriteCondition, WriteWindow, WriteThreshold, WriteStatus,
           CommitUpdate
  <2> QED
    BY <2>1, <2>2
<1>3. ~MarkFired(s)
  <2> SUFFICES ASSUME MarkFired(s) PROVE FALSE
    OBVIOUS
  <2>1. scan[s].pc = "mark" /\ scan' = [scan EXCEPT ![s] = [@ EXCEPT !.pc = "get"]]
    BY DEF MarkFired
  <2>2. scan \in [Scanners -> Scan] /\ scan[s] \in Scan
    BY DEF IInv, TypeOK
  <2>3. scan'[s].pc = "get"
    BY <2>1, <2>2 DEF Scan
  <2> QED
    BY <1>1, <2>1, <2>3
<1>4. \A r \in Rules : rule[r] # NoRule => /\ rule'[r].cooldown = rule[r].cooldown
                                            /\ rule'[r].lastFired = rule[r].lastFired
  BY <1>1, <1>3, HeapStep
<1>5. \A i \in DOMAIN alerts : /\ alerts[i].rule \in Rules /\ rule[alerts[i].rule] # NoRule
                               /\ alerts[i].scanAt \in Int
  BY AlertTypes
<1>6. /\ scan[s].pc \notin InScanOnce => scan[s].cur \in Rules /\ rule[scan[s].cur] # NoRule
      /\ scan[s].at \in Int
  BY TimesAreInts DEF IInv, TypeOK, NoDangling, Scan
<1>7. CooldownBetweenScans' /\ LastFiredIsLatest'
  <2>1. \A r \in Rules : \A i \in AlertsOf(r) : rule[r] # NoRule
    BY <1>5 DEF AlertsOf
  <2>2. \A r \in Rules : AlertsOf(r)' = AlertsOf(r)
    BY <1>1 DEF AlertsOf
  <2>3. CooldownBetweenScans'
    BY <1>1, <1>4, <2>1, <2>2 DEF OneScanInv, CooldownBetweenScans
  <2>4. LastFiredIsLatest'
    BY <1>1, <1>4, <2>1, <2>2 DEF OneScanInv, LastFiredIsLatest
  <2> QED
    BY <2>3, <2>4
<1>8. AheadOfAlerts(s)'
  <2>1. (\A i \in DOMAIN alerts : alerts[i].scanAt <= now)'
    BY <1>1, <1>2, <1>5 DEF OneScanInv, AheadOfAlerts
  <2>2. scan[s].pc \notin {"idle", "clock"} =>
          scan[s].at <= now' /\ \A i \in DOMAIN alerts : alerts[i].scanAt <= scan[s].at
    BY <1>2, <1>6 DEF OneScanInv, AheadOfAlerts
  <2>3. scan[s].pc \in {"count", "decide", "record"} =>
          \A i \in AlertsOf(scan[s].cur) :
             alerts[i].scanAt + rule'[scan[s].cur].cooldown < scan[s].at
    BY <1>4, <1>6 DEF OneScanInv, AheadOfAlerts, InScanOnce
  <2> QED
    BY <1>1, <2>1, <2>2, <2>3 DEF AheadOfAlerts, AlertsOf
<1> QED
  BY <1>7, <1>8 DEF OneScanInv

\* A step of the scan that touches neither rules nor alerts keeps the invariant
\* when it keeps what AheadOfAlerts says of the scan.
LEMMA OneScanQuiet ==
    ASSUME NEW s \in Scanners, Scanners = {s}, OneScanInv(s),
           UNCHANGED <<now, rule, alerts>>,
           scan[s].pc = "mark" => scan'[s].pc = "mark" /\ scan'[s].cur = scan[s].cur,
           scan'[s].pc \notin {"idle", "clock"} =>
             scan'[s].at <= now /\ \A i \in DOMAIN alerts : alerts[i].scanAt <= scan'[s].at,
           scan'[s].pc \in {"count", "decide", "record"} =>
             \A i \in AlertsOf(scan'[s].cur) :
               alerts[i].scanAt + rule[scan'[s].cur].cooldown < scan'[s].at
    PROVE  OneScanInv(s)'
<1>1. CooldownBetweenScans'
  BY DEF OneScanInv, CooldownBetweenScans, AlertsOf
<1>2. LastFiredIsLatest'
  BY DEF OneScanInv, LastFiredIsLatest, AlertsOf
<1>3. AheadOfAlerts(s)'
  BY DEF OneScanInv, AheadOfAlerts, AlertsOf
<1> QED
  BY <1>1, <1>2, <1>3 DEF OneScanInv

\* A step of the scan.
LEMMA OneScanStep ==
    ASSUME NEW s \in Scanners, Scanners = {s}, IInv, OneScanInv(s), ScanBegin(s) \/ Evaluate(s)
    PROVE  OneScanInv(s)'
<1> DEFINE old == scan[s]
<1>1. scan \in [Scanners -> Scan] /\ old \in Scan /\ old.at \in Int /\ now \in Int
  BY TimesAreInts DEF IInv, TypeOK, Scan
<1>2. /\ \A i \in DOMAIN alerts : alerts[i].scanAt \in Int /\ alerts[i].rule \in Rules
      /\ \A r \in Rules : rule[r] # NoRule =>
           rule[r].cooldown \in Int /\ rule[r].lastFired \in Int \cup {Never}
      /\ Never \notin Int
  BY AlertTypes, RuleObjectTypes, SetsAssumption DEF IInv, TypeOK
<1>3. old.pc \notin InScanOnce => old.cur \in Rules /\ rule[old.cur] # NoRule
  BY DEF IInv, NoDangling
<1>4. CASE ScanBegin(s)
  <2>1. scan'[s].pc = "clock" /\ old.pc = "idle" /\ UNCHANGED <<now, rule, alerts>>
    BY <1>1, <1>4 DEF ScanBegin, Idle
  <2> QED
    BY <2>1, OneScanQuiet
<1>5. CASE ReadClock(s)
  <2>1. /\ scan'[s].pc = "next" /\ scan'[s].at = now /\ old.pc = "clock"
        /\ UNCHANGED <<now, rule, alerts>>
    BY <1>1, <1>5 DEF ReadClock, Scan
  <2> QED
    BY <1>1, <2>1, OneScanQuiet DEF OneScanInv, AheadOfAlerts
<1>6. ASSUME NEW r \in Rules, Consider(s, r) PROVE OneScanInv(s)'
  <2>1. /\ scan'[s].at = old.at /\ old.pc = "next"
        /\ UNCHANGED <<now, rule, alerts>>
        /\ \/ scan'[s].pc = "next"
           \/ scan'[s].pc = "count" /\ scan'[s].cur = r /\ CanFire(r, old.at)
    BY <1>1, <1>6 DEF Consider, Scan
  <2>2. CanFire(r, old.at) => \A i \in AlertsOf(r) : alerts[i].scanAt + rule[r].cooldown < old.at
    <3> SUFFICES ASSUME CanFire(r, old.at), NEW i \in AlertsOf(r)
                 PROVE  alerts[i].scanAt + rule[r].cooldown < old.at
      OBVIOUS
    <3>1. rule[r].lastFired # Never /\ rule[r].lastFired >= alerts[i].scanAt
      BY <2>1 DEF OneScanInv, LastFiredIsLatest
    <3>2. rule[r] # NoRule /\ alerts[i].scanAt \in Int
      BY <1>2 DEF AlertsOf, IInv, NoDangling
    <3>3. rule[r].cooldown \in Int /\ rule[r].lastFired \in Int
      BY <1>2, <3>1, <3>2
    <3> QED
      BY <1>1, <3>1, <3>2, <3>3 DEF CanFire
  <2> QED
    BY <2>1, <2>2, OneScanQuiet DEF OneScanInv, AheadOfAlerts
<1>7. CASE CountLogs(s) \/ Decide(s)
  <2>1. /\ scan'[s].at = old.at /\ old.pc \in {"count", "decide"}
        /\ UNCHANGED <<now, rule, alerts>>
        /\ scan'[s].pc = "next" \/ scan'[s].cur = old.cur
    <3>1. CASE CountLogs(s)
      BY <1>1, <3>1 DEF CountLogs, Scan
    <3>2. CASE Decide(s)
      <4> DEFINE fired == [old EXCEPT !.pc = "record", !.draft = rule[old.cur].source]
      <4>1. /\ old.pc = "decide" /\ UNCHANGED <<now, rule, alerts>>
            /\ scan' = [scan EXCEPT ![s] = IF old.count < rule[old.cur].threshold
                                           THEN Return(old, 0) ELSE fired]
        BY <3>2 DEF Decide
      <4>2. Return(old, 0).at = old.at /\ Return(old, 0).pc = "next"
        BY DEF Return
      <4>3. fired.at = old.at /\ fired.cur = old.cur
        BY <1>1 DEF Scan
      <4> HIDE DEF fired
      <4>4. scan'[s] = Return(old, 0) \/ scan'[s] = fired
        BY <1>1, <4>1
      <4> QED
        BY <4>1, <4>2, <4>3, <4>4
    <3> QED
      BY <1>7, <3>1, <3>2
  <2> QED
    BY <2>1, OneScanQuiet DEF OneScanInv, AheadOfAlerts
<1>8. CASE GetFired(s) \/ PutFired(s)
  <2>1. /\ scan'[s].at = old.at /\ old.pc \in {"get", "put"}
        /\ UNCHANGED <<now, rule, alerts>>
        /\ scan'[s].pc \in {"next", "put"}
    BY <1>1, <1>8 DEF GetFired, PutFired, Return, Scan
  <2> QED
    BY <2>1, OneScanQuiet DEF OneScanInv, AheadOfAlerts
<1>9. CASE ScanEnd(s)
  <2>1. scan'[s].pc = "idle" /\ old.pc = "next" /\ UNCHANGED <<now, rule, alerts>>
    BY <1>1, <1>9 DEF ScanEnd, Idle
  <2> QED
    BY <2>1, OneScanQuiet
<1>10. CASE Record(s)
  <2> DEFINE n == Len(alerts) + 1
  <2>1. /\ scan'[s].pc = "mark" /\ scan'[s].at = old.at /\ scan'[s].cur = old.cur
        /\ old.pc = "record" /\ UNCHANGED <<now, rule>>
    BY <1>1, <1>10 DEF Record, Scan
  <2>2. /\ \A i \in DOMAIN alerts : alerts'[i] = alerts[i] /\ i < n
        /\ DOMAIN alerts' = DOMAIN alerts \cup {n}
        /\ alerts'[n].rule = old.cur /\ alerts'[n].scanAt = old.at
        /\ n \in Int /\ DOMAIN alerts \subseteq Int
    BY <1>10, RecordAppends
  <2> HIDE DEF n
  <2>3. CooldownBetweenScans'
    <3> SUFFICES ASSUME NEW r \in Rules, NEW i \in AlertsOf(r)', NEW j \in AlertsOf(r)', i < j
                 PROVE  alerts'[j].scanAt > alerts'[i].scanAt + rule[r].cooldown
      BY <2>1 DEF CooldownBetweenScans
    <3>1. CASE j \in DOMAIN alerts
      <4>1. i \in DOMAIN alerts
        BY <2>2, <3>1 DEF AlertsOf
      <4> QED
        BY <2>2, <3>1, <4>1 DEF AlertsOf, OneScanInv, CooldownBetweenScans
    <3>2. CASE j = n
      <4>1. i \in DOMAIN alerts /\ r = old.cur
        BY <2>2, <3>2 DEF AlertsOf
      <4>2. alerts[i].scanAt + rule[r].cooldown < old.at
        BY <2>1, <2>2, <4>1 DEF AlertsOf, OneScanInv, AheadOfAlerts
      <4> QED
        BY <1>1, <1>2, <1>3, <2>1, <2>2, <3>2, <4>1, <4>2 DEF InScanOnce
    <3> QED
      BY <2>2, <3>1, <3>2 DEF AlertsOf
  <2>4. LastFiredIsLatest'
    <3> SUFFICES ASSUME NEW r \in Rules, NEW i \in AlertsOf(r)', r # old.cur
                 PROVE  rule[r].lastFired # Never /\ rule[r].lastFired >= alerts'[i].scanAt
      BY <2>1 DEF LastFiredIsLatest
    <3>1. i \in AlertsOf(r) /\ alerts'[i] = alerts[i]
      BY <2>2 DEF AlertsOf
    <3> QED
      BY <2>1, <3>1 DEF OneScanInv, LastFiredIsLatest
  <2>5. AheadOfAlerts(s)'
    BY <1>1, <2>1, <2>2 DEF OneScanInv, AheadOfAlerts
  <2> QED
    BY <2>3, <2>4, <2>5 DEF OneScanInv
<1>11. CASE MarkFired(s)
  <2>1. /\ scan'[s].pc = "get" /\ scan'[s].at = old.at
        /\ old.pc = "mark" /\ UNCHANGED <<now, alerts>>
    BY <1>1, <1>11 DEF MarkFired, Scan
  <2>2. \A r \in Rules : AlertsOf(r)' = AlertsOf(r)
    BY <2>1 DEF AlertsOf
  <2>3. \A r \in Rules : rule[r] # NoRule =>
          /\ rule'[r].cooldown = rule[r].cooldown
          /\ r # old.cur => rule'[r].lastFired = rule[r].lastFired
          /\ r = old.cur => rule'[r].lastFired = old.at
    <3>1. rule \in [Rules -> RuleObject \cup {NoRule}]
      BY DEF IInv, TypeOK
    <3>2. rule' = [rule EXCEPT ![old.cur] = [rule[old.cur] EXCEPT !.lastFired = old.at]]
      BY <1>11 DEF MarkFired
    <3> QED
      BY <3>1, <3>2 DEF RuleObject
  <2>4. \A r \in Rules : \A i \in AlertsOf(r) : rule[r] # NoRule
    BY DEF AlertsOf, IInv, NoDangling
  <2>5. CooldownBetweenScans'
    BY <2>1, <2>2, <2>3, <2>4 DEF OneScanInv, CooldownBetweenScans
  <2>6. LastFiredIsLatest'
    <3> SUFFICES ASSUME NEW r \in Rules, NEW i \in AlertsOf(r)
                 PROVE  rule'[r].lastFired # Never /\ rule'[r].lastFired >= alerts[i].scanAt
      BY <2>1, <2>2 DEF LastFiredIsLatest
    <3>1. CASE r = old.cur
      BY <1>1, <1>2, <2>1, <2>3, <2>4, <3>1 DEF AlertsOf, OneScanInv, AheadOfAlerts
    <3>2. CASE r # old.cur
      BY <2>1, <2>3, <2>4, <3>2 DEF OneScanInv, LastFiredIsLatest
    <3> QED
      BY <3>1, <3>2
  <2>7. AheadOfAlerts(s)'
    BY <2>1 DEF OneScanInv, AheadOfAlerts
  <2> QED
    BY <2>5, <2>6, <2>7 DEF OneScanInv
<1> QED
  BY <1>4, <1>5, <1>6, <1>7, <1>8, <1>9, <1>10, <1>11 DEF Evaluate

\* With a single scanner, the scheduling loop alone or one that never overlaps a
\* scan asked for over HTTP, the alerts of every rule come from scans more than
\* its cooldown apart, and LastFiredAt is the latest of them.
THEOREM OneScannerKeepsCooldown ==
    ASSUME NEW s \in Scanners, Scanners = {s}
    PROVE  Spec => [](CooldownBetweenScans /\ LastFiredIsLatest)
<1>1. Init => OneScanInv(s)
  <2> SUFFICES ASSUME Init PROVE OneScanInv(s)
    OBVIOUS
  <2>1. alerts = <<>> /\ scan[s].pc = "idle"
    BY DEF Init, Idle
  <2> QED
    BY <2>1 DEF OneScanInv, CooldownBetweenScans, LastFiredIsLatest, AheadOfAlerts, AlertsOf
<1>2. IInv /\ OneScanInv(s) /\ [Next]_vars => OneScanInv(s)'
  <2> SUFFICES ASSUME IInv, OneScanInv(s), [Next]_vars PROVE OneScanInv(s)'
    OBVIOUS
  <2>1. CASE UNCHANGED vars
    BY <2>1 DEF vars, OneScanInv, CooldownBetweenScans, LastFiredIsLatest, AheadOfAlerts, AlertsOf
  <2> QED
    BY <2>1, OneScanOthers, OneScanStep DEF Next
<1>3. OneScanInv(s) => CooldownBetweenScans /\ LastFiredIsLatest
  BY DEF OneScanInv
<1> QED
  BY <1>1, <1>2, <1>3, Invariant, PTL DEF Spec

\* With a single scanner LastFiredAt of a rule is the time of its latest alert,
\* but for the moment between the record of an alert and its mark.
THEOREM OneScannerMarksLatest ==
    ASSUME NEW s \in Scanners, Scanners = {s}
    PROVE  Spec => []LastFiredIsLatest
<1>1. Spec => [](CooldownBetweenScans /\ LastFiredIsLatest)
  BY OneScannerKeepsCooldown
<1> QED
  BY <1>1, PTL

-----------------------------------------------------------------------------
\* A scan takes up only rules that it has listed and that CanFire, and lists
\* only active rules of the store.
LEMMA ScanReferences ==
    ASSUME IInv, NEW s \in Scanners, ScanBegin(s) \/ Evaluate(s)
    PROVE  /\ \A r \in scan'[s].todo : r \in scan[s].todo \/ r \in stored
           /\ \/ scan'[s].cur \in {scan[s].cur, NoRule}
              \/ scan'[s].cur \in scan[s].todo /\ IsActive(scan'[s].cur)
           /\ \A z \in Scanners : z # s => scan'[z] = scan[z]
<1>1. scan \in [Scanners -> Scan] /\ scan[s] \in Scan
  BY DEF IInv, TypeOK
<1>2. CASE ScanBegin(s)
  <2>1. scan'[s].todo \subseteq stored /\ scan'[s].cur = NoRule
    BY <1>1, <1>2 DEF ScanBegin, Idle
  <2> QED
    BY <1>1, <1>2, <2>1 DEF ScanBegin
<1>3. CASE ReadClock(s) \/ CountLogs(s) \/ Record(s) \/ MarkFired(s)
  <2>1. CASE ReadClock(s)
    BY <1>1, <2>1 DEF ReadClock, Scan
  <2>2. CASE CountLogs(s)
    BY <1>1, <2>2 DEF CountLogs, Scan
  <2>3. CASE Record(s)
    BY <1>1, <2>3 DEF Record, Scan
  <2>4. CASE MarkFired(s)
    BY <1>1, <2>4 DEF MarkFired, Scan
  <2> QED
    BY <1>3, <2>1, <2>2, <2>3, <2>4
<1>4. ASSUME NEW x \in Rules, Consider(s, x)
      PROVE  /\ scan'[s].todo \subseteq scan[s].todo
             /\ \/ scan'[s].cur = scan[s].cur
                \/ scan'[s].cur = x /\ x \in scan[s].todo /\ CanFire(x, scan[s].at)
             /\ \A z \in Scanners : z # s => scan'[z] = scan[z]
  BY <1>1, <1>4 DEF Consider, Scan
<1>5. CASE Decide(s)
  <2> DEFINE fired == [scan[s] EXCEPT !.pc = "record", !.draft = rule[scan[s].cur].source]
  <2>1. /\ scan'[s] = Return(scan[s], 0) \/ scan'[s] = fired
        /\ \A z \in Scanners : z # s => scan'[z] = scan[z]
    BY <1>1, <1>5 DEF Decide
  <2>2. /\ Return(scan[s], 0).todo = scan[s].todo /\ Return(scan[s], 0).cur = NoRule
        /\ fired.todo = scan[s].todo /\ fired.cur = scan[s].cur
    BY <1>1 DEF Return, Scan
  <2> HIDE DEF fired
  <2> QED
    BY <2>1, <2>2
<1>6. CASE GetFired(s) \/ PutFired(s)
  <2>1. scan'[s].todo = scan[s].todo /\ scan'[s].cur \in {scan[s].cur, NoRule}
    BY <1>1, <1>6 DEF GetFired, PutFired, Return, Scan
  <2> QED
    BY <1>1, <1>6, <2>1 DEF GetFired, PutFired
<1>7. CASE ScanEnd(s)
  <2>1. scan'[s].todo = {} /\ scan'[s].cur = NoRule
    BY <1>1, <1>7 DEF ScanEnd, Idle
  <2> QED
    BY <1>1, <1>7, <2>1 DEF ScanEnd
<1> QED
  BY <1>2, <1>3, <1>4, <1>5, <1>6, <1>7 DEF Evaluate, CanFire

\* No step gets a silenced rule past CanFire, but one that changes the rule.
LEMMA SilencedStep ==
    ASSUME IInv, IInv', Next, NEW r \in Rules, Silenced(r), rule'[r] = rule[r]
    PROVE  Silenced(r)'
<1>0. r # NoRule
  BY SetsAssumption
<1>1. CASE r \notin stored /\ \A s \in Scanners : r \notin scan[s].todo \cup {scan[s].cur}
  <2>1. r \notin stored'
    <3>1. CASE rule[r] = NoRule
      BY <3>1 DEF IInv, NoDangling
    <3>2. CASE Environment
      BY <1>1, <3>2 DEF Environment, Tick, StoreLog, DropLog
    <3>3. CASE RuleOperation /\ rule[r] # NoRule
      BY <1>1, <3>3, UpdateKeepsStored
         DEF RuleOperation, CreateRule, DeleteRule, BeginUpdate, Write, WriteCondition,
             WriteWindow, WriteThreshold, WriteStatus, CommitUpdate
    <3>4. ASSUME NEW s \in Scanners, ScanBegin(s) \/ Evaluate(s) PROVE r \notin stored'
      BY <1>1, <3>4, ScansKeepRules
    <3> QED
      BY <3>1, <3>2, <3>3, <3>4 DEF Next
  <2>2. \A z \in Scanners : r \notin scan'[z].todo \cup {scan'[z].cur}
    <3>1. CASE Environment \/ RuleOperation
      BY <1>1, <3>1, OthersKeepScans
    <3>2. ASSUME NEW s \in Scanners, ScanBegin(s) \/ Evaluate(s), NEW z \in Scanners
          PROVE  r \notin scan'[z].todo \cup {scan'[z].cur}
      <4>1. CASE z = s
        BY <1>0, <1>1, <3>2, <4>1, ScanReferences
      <4>2. CASE z # s
        BY <1>1, <3>2, <4>2, ScanReferences
      <4> QED
        BY <4>1, <4>2
    <3> QED
      BY <3>1, <3>2 DEF Next
  <2> QED
    BY <2>1, <2>2 DEF Silenced
<1>2. CASE rule[r] # NoRule /\ ~IsActive(r) /\ \A s \in Scanners : scan[s].cur # r
  <2>1. rule'[r] # NoRule /\ ~IsActive(r)'
    BY <1>2 DEF IsActive
  <2>2. \A z \in Scanners : scan'[z].cur # r
    <3>1. CASE Environment \/ RuleOperation
      BY <1>2, <3>1, OthersKeepScans
    <3>2. ASSUME NEW s \in Scanners, ScanBegin(s) \/ Evaluate(s), NEW z \in Scanners
          PROVE  scan'[z].cur # r
      <4>1. CASE z = s
        BY <1>0, <1>2, <3>2, <4>1, ScanReferences
      <4>2. CASE z # s
        BY <1>2, <3>2, <4>2, ScanReferences
      <4> QED
        BY <4>1, <4>2
    <3> QED
      BY <3>1, <3>2 DEF Next
  <2> QED
    BY <2>1, <2>2 DEF Silenced
<1> QED
  BY <1>1, <1>2 DEF Silenced

\* A rule that is deleted or not active, and in no scan's hands, raises no alert
\* until a client changes it, with any number of scans and clients.
THEOREM SilentUntilActivated == Spec => SilencedRuleStaysSilent
<1>1. IInv /\ IInv' /\ [Next]_vars =>
        [\A r \in Rules : Silenced(r) =>
            /\ Silenced(r)' \/ rule'[r] # rule[r]
            /\ Len(alerts') = Len(alerts) \/ alerts'[Len(alerts')].rule # r]_vars
  <2> SUFFICES ASSUME IInv, IInv', Next, NEW r \in Rules, Silenced(r)
               PROVE  /\ Silenced(r)' \/ rule'[r] # rule[r]
                      /\ Len(alerts') = Len(alerts) \/ alerts'[Len(alerts')].rule # r
    OBVIOUS
  <2>1. Silenced(r)' \/ rule'[r] # rule[r]
    BY SilencedStep
  <2>2. ASSUME NEW s \in Scanners, Record(s)
        PROVE  alerts'[Len(alerts')].rule # r
    <3>1. alerts'[Len(alerts) + 1].rule = scan[s].cur /\ Len(alerts) \in Nat
      BY <2>2, RecordAppends
    <3>2. Len(alerts') = Len(alerts) + 1
      BY <2>2 DEF Record, IInv, TypeOK
    <3>3. scan[s].cur # r
      BY <2>2 DEF Silenced
    <3> QED
      BY <3>1, <3>2, <3>3
  <2> QED
    BY <2>1, <2>2, AlertStep
<1> QED
  BY <1>1, Invariant, PTL DEF Spec, SilencedRuleStaysSilent

-----------------------------------------------------------------------------
(* ScanCoverage.                                                           *)

\* The rules a scan has still to come to, and the one at hand as long as its
\* alert is not recorded.
Ahead(sc) == sc.todo \cup IF sc.pc \in {"count", "decide", "record"} THEN {sc.cur} ELSE {}

\* What a scan owes is still ahead of it; what it has read of the rule at hand is
\* what makes the rule due.
OwedInv ==
    \A s \in Scanners :
        /\ scan[s].pc = "idle" => owed[s] = {}
        /\ owed[s] \subseteq Ahead(scan[s])
        /\ scan[s].cur \in owed[s] =>
              /\ scan[s].pc = "count" => scan[s].filter = RuleFilter(scan[s].cur, scan[s].at)
              /\ scan[s].pc = "decide" => scan[s].count >= rule[scan[s].cur].threshold

\* A step makes a scan owe no more, unless the scan begins with it.
LEMMA OwedShrinks ==
    ASSUME CoverageNext, NEW s \in Scanners, scan'[s].pc # "idle", scan[s].pc # "idle"
    PROVE  /\ owed'[s] \subseteq owed[s]
           /\ scan'[s].pc # "clock" =>
                 \A r \in owed'[s] : Unedited(r) /\ Due(r, scan[s].at)'
BY DEF CoverageNext

\* What a scan that does not move owes.
LEMMA OwedWaits ==
    ASSUME OwedInv, CoverageNext, NEW s \in Scanners, scan'[s] = scan[s]
    PROVE  /\ scan'[s].pc = "idle" => owed'[s] = {}
           /\ owed'[s] \subseteq Ahead(scan'[s])
           /\ scan'[s].cur \in owed'[s] =>
                 /\ scan'[s].pc = "count" =>
                       scan'[s].filter = RuleFilter(scan[s].cur, scan[s].at)'
                 /\ scan'[s].pc = "decide" => scan'[s].count >= rule'[scan'[s].cur].threshold
<1>1. CASE scan[s].pc = "idle"
  <2>1. owed'[s] = {}
    BY <1>1 DEF CoverageNext
  <2> QED BY <1>1, <2>1
<1>2. CASE scan[s].pc # "idle"
  <2>1. owed'[s] \subseteq owed[s] /\ owed[s] \subseteq Ahead(scan[s])
    BY <1>2, OwedShrinks DEF OwedInv
  <2>2. ASSUME scan[s].cur \in owed'[s], scan[s].pc = "count"
        PROVE  scan[s].filter = RuleFilter(scan[s].cur, scan[s].at)'
    <3>1. Unedited(scan[s].cur)
      BY <1>2, <2>2, OwedShrinks
    <3>2. scan[s].filter = RuleFilter(scan[s].cur, scan[s].at)
      BY <2>1, <2>2 DEF OwedInv
    <3> QED BY <3>1, <3>2 DEF Unedited, RuleFilter
  <2>3. ASSUME scan[s].cur \in owed'[s], scan[s].pc = "decide"
        PROVE  scan[s].count >= rule'[scan[s].cur].threshold
    <3>1. Unedited(scan[s].cur)
      BY <1>2, <2>3, OwedShrinks
    <3>2. scan[s].count >= rule[scan[s].cur].threshold
      BY <2>1, <2>3 DEF OwedInv
    <3> QED BY <3>1, <3>2 DEF Unedited
  <2>4. owed'[s] \subseteq Ahead(scan'[s])
    BY <2>1 DEF Ahead
  <2> QED BY <1>2, <2>2, <2>3, <2>4
<1> QED BY <1>1, <1>2

\* A rule that is due can fire: its LastFiredAt is the time of one of its alerts.
LEMMA DueCanFire ==
    ASSUME IInv, CooldownIsBacked, NEW r \in Rules, NEW t \in Int, Due(r, t)
    PROVE  CanFire(r, t)
<1>1. r \in stored /\ IsActive(r) /\ \A i \in AlertsOf(r) : alerts[i].scanAt + rule[r].cooldown < t
  BY DEF Due, IsActive
<1>2. rule[r] # NoRule /\ rule[r] \in RuleObject
  BY <1>1 DEF IInv, NoDangling, TypeOK
<1>3. rule[r].cooldown \in Int /\ rule[r].lastFired \in Int \cup {Never}
  BY <1>2, RuleObjectTypes
<1>4. CASE rule[r].lastFired # Never
  <2>1. PICK i \in AlertsOf(r) : alerts[i].scanAt = rule[r].lastFired
    BY <1>2, <1>4 DEF CooldownIsBacked
  <2> QED BY <1>1, <1>3, <1>4, <2>1 DEF CanFire
<1>5. CASE rule[r].lastFired = Never
  BY <1>1, <1>5 DEF CanFire
<1> QED BY <1>4, <1>5

\* What the scan that moves owes.
LEMMA OwedMoves ==
    ASSUME IInv, IInv', CooldownIsBacked, OwedInv, CoverageNext,
           \A c \in Cooldowns : c >= 0,
           NEW s \in Scanners, ScanBegin(s) \/ Evaluate(s)
    PROVE  /\ scan'[s].pc = "idle" => owed'[s] = {}
           /\ owed'[s] \subseteq Ahead(scan'[s])
           /\ scan'[s].cur \in owed'[s] =>
                 /\ scan'[s].pc = "count" =>
                       scan'[s].filter = RuleFilter(scan[s].cur, scan[s].at)'
                 /\ scan'[s].pc = "decide" => scan'[s].count >= rule'[scan'[s].cur].threshold
<1> DEFINE old == scan[s]
           Good == /\ scan'[s].pc = "idle" => owed'[s] = {}
                   /\ owed'[s] \subseteq Ahead(scan'[s])
                   /\ scan'[s].cur \in owed'[s] =>
                         /\ scan'[s].pc = "count" =>
                               scan'[s].filter = RuleFilter(scan[s].cur, scan[s].at)'
                         /\ scan'[s].pc = "decide" =>
                               scan'[s].count >= rule'[scan'[s].cur].threshold
<1>1. /\ scan \in [Scanners -> Scan] /\ old \in Scan /\ old.at \in Int
      /\ old.todo \in SUBSET Rules
  BY TimesAreInts DEF IInv, TypeOK, Scan
<1>2. owed[s] \subseteq Ahead(old)
  BY DEF OwedInv
<1>3. CASE ScanBegin(s)
  <2>1. /\ scan'[s].pc = "clock" /\ scan'[s].todo = {r \in stored : IsActive(r)}
        /\ old.pc = "idle" /\ UNCHANGED <<rule, stored>>
    BY <1>1, <1>3 DEF ScanBegin, Idle
  <2>2. owed'[s] \subseteq {r \in stored : IsActive(r)}
    BY <2>1 DEF CoverageNext, IsActive
  <2> QED BY <2>1, <2>2 DEF Ahead
<1>4. CASE ReadClock(s)
  <2>1. scan'[s].pc = "next" /\ scan'[s].todo = old.todo /\ old.pc = "clock"
    BY <1>1, <1>4 DEF ReadClock, Scan
  <2> QED BY <1>2, <2>1, OwedShrinks DEF Ahead
<1>5. ASSUME NEW x \in Rules, Consider(s, x) PROVE Good
  <2>1. /\ old.pc = "next" /\ scan'[s].at = old.at
        /\ scan'[s].pc \in {"next", "count"} /\ scan'[s].todo = old.todo \ {x}
        /\ CanFire(x, old.at) => /\ scan'[s].pc = "count" /\ scan'[s].cur = x
                                 /\ scan'[s].filter = RuleFilter(x, old.at)
        /\ scan'[s].pc = "count" => CanFire(x, old.at)
        /\ UNCHANGED <<logs, rule, stored, alerts>>
    BY <1>1, <1>5 DEF Consider, Scan
  <2>2. ASSUME NEW r \in owed'[s] PROVE r \in old.todo /\ Due(r, old.at)
    <3>1. r \in old.todo /\ Due(r, old.at)'
      BY <1>2, <2>1, OwedShrinks DEF Ahead
    <3> QED BY <1>1, <2>1, <3>1 DEF Due, AlertsOf
  <2>3. ASSUME NEW r \in owed'[s] PROVE r # x \/ CanFire(x, old.at)
    BY <1>1, <2>2, DueCanFire
  <2>4. owed'[s] \subseteq Ahead(scan'[s])
    BY <2>1, <2>2, <2>3 DEF Ahead
  <2>6. scan'[s].pc = "count" => scan'[s].filter = RuleFilter(scan[s].cur, scan[s].at)'
    BY <2>1 DEF RuleFilter
  <2> QED BY <2>1, <2>4, <2>6
<1>6. CASE CountLogs(s)
  <2>1. /\ old.pc = "count" /\ scan'[s].pc = "decide" /\ scan'[s].todo = old.todo
        /\ scan'[s].cur = old.cur /\ scan'[s].at = old.at
        /\ scan'[s].count = Count(old.filter, old.at)
        /\ UNCHANGED <<logs, rule, stored, alerts>>
    BY <1>1, <1>6 DEF CountLogs, Scan
  <2>2. owed'[s] \subseteq Ahead(scan'[s])
    BY <1>2, <2>1, OwedShrinks DEF Ahead
  <2>3. ASSUME old.cur \in owed'[s] PROVE scan'[s].count >= rule'[old.cur].threshold
    <3>1. old.cur \in owed[s] /\ Due(old.cur, old.at)'
      BY <2>1, <2>3, OwedShrinks
    <3>2. old.filter = RuleFilter(old.cur, old.at)
      BY <2>1, <3>1 DEF OwedInv
    <3>3. rule[old.cur].window \in Int /\ \A e \in logs : e.ts \in Int
      BY <2>1, RuleObjectTypes, TimesAreInts DEF IInv, TypeOK, NoDangling, InScanOnce, LogEntry
    <3> DEFINE entries == {e \in logs : /\ rule[old.cur].source = AnySource
                                           \/ e.source = rule[old.cur].source
                                        /\ old.at - rule[old.cur].window <= e.ts
                                        /\ e.ts <= old.at}
    <3>4. {e \in logs : Matches(e, old.filter, old.at)} = entries
      BY <1>1, <3>2, <3>3 DEF Matches, RuleFilter
    <3>5. Cardinality(entries) >= rule[old.cur].threshold
      BY <2>1, <3>1 DEF Due
    <3> QED BY <2>1, <3>4, <3>5 DEF Count
  <2> QED BY <2>1, <2>2, <2>3
<1>7. CASE Decide(s)
  <2> DEFINE fired == [old EXCEPT !.pc = "record", !.draft = rule[old.cur].source]
  <2>1. /\ old.pc = "decide" /\ UNCHANGED <<logs, rule, stored, alerts>>
        /\ scan'[s] = IF old.count < rule[old.cur].threshold THEN Return(old, 0) ELSE fired
    BY <1>1, <1>7 DEF Decide
  <2>2. /\ Return(old, 0).pc = "next" /\ Return(old, 0).todo = old.todo
        /\ fired.pc = "record" /\ fired.todo = old.todo /\ fired.cur = old.cur
    BY <1>1 DEF Return, Scan
  <2>3. old.count \in Int /\ rule[old.cur].threshold \in Int
    <3>1. rule[old.cur] \in RuleObject
      BY <2>1 DEF IInv, TypeOK, NoDangling, InScanOnce
    <3>2. old.count \in Nat
      BY <1>1 DEF Scan
    <3> QED BY <3>1, <3>2, RuleObjectTypes
  <2> HIDE DEF fired
  <2>4. owed'[s] \subseteq owed[s]
    <3>1. scan'[s].pc # "idle" /\ scan[s].pc # "idle"
      BY <2>1, <2>2
    <3> QED BY <3>1, OwedShrinks
  <2>5. CASE old.count < rule[old.cur].threshold
    <3>1. old.cur \notin owed[s]
      BY <2>1, <2>3, <2>5 DEF OwedInv
    <3> QED BY <1>2, <2>1, <2>2, <2>4, <2>5, <3>1 DEF Ahead
  <2>6. CASE ~(old.count < rule[old.cur].threshold)
    BY <1>2, <2>1, <2>2, <2>4, <2>6 DEF Ahead
  <2> QED BY <2>5, <2>6
<1>8. CASE Record(s)
  <2>1. /\ old.pc = "record" /\ scan'[s].pc = "mark" /\ scan'[s].todo = old.todo
        /\ scan'[s].at = old.at
        /\ UNCHANGED <<logs, rule, stored>>
    BY <1>1, <1>8 DEF Record, Scan
  <2>2. /\ Len(alerts) + 1 \in DOMAIN alerts'
        /\ alerts'[Len(alerts) + 1].rule = old.cur
        /\ alerts'[Len(alerts) + 1].scanAt = old.at
    BY <1>8, RecordAppends
  <2>3. rule[old.cur].cooldown \in Cooldowns /\ old.cur \in Rules
    BY <2>1 DEF IInv, TypeOK, NoDangling, InScanOnce, RuleObject
  <2>4. rule[old.cur].cooldown \in Int /\ rule[old.cur].cooldown >= 0
    BY <2>3, ValuesAssumption
  <2>5. \A r \in Rules : r = old.cur => ~Due(r, old.at)'
    BY <1>1, <2>1, <2>2, <2>4 DEF Due, AlertsOf
  <2>6. owed'[s] \subseteq owed[s] /\ old.cur \notin owed'[s]
    BY <2>1, <2>3, <2>5, OwedShrinks
  <2> QED BY <1>2, <2>1, <2>6 DEF Ahead
<1>9. CASE MarkFired(s) \/ GetFired(s) \/ PutFired(s)
  <2>1. /\ old.pc \in {"mark", "get", "put"} /\ scan'[s].pc \in {"get", "put", "next"}
        /\ scan'[s].todo = old.todo
    <3>1. CASE MarkFired(s)
      BY <1>1, <3>1 DEF MarkFired, Scan
    <3>2. CASE GetFired(s)
      BY <1>1, <3>2 DEF GetFired, Return, Scan
    <3>3. CASE PutFired(s)
      BY <1>1, <3>3 DEF PutFired, Return, Scan
    <3> QED BY <1>9, <3>1, <3>2, <3>3
  <2> QED BY <1>2, <2>1, OwedShrinks DEF Ahead
<1>10. CASE ScanEnd(s)
  <2>1. scan'[s].pc = "idle"
    BY <1>1, <1>10 DEF ScanEnd, Idle
  <2>2. owed'[s] = {}
    BY <2>1 DEF CoverageNext
  <2> QED BY <2>1, <2>2
<1> QED
  BY <1>3, <1>4, <1>5, <1>6, <1>7, <1>8, <1>9, <1>10 DEF Evaluate

\* With any number of scans and clients, and cooldowns that are not negative, a
\* scan misses no rule that was due all along.
THEOREM ScansMissNothing ==
    ASSUME \A c \in Cooldowns : c >= 0
    PROVE  CoverageSpec => []NothingMissed
<1>1. CoverageInit => OwedInv
  BY DEF CoverageInit, Init, OwedInv, Idle
<1>2. IInv /\ IInv' /\ CooldownIsBacked /\ OwedInv /\ [CoverageNext]_coverageVars => OwedInv'
  <2> SUFFICES ASSUME IInv, IInv', CooldownIsBacked, OwedInv, [CoverageNext]_coverageVars
               PROVE  OwedInv'
    OBVIOUS
  <2>1. CASE UNCHANGED coverageVars
    BY <2>1 DEF coverageVars, vars, OwedInv, Ahead, RuleFilter
  <2>2. CASE CoverageNext
    <3>1. ASSUME NEW z \in Scanners
          PROVE  scan'[z] = scan[z] \/ ScanBegin(z) \/ Evaluate(z)
      <4>1. CASE Environment \/ RuleOperation
        BY <4>1, OthersKeepScans
      <4>2. ASSUME NEW s \in Scanners, ScanBegin(s) \/ Evaluate(s)
            PROVE  scan'[z] = scan[z] \/ z = s
        BY <4>2, ScanReferences
      <4> QED BY <2>2, <4>1, <4>2 DEF CoverageNext, Next
    <3> SUFFICES ASSUME NEW s \in Scanners
                 PROVE  /\ scan'[s].pc = "idle" => owed'[s] = {}
                        /\ owed'[s] \subseteq Ahead(scan'[s])
                        /\ scan'[s].cur \in owed'[s] =>
                              /\ scan'[s].pc = "count" =>
                                    scan'[s].filter = RuleFilter(scan[s].cur, scan[s].at)'
                              /\ scan'[s].pc = "decide" =>
                                    scan'[s].count >= rule'[scan'[s].cur].threshold
      BY DEF OwedInv
    <3>2. CASE scan'[s] = scan[s]
      BY <2>2, <3>2, OwedWaits
    <3>3. CASE ScanBegin(s) \/ Evaluate(s)
      BY <2>2, <3>3, OwedMoves
    <3> QED BY <3>1, <3>2, <3>3
  <2> QED BY <2>1, <2>2
<1>3. CoverageSpec => Spec
  <2>1. CoverageInit => Init
    BY DEF CoverageInit
  <2>2. [CoverageNext]_coverageVars => [Next]_vars
    BY DEF CoverageNext, coverageVars
  <2> QED BY <2>1, <2>2, PTL DEF CoverageSpec, Spec
<1>4. OwedInv => NothingMissed
  BY DEF OwedInv, NothingMissed, Ahead
<1> QED
  BY <1>1, <1>2, <1>3, <1>4, Invariant, Backed, PTL DEF CoverageSpec

=============================================================================
