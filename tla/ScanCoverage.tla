---------------------------- MODULE ScanCoverage ----------------------------
(***************************************************************************)
(* What a scan promises: it misses no rule that is due.  A history variable *)
(* is added to RuleEngine: the rules that were active when a scan listed    *)
(* the rules, due when it read the clock, and due and unedited ever since.  *)
(***************************************************************************)
EXTENDS RuleEngine

VARIABLE owed   \* owed[s]: the rules scan s still has to raise an alert for

coverageVars == <<vars, owed>>

\* What it means for rule r to be due at time t, said without the engine: it is
\* active, outside the cooldown of all its alerts, and enough of the entries in
\* the log store come from its source and from its window.
Due(r, t) ==
    LET obj == rule[r]
        entries == {e \in logs : /\ obj.source = AnySource \/ e.source = obj.source
                                 /\ t - obj.window <= e.ts
                                 /\ e.ts <= t}
    IN  /\ r \in stored
        /\ obj.status = "active"
        /\ \A i \in AlertsOf(r) : alerts[i].scanAt + obj.cooldown < t
        /\ Cardinality(entries) >= obj.threshold

Unedited(r) ==
    /\ rule[r].source = rule'[r].source
    /\ rule[r].window = rule'[r].window
    /\ rule[r].threshold = rule'[r].threshold

CoverageInit == Init /\ owed = [s \in Scanners |-> {}]

CoverageNext ==
    /\ Next
    /\ owed' = [s \in Scanners |->
                  CASE scan'[s].pc = "idle" -> {}
                    [] scan'[s].pc = "clock" ->
                         {r \in IF scan[s].pc = "idle" THEN stored' ELSE owed[s] \cap stored' :
                            rule'[r].status = "active"}
                    [] OTHER ->
                         {r \in owed[s] : Unedited(r) /\ Due(r, scan[s].at)'}]

CoverageSpec == CoverageInit /\ [][CoverageNext]_coverageVars

FairCoverageSpec == CoverageSpec /\ \A s \in Scanners : WF_vars(Evaluate(s))

-----------------------------------------------------------------------------
\* A scan that has gone through its list owes no alert: every rule that was due
\* all along has got one, from this scan or from one running beside it, whatever
\* rules were created, paused, edited and deleted and logs stored and dropped
\* around it (scheduler.go:102-134, 185-241).
NothingMissed ==
    \A s \in Scanners : scan[s].pc = "next" /\ scan[s].todo = {} => owed[s] = {}
=============================================================================
