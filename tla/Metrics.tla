------------------------------- MODULE Metrics -------------------------------
(***************************************************************************)
(* pkg/metrics/metrics.go: counters that are atomic one by one and not       *)
(* together.  RecordRequest adds to two of them, Reset stores 0 in one after *)
(* another; IncrCounter makes a missing counter under the lock, and reads    *)
(* the map again after it has let the lock go.  Of the counters that one     *)
(* method adds to, the three of the requests stand for all.                 *)
(***************************************************************************)
EXTENDS Integers, FiniteSets

CONSTANTS
    Recorders,      \* goroutines that record requests, count and reset
    CounterNames,   \* names of custom counters
    MaxCount,       \* bound: requests and increments
    NoCounter       \* what the map has for a name without a counter

ASSUME MetricsAssumption == MaxCount \in Nat /\ NoCounter \notin Nat

VARIABLES
    total, successful, failed,  \* the counters of requests
    customMetrics,  \* for each name the number of its counter, or NoCounter
    value,          \* the values of the counters that were made
    recorder,       \* what each recorder is doing
    disturbed,      \* a Reset and a RecordRequest were under way at once
    added,          \* what was added to each name since its last reset
    came,           \* requests and increments so far
    fatal           \* the runtime has seen a map read during a map write

requestVars == <<total, successful, failed, disturbed>>
customVars == <<customMetrics, value, added>>
metricsVars == <<requestVars, customVars, recorder, came, fatal>>

-----------------------------------------------------------------------------
Counters == 1..MaxCount

\* "record": total is counted; "read" and "add": IncrCounter has left its
\* critical section, and has its counter; "successful", "failed" and "custom":
\* what Reset stores next.
RecorderPoints == {"idle", "record", "read", "add", "successful", "failed", "custom"}

Recorder == [pc : RecorderPoints, name : CounterNames \cup {NoCounter},
             counter : Counters \cup {NoCounter}]
IdleRecorder == [pc |-> "idle", name |-> NoCounter, counter |-> NoCounter]

Recording == {r \in Recorders : recorder[r].pc = "record"}

Resetting == {r \in Recorders : recorder[r].pc \in {"successful", "failed"}}

\* The counters that were made.
Made == {customMetrics[n] : n \in CounterNames} \ {NoCounter}

MetricsInit ==
    /\ total = 0 /\ successful = 0 /\ failed = 0
    /\ customMetrics = [n \in CounterNames |-> NoCounter]
    /\ value = [c \in Counters |-> 0]
    /\ recorder = [r \in Recorders |-> IdleRecorder]
    /\ disturbed = FALSE
    /\ added = [n \in CounterNames |-> 0]
    /\ came = 0
    /\ fatal = FALSE

\* Recorder r goes from one point to another.
Goes(r, from, to) ==
    /\ ~fatal
    /\ recorder[r].pc = from
    /\ recorder' = [recorder EXCEPT ![r] = to]

-----------------------------------------------------------------------------
(* RecordRequest.                                                          *)

CountRequest(r) ==
    /\ came < MaxCount
    /\ Goes(r, "idle", [IdleRecorder EXCEPT !.pc = "record"])
    /\ came' = came + 1
    /\ total' = total + 1
    /\ disturbed' = (disturbed \/ Resetting # {})
    /\ UNCHANGED <<successful, failed, customVars, fatal>>

\* Mutant: a request that fails is counted in total only.
CountSuccessOnly(r, success) ==
    /\ Goes(r, "record", IdleRecorder)
    /\ successful' = IF success THEN successful + 1 ELSE successful
    /\ UNCHANGED <<total, failed, disturbed, customVars, came, fatal>>

CountOutcome(r, success) ==
    /\ Goes(r, "record", IdleRecorder)
    /\ successful' = IF success THEN successful + 1 ELSE successful
    /\ failed' = IF success THEN failed ELSE failed + 1
    /\ UNCHANGED <<total, disturbed, customVars, came, fatal>>

-----------------------------------------------------------------------------
(* IncrCounter.                                                            *)

\* The critical section: a counter is made if the name has none.
MakeCounter(r, name) ==
    /\ came < MaxCount
    /\ Goes(r, "idle", [pc |-> "read", name |-> name, counter |-> NoCounter])
    /\ came' = came + 1
    /\ customMetrics' = [customMetrics EXCEPT ![name] = IF @ = NoCounter THEN came + 1 ELSE @]
    /\ UNCHANGED <<requestVars, value, added, fatal>>

\* customMetrics[name], with no lock held.
ReadCounter(r) ==
    /\ Goes(r, "read", [recorder[r] EXCEPT !.pc = "add",
                                           !.counter = customMetrics[recorder[r].name]])
    /\ UNCHANGED <<requestVars, customVars, came, fatal>>

\* Another recorder writes the map while this one reads it.
ReadCollides(r) ==
    /\ ~fatal
    /\ recorder[r].pc = "read"
    /\ \E s \in Recorders \ {r} : recorder[s].pc = "idle"
    /\ \E n \in CounterNames : customMetrics[n] = NoCounter
    /\ fatal' = TRUE
    /\ UNCHANGED <<requestVars, customVars, recorder, came>>

AddToCounter(r) ==
    /\ Goes(r, "add", IdleRecorder)
    /\ value' = [value EXCEPT ![recorder[r].counter] = @ + 1]
    /\ added' = [added EXCEPT ![recorder[r].name] = @ + 1]
    /\ UNCHANGED <<requestVars, customMetrics, came, fatal>>

-----------------------------------------------------------------------------
(* Reset.                                                                  *)

ResetTotal(r) ==
    /\ Goes(r, "idle", [IdleRecorder EXCEPT !.pc = "successful"])
    /\ total' = 0
    /\ disturbed' = (disturbed \/ Recording # {})
    /\ UNCHANGED <<successful, failed, customVars, came, fatal>>

ResetSuccessful(r) ==
    /\ Goes(r, "successful", [IdleRecorder EXCEPT !.pc = "failed"])
    /\ successful' = 0
    /\ UNCHANGED <<total, failed, disturbed, customVars, came, fatal>>

ResetFailed(r) ==
    /\ Goes(r, "failed", [IdleRecorder EXCEPT !.pc = "custom"])
    /\ failed' = 0
    /\ UNCHANGED <<total, successful, disturbed, customVars, came, fatal>>

\* Under the lock; the counters stay in the map.
ResetCustom(r) ==
    /\ Goes(r, "custom", IdleRecorder)
    /\ value' = [c \in Counters |-> IF c \in Made THEN 0 ELSE value[c]]
    /\ added' = [n \in CounterNames |-> 0]
    /\ UNCHANGED <<requestVars, customMetrics, came, fatal>>

-----------------------------------------------------------------------------
MetricsNext ==
    \E r \in Recorders :
        \/ CountRequest(r)
        \/ \E success \in BOOLEAN : CountOutcome(r, success)
        \/ \E name \in CounterNames : MakeCounter(r, name)
        \/ ReadCounter(r)
        \/ ReadCollides(r)
        \/ AddToCounter(r)
        \/ ResetTotal(r)
        \/ ResetSuccessful(r)
        \/ ResetFailed(r)
        \/ ResetCustom(r)

MetricsSpec == MetricsInit /\ [][MetricsNext]_metricsVars

-----------------------------------------------------------------------------
(* Properties.                                                             *)

\* The counters are numbers, the names have counters that were made.
MetricsTypeOK ==
    /\ total \in Nat /\ successful \in Nat /\ failed \in Nat
    /\ customMetrics \in [CounterNames -> Counters \cup {NoCounter}]
    /\ value \in [Counters -> Nat]
    /\ recorder \in [Recorders -> Recorder]
    /\ \A r \in Recorders : recorder[r].pc = "add" => recorder[r].counter \in Counters
    /\ disturbed \in BOOLEAN
    /\ added \in [CounterNames -> Nat]
    /\ came \in 0..MaxCount
    /\ fatal \in BOOLEAN

\* GetCounter: 0 for a name that has no counter.
GetCounter(name) ==
    IF customMetrics[name] = NoCounter THEN 0 ELSE value[customMetrics[name]]

\* Unless a Reset has overlapped with a RecordRequest, every request is counted
\* once as successful or as failed when it is over; and whatever overlaps, no
\* increment of a custom counter is lost, the first ones of a new name neither
\* (metrics.go:66-73, 129-136, 180-202).
CountsAgree ==
    /\ ~disturbed /\ Resetting = {} =>
          total = successful + failed + Cardinality(Recording)
    /\ \A name \in CounterNames : GetCounter(name) = added[name]
=============================================================================
