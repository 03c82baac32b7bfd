------------------------------ MODULE Cleanup ------------------------------
(***************************************************************************)
(* internal/service/cleanup_service.go.  Start and Stop read and write       *)
(* s.running and s.stopCh with no lock, so two calls may interleave at each  *)
(* of their statements; runLoop takes s.stopCh from the struct each time it  *)
(* enters its select.  The n-th channel that Start makes is channel n, its   *)
(* goroutine loop n; channel 0 is the one of NewCleanupService.  A pass      *)
(* takes one cutoff and then goes to the two stores one after the other.     *)
(***************************************************************************)
EXTENDS Naturals, FiniteSets

CONSTANTS
    Controllers,    \* goroutines that call Start and Stop
    MaxLaunches     \* bound: how often a loop is launched

ASSUME LaunchesAssumption == MaxLaunches \in Nat

ASSUME ControllersAssumption == IsFiniteSet(Controllers)

VARIABLES
    active,         \* s.running
    channel,        \* s.stopCh, as the number of the channel
    shut,           \* the channels that are closed
    crashed,        \* a closed channel was closed again: the process is gone
    cancelled,      \* the context given to Start is cancelled
    control,        \* what each controller is doing
    overlapped,     \* two calls of Start or Stop were under way at once
    sweep,          \* what each loop is doing
    item            \* an entry of the log store and one of the alert store

cleanupVars == <<active, channel, shut, crashed, cancelled, control, overlapped, sweep, item>>

-----------------------------------------------------------------------------
Sweeps == 1..MaxLaunches

\* "old": before the cutoff of a pass that begins now.
Items == {"log", "alert"}
Ages == {"fresh", "old", "deleted"}

\* What comes next in Start: s.running = true ("mark"), and then the channel and
\* the goroutine ("launch"); in Stop: close(s.stopCh) ("close"), and then
\* s.running = false ("unmark").
ControlPoints == {"idle", "mark", "launch", "close", "unmark"}

\* "log" and "alert": before DeleteExpired and before DeleteOld.
Sweep == [pc : {"none", "loop", "select", "log", "alert", "done"},
          waitsOn : 0..MaxLaunches, cut : SUBSET Items]

CleanupInit ==
    /\ active = FALSE
    /\ channel = 0
    /\ shut = {}
    /\ crashed = FALSE
    /\ cancelled = FALSE
    /\ control = [c \in Controllers |-> "idle"]
    /\ overlapped = FALSE
    /\ sweep = [i \in Sweeps |-> [pc |-> "none", waitsOn |-> 0, cut |-> {}]]
    /\ item = [x \in Items |-> "fresh"]

-----------------------------------------------------------------------------
(* Start and Stop.                                                         *)

\* Controller c goes from one point of its call to the next.
Advance(c, from, to) ==
    /\ ~crashed
    /\ control[c] = from
    /\ control' = [control EXCEPT ![c] = to]
    /\ overlapped' = (overlapped \/ \E d \in Controllers \ {c} : control[d] # "idle")
    /\ UNCHANGED <<cancelled, sweep, item>>

\* Start is an error if it finds s.running, Stop a no-op if it does not.
TestStart(c) ==
    /\ ~active
    /\ channel + Cardinality({d \in Controllers : control[d] \in {"mark", "launch"}}) < MaxLaunches
    /\ Advance(c, "idle", "mark")
    /\ UNCHANGED <<active, channel, shut, crashed>>

MarkRunning(c) ==
    /\ Advance(c, "mark", "launch")
    /\ active' = TRUE
    /\ UNCHANGED <<channel, shut, crashed>>

Launch(c) ==
    /\ ~crashed
    /\ control[c] = "launch"
    /\ control' = [control EXCEPT ![c] = "idle"]
    /\ channel' = channel + 1
    /\ sweep' = [sweep EXCEPT ![channel + 1].pc = "loop"]
    /\ UNCHANGED <<active, shut, crashed, cancelled, overlapped, item>>

TestStop(c) ==
    /\ active
    /\ Advance(c, "idle", "close")
    /\ UNCHANGED <<active, channel, shut, crashed>>

\* Mutant: Stop leaves s.running as it is.
CloseChannelAndReturn(c) ==
    /\ Advance(c, "close", "idle")
    /\ shut' = shut \cup {channel}
    /\ crashed' = (channel \in shut)
    /\ UNCHANGED <<active, channel>>

CloseChannel(c) ==
    /\ Advance(c, "close", "unmark")
    /\ shut' = shut \cup {channel}
    /\ crashed' = (channel \in shut)
    /\ UNCHANGED <<active, channel>>

MarkStopped(c) ==
    /\ Advance(c, "unmark", "idle")
    /\ active' = FALSE
    /\ UNCHANGED <<channel, shut, crashed>>

CancelCleanup ==
    /\ ~crashed
    /\ ~cancelled
    /\ cancelled' = TRUE
    /\ UNCHANGED <<active, channel, shut, crashed, control, overlapped, sweep, item>>

-----------------------------------------------------------------------------
(* The loop.                                                               *)

\* Loop i goes from one point to another, its other fields as `changed' has them.
MoveSweep(i, from, changed) ==
    /\ ~crashed
    /\ sweep[i].pc = from
    /\ sweep' = [sweep EXCEPT ![i] = changed]
    /\ UNCHANGED <<active, channel, shut, crashed, cancelled, control, overlapped>>

SelectCleanup(i) ==
    /\ MoveSweep(i, "loop", [sweep[i] EXCEPT !.pc = "select", !.waitsOn = channel])
    /\ UNCHANGED item

\* An hour has passed, and CleanupOnce begins: cutoff is seven days before now.
SweepBegin(i) ==
    /\ MoveSweep(i, "select", [sweep[i] EXCEPT !.pc = "log", !.waitsOn = 0,
                                               !.cut = {x \in Items : item[x] = "old"}])
    /\ UNCHANGED item

SweepStop(i) ==
    /\ sweep[i].waitsOn \in shut \/ cancelled
    /\ MoveSweep(i, "select", [sweep[i] EXCEPT !.pc = "done", !.waitsOn = 0])
    /\ UNCHANGED item

\* What the cutoff of loop i makes of an item of store x.
Cut(i, x) == IF x \in sweep[i].cut THEN [item EXCEPT ![x] = "deleted"] ELSE item

\* Mutant: the pass returns after the logs.
SweepLogsAndReturn(i) ==
    /\ MoveSweep(i, "log", [sweep[i] EXCEPT !.pc = "loop", !.cut = {}])
    /\ item' = Cut(i, "log")

\* DeleteExpired; its error would only be logged.
SweepLogs(i) ==
    /\ MoveSweep(i, "log", [sweep[i] EXCEPT !.pc = "alert", !.cut = @ \ {"log"}])
    /\ item' = Cut(i, "log")

\* DeleteOld.
SweepAlerts(i) ==
    /\ MoveSweep(i, "alert", [sweep[i] EXCEPT !.pc = "loop", !.cut = {}])
    /\ item' = Cut(i, "alert")

\* Seven days pass for an item.
Age(x) ==
    /\ ~crashed
    /\ item[x] = "fresh"
    /\ item' = [item EXCEPT ![x] = "old"]
    /\ UNCHANGED <<active, channel, shut, crashed, cancelled, control, overlapped, sweep>>

-----------------------------------------------------------------------------
InCall(c) == MarkRunning(c) \/ Launch(c) \/ CloseChannel(c) \/ MarkStopped(c)

SweepStep(i) ==
    \/ SelectCleanup(i)
    \/ SweepBegin(i)
    \/ SweepStop(i)
    \/ SweepLogs(i)
    \/ SweepAlerts(i)

CleanupNext ==
    \/ \E c \in Controllers : TestStart(c) \/ TestStop(c) \/ InCall(c)
    \/ CancelCleanup
    \/ \E i \in Sweeps : SweepStep(i)
    \/ \E x \in Items : Age(x)

CleanupSpec == CleanupInit /\ [][CleanupNext]_cleanupVars

\* A call that has begun goes on, and so does a loop; the ticker ticks every
\* hour.  Nothing is assumed of the case a select picks.
CleanupFairness ==
    /\ \A c \in Controllers : WF_cleanupVars(InCall(c))
    /\ \A i \in Sweeps : WF_cleanupVars(SweepStep(i))

FairCleanupSpec == CleanupSpec /\ CleanupFairness

-----------------------------------------------------------------------------
(* Properties.                                                             *)

\* Every variable has a value of its Go type, and no channel is closed before it
\* is made; that of NewCleanupService may be, by a Stop between two steps of Start.
CleanupTypeOK ==
    /\ active \in BOOLEAN
    /\ channel \in 0..MaxLaunches
    /\ shut \subseteq 0..channel
    /\ crashed \in BOOLEAN
    /\ cancelled \in BOOLEAN
    /\ control \in [Controllers -> ControlPoints]
    /\ overlapped \in BOOLEAN
    /\ sweep \in [Sweeps -> Sweep]
    /\ item \in [Items -> Ages]

\* Stop closes a channel twice, and panics, only if two calls of Start or Stop
\* were once under way at the same time (cleanup_service.go:48-69).
PanicNeedsOverlap == crashed => overlapped

\* An entry or an alert that is a week old is deleted, as long as the service
\* runs, and however its calls overlap unless one of them panics: whenever
\* s.running is true there is a loop that is alive (cleanup_service.go:48-111).
ExpiredIsCleaned ==
    \A x \in Items : (active /\ item[x] = "old") ~>
                        (item[x] = "deleted" \/ ~active \/ cancelled \/ crashed)
=============================================================================
