--------------------------- MODULE SchedulerLoop ---------------------------
(***************************************************************************)
(* The scheduling loop of internal/service/scheduler.go: Start, Stop and    *)
(* runLoop.  A scan is a span of time here; RuleEngine says what it does.   *)
(*                                                                         *)
(* Start makes a new stop channel and a new goroutine.  runLoop takes       *)
(* s.stopCh from the struct each time it enters its select, with no lock    *)
(* held, and then waits on the channel it has found.  The n-th Start makes  *)
(* channel n and loop n; channel 0 is the one of NewScheduler.              *)
(***************************************************************************)
EXTENDS Integers, FiniteSets

CONSTANT MaxStarts   \* bound: how often the scheduler is started

ASSUME StartsAssumption == MaxStarts \in Nat

VARIABLES
    running,   \* s.running
    stopCh,    \* s.stopCh, as the number of the channel
    closed,    \* the channels that are closed
    panicked,  \* a closed channel was closed again
    ctxDone,   \* the context given to Start is cancelled
    pc,        \* where each loop is
    waitsOn,   \* the stop channel a loop in its select waits on
    tick       \* the loop's ticker has a tick in its channel

loopVars == <<running, stopCh, closed, panicked, ctxDone, pc, waitsOn, tick>>

-----------------------------------------------------------------------------
Loops == 1..MaxStarts

\* "new": the goroutine is launched and has not yet scanned; "loop": before select.
LoopPoints == {"none", "new", "scan", "loop", "select", "done"}

LoopInit ==
    /\ running = FALSE
    /\ stopCh = 0
    /\ closed = {}
    /\ panicked = FALSE
    /\ ctxDone = FALSE
    /\ pc = [i \in Loops |-> "none"]
    /\ waitsOn = [i \in Loops |-> 0]
    /\ tick = [i \in Loops |-> FALSE]

\* Start.  It is an error while the scheduler is running.
Start ==
    /\ ~running
    /\ stopCh < MaxStarts
    /\ running' = TRUE
    /\ stopCh' = stopCh + 1
    /\ pc' = [pc EXCEPT ![stopCh + 1] = "new"]
    /\ UNCHANGED <<closed, panicked, ctxDone, waitsOn, tick>>

\* Mutant: Stop does not look whether the scheduler is running.
StopAlways ==
    /\ running' = FALSE
    /\ panicked' = (stopCh \in closed)
    /\ closed' = closed \cup {stopCh}
    /\ UNCHANGED <<stopCh, ctxDone, pc, waitsOn, tick>>

\* Stop: close(s.stopCh).
StopRunning ==
    /\ running
    /\ running' = FALSE
    /\ panicked' = (stopCh \in closed)
    /\ closed' = closed \cup {stopCh}
    /\ UNCHANGED <<stopCh, ctxDone, pc, waitsOn, tick>>

\* Stop is a no-op while the scheduler is not running.
Stop == StopRunning \/ (~running /\ UNCHANGED loopVars)

Cancel ==
    /\ ~ctxDone
    /\ ctxDone' = TRUE
    /\ UNCHANGED <<running, stopCh, closed, panicked, pc, waitsOn, tick>>

-----------------------------------------------------------------------------
\* Loop i moves from one point to another.
Move(i, from, to) ==
    /\ pc[i] = from
    /\ pc' = [pc EXCEPT ![i] = to]
    /\ UNCHANGED <<running, stopCh, closed, panicked, ctxDone>>

\* runLoop scans once before it loops.
FirstScan(i) == Move(i, "new", "scan") /\ UNCHANGED <<waitsOn, tick>>

\* ScanOnce returns; its error is only logged.
ScanDone(i) == Move(i, "scan", "loop") /\ UNCHANGED <<waitsOn, tick>>

\* select evaluates s.stopCh and ctx.Done() once, and then waits.
EnterSelect(i) ==
    /\ Move(i, "loop", "select")
    /\ waitsOn' = [waitsOn EXCEPT ![i] = stopCh]
    /\ UNCHANGED tick

\* The interval passes.  The ticker's channel has room for one tick.
Ticker(i) ==
    /\ pc[i] \in {"scan", "loop", "select"}
    /\ ~tick[i]
    /\ tick' = [tick EXCEPT ![i] = TRUE]
    /\ UNCHANGED <<running, stopCh, closed, panicked, ctxDone, pc, waitsOn>>

\* Mutant: the loop leaves after a periodic scan.
TickThenLeave(i) ==
    /\ Move(i, "select", "done")
    /\ tick[i]
    /\ tick' = [tick EXCEPT ![i] = FALSE]
    /\ UNCHANGED waitsOn

\* select takes the tick.
TakeTick(i) ==
    /\ Move(i, "select", "scan")
    /\ tick[i]
    /\ tick' = [tick EXCEPT ![i] = FALSE]
    /\ UNCHANGED waitsOn

\* Mutant: the loop scans once more when it is told to stop.
TakeStopAndScan(i) ==
    /\ Move(i, "select", "scan")
    /\ waitsOn[i] \in closed \/ ctxDone
    /\ UNCHANGED <<waitsOn, tick>>

\* select takes the closed stop channel, or the cancelled context.
TakeStop(i) ==
    /\ Move(i, "select", "done")
    /\ waitsOn[i] \in closed \/ ctxDone
    /\ UNCHANGED <<waitsOn, tick>>

-----------------------------------------------------------------------------
LoopStep(i) ==
    \/ FirstScan(i)
    \/ ScanDone(i)
    \/ EnterSelect(i)
    \/ Ticker(i)
    \/ TakeTick(i)
    \/ TakeStop(i)

LoopNext == Start \/ Stop \/ Cancel \/ \E i \in Loops : LoopStep(i)

LoopSpec == LoopInit /\ [][LoopNext]_loopVars

\* A goroutine that can run does run, a scan returns (RuleEngine's
\* EveryScanEnds), and the ticker ticks.  A select whose cases stay ready picks
\* among them at random, so none that is ready again and again is passed over
\* for ever: strong fairness of its two outcomes.
LoopFairness ==
    \A i \in Loops :
        /\ WF_loopVars(FirstScan(i))
        /\ WF_loopVars(ScanDone(i))
        /\ WF_loopVars(EnterSelect(i))
        /\ WF_loopVars(Ticker(i))
        /\ SF_loopVars(TakeTick(i))
        /\ SF_loopVars(TakeStop(i))

FairLoopSpec == LoopSpec /\ LoopFairness

-----------------------------------------------------------------------------
(* Properties.                                                             *)

\* Every variable has a value of its Go type; the channel of NewScheduler, 0, is
\* never closed.
LoopTypeOK ==
    /\ running \in BOOLEAN
    /\ stopCh \in 0..MaxStarts
    /\ closed \subseteq Loops
    /\ panicked \in BOOLEAN
    /\ ctxDone \in BOOLEAN
    /\ pc \in [Loops -> LoopPoints]
    /\ waitsOn \in [Loops -> 0..MaxStarts]
    /\ tick \in [Loops -> BOOLEAN]

\* However often and from wherever Start and Stop are called, Stop closes no
\* channel twice, which would panic (scheduler.go:88-99).
StopNeverPanics == ~panicked

\* Once the scheduler is stopped and not started again every loop ends, the one
\* that was in a scan when it was stopped too.
StoppedLoopsEnd ==
    ~running ~> (running \/ \A i \in Loops : pc[i] \in {"none", "done"})

\* While it runs it goes on scanning, at every interval.
KeepsScanning ==
    running ~> (~running \/ ctxDone \/ pc[stopCh] = "scan")

\* "Stop halts the periodic scanning" (scheduler.go:19, 87): the loop whose
\* channel Stop has closed ends.
StopHaltsItsLoop ==
    \A i \in Loops : i \in closed ~> pc[i] = "done"
=============================================================================
