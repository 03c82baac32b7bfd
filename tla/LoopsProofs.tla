---------------------------- MODULE LoopsProofs ----------------------------
(***************************************************************************)
(* Proofs about the background loops: SchedulerLoop, however often it is      *)
(* started, Shutdown, for any set of HTTP requests, Cleanup, for any number  *)
(* of callers, and the two loops side by side.                              *)
(***************************************************************************)
EXTENDS Shutdown, MCLoops, FiniteSetTheorems, TLAPS


-----------------------------------------------------------------------------
(* SchedulerLoop.                                                          *)

\* The channel of a running scheduler is open: Start has made it, under the same
\* lock under which Stop closes it.
ChannelInv ==
    /\ LoopTypeOK
    /\ closed \subseteq 1..stopCh
    /\ running => stopCh >= 1 /\ stopCh \notin closed
    /\ ~panicked

LEMMA ChannelInit == LoopInit => ChannelInv
<1> SUFFICES ASSUME LoopInit PROVE ChannelInv
  OBVIOUS
<1>1. 0 \in 0..MaxStarts
  BY StartsAssumption
<1>2. /\ pc \in [Loops -> LoopPoints]
      /\ waitsOn \in [Loops -> 0..MaxStarts]
      /\ tick \in [Loops -> BOOLEAN]
  BY <1>1 DEF LoopInit, LoopPoints
<1> QED
  BY <1>1, <1>2 DEF LoopInit, ChannelInv, LoopTypeOK

\* What the loops do does not concern the channels.
LEMMA LoopStepChannel ==
    ASSUME ChannelInv, NEW i \in Loops, LoopStep(i) PROVE ChannelInv'
<1>1. CASE FirstScan(i)
  BY <1>1 DEF FirstScan, Move, ChannelInv, LoopTypeOK, LoopPoints
<1>2. CASE ScanDone(i)
  BY <1>2 DEF ScanDone, Move, ChannelInv, LoopTypeOK, LoopPoints
<1>3. CASE EnterSelect(i)
  BY <1>3 DEF EnterSelect, Move, ChannelInv, LoopTypeOK, LoopPoints
<1>4. CASE Ticker(i)
  BY <1>4 DEF Ticker, ChannelInv, LoopTypeOK
<1>5. CASE TakeTick(i)
  BY <1>5 DEF TakeTick, Move, ChannelInv, LoopTypeOK, LoopPoints
<1>6. CASE TakeStop(i)
  BY <1>6 DEF TakeStop, Move, ChannelInv, LoopTypeOK, LoopPoints
<1> QED
  BY <1>1, <1>2, <1>3, <1>4, <1>5, <1>6 DEF LoopStep

LEMMA ChannelStep == ChannelInv /\ [LoopNext]_loopVars => ChannelInv'
<1> SUFFICES ASSUME ChannelInv, [LoopNext]_loopVars PROVE ChannelInv'
  OBVIOUS
<1>1. CASE Start
  <2>1. stopCh + 1 \in Loops /\ stopCh \in Nat
    BY <1>1, StartsAssumption DEF Start, ChannelInv, LoopTypeOK, Loops
  <2>2. pc' \in [Loops -> LoopPoints]
    BY <1>1 DEF Start, ChannelInv, LoopTypeOK, LoopPoints
  <2>3. closed' \subseteq 1..stopCh' /\ stopCh' \notin closed' /\ stopCh' >= 1
    BY <1>1, <2>1 DEF Start, ChannelInv
  <2> QED
    BY <1>1, <2>1, <2>2, <2>3 DEF Start, ChannelInv, LoopTypeOK, Loops
<1>2. CASE StopRunning
  <2>1. stopCh \in 1..stopCh /\ stopCh \in Loops /\ stopCh \notin closed
    BY <1>2, StartsAssumption DEF StopRunning, ChannelInv, LoopTypeOK, Loops
  <2>2. closed' \subseteq 1..stopCh /\ closed' \subseteq Loops /\ panicked' = FALSE
    BY <1>2, <2>1 DEF StopRunning, ChannelInv, LoopTypeOK
  <2> QED
    BY <1>2, <2>2 DEF StopRunning, ChannelInv, LoopTypeOK
<1>3. CASE UNCHANGED loopVars
  BY <1>3 DEF loopVars, ChannelInv, LoopTypeOK
<1>4. CASE Cancel
  BY <1>4 DEF Cancel, ChannelInv, LoopTypeOK
<1> QED
  BY <1>1, <1>2, <1>3, <1>4, LoopStepChannel DEF LoopNext, Stop

LEMMA ChannelInvariant == LoopSpec => []ChannelInv
  BY ChannelInit, ChannelStep, PTL DEF LoopSpec

\* SchedulerLoop's variables always have their types.
THEOREM LoopTypeCorrect == LoopSpec => []LoopTypeOK
<1>1. ChannelInv => LoopTypeOK
  BY DEF ChannelInv
<1> QED
  BY <1>1, ChannelInvariant, PTL

\* No sequence of Start and Stop closes a channel twice.
THEOREM NoDoubleClose == LoopSpec => []StopNeverPanics
<1>1. ChannelInv => StopNeverPanics
  BY DEF ChannelInv, StopNeverPanics
<1> QED
  BY <1>1, ChannelInvariant, PTL

-----------------------------------------------------------------------------
(* Shutdown.                                                               *)

\* server.Shutdown has returned: no request is taken any more, and those that
\* still run were given up at the timeout.
Drained == listener # "serving" /\ (NoneRunning \/ timedOut)

\* The stores are closed after server.Shutdown, and not before.
CloseInv ==
    /\ main \in {"close", "join", "exited"} => Drained
    /\ open # Stores =>
          main \in {"close", "join", "exited", "failed"} /\ (NoneRunning \/ timedOut)
    /\ main = "start" => listener = "none"

LEMMA CloseStep == CloseInv /\ [ShutdownNext]_shutdownVars => CloseInv'
<1> SUFFICES ASSUME CloseInv, [ShutdownNext]_shutdownVars PROVE CloseInv'
  OBVIOUS
<1> USE DEF CloseInv, Drained, NoneRunning
<1>1. CASE UNCHANGED shutdownVars
  BY <1>1 DEF shutdownVars
<1>2. CASE MainStart
  BY <1>2 DEF MainStart
<1>3. CASE MainWakes
  BY <1>3 DEF MainWakes
<1>4. CASE MainStops
  BY <1>4 DEF MainStops
<1>5. CASE ListenerStops
  BY <1>5 DEF ListenerStops
<1>6. ASSUME NEW byTimeout \in BOOLEAN, ShutdownReturns(byTimeout) PROVE CloseInv'
  BY <1>6 DEF ShutdownReturns
<1>7. CASE CloseStore
  BY <1>7 DEF CloseStore
<1>8. CASE StoresClosed
  BY <1>8 DEF StoresClosed
<1>9. CASE Join
  BY <1>9 DEF Join
<1>10. CASE Signal
  BY <1>10 DEF Signal
<1>11. CASE ListenerFails
  BY <1>11 DEF ListenerFails
<1>12. CASE ListenerExits
  BY <1>12 DEF ListenerExits, Over
<1>13. ASSUME NEW r \in Requests, RequestBegins(r) PROVE CloseInv'
  BY <1>13 DEF RequestBegins, Over
<1>14. ASSUME NEW r \in Requests, RequestEnds(r) PROVE CloseInv'
  <2>1. NoneRunning => NoneRunning'
    BY <1>14 DEF RequestEnds
  <2> QED
    BY <1>14, <2>1 DEF RequestEnds
<1>15. CASE LoopRuns
  BY <1>15 DEF LoopRuns
<1> QED
  BY <1>1, <1>2, <1>3, <1>4, <1>5, <1>6, <1>7, <1>8, <1>9, <1>10, <1>11, <1>12, <1>13,
     <1>14, <1>15
     DEF ShutdownNext, MainStep

\* No store is closed under a request that server.Shutdown has not given up.
THEOREM RequestsKeepStores == ShutdownSpec => []StoresOutliveRequests
<1>1. ShutdownInit => CloseInv
  BY DEF ShutdownInit, CloseInv, Drained
<1>2. CloseInv => StoresOutliveRequests
  BY DEF CloseInv, StoresOutliveRequests
<1> QED
  BY <1>1, <1>2, CloseStep, PTL DEF ShutdownSpec

\* A step of the process is a step of the scheduling loop, or leaves it alone:
\* the properties of every LoopSpec behaviour hold in the process.
THEOREM ProcessRunsLoop == ShutdownSpec => LoopSpec
<1>1. ShutdownInit => LoopInit
  BY DEF ShutdownInit
<1>2. [ShutdownNext]_shutdownVars => [LoopNext]_loopVars
  <2> SUFFICES ASSUME [ShutdownNext]_shutdownVars PROVE LoopNext \/ UNCHANGED loopVars
    OBVIOUS
  <2>1. CASE UNCHANGED shutdownVars
    BY <2>1 DEF shutdownVars
  <2>2. CASE MainStep
    BY <2>2 DEF MainStep, MainStart, MainWakes, MainStops, ListenerStops, ShutdownReturns,
                CloseStore, StoresClosed, Join, LoopNext
  <2>3. CASE Signal \/ ListenerFails \/ ListenerExits \/ LoopRuns
    BY <2>3 DEF Signal, ListenerFails, ListenerExits, LoopRuns, LoopNext
  <2>4. ASSUME NEW r \in Requests, RequestBegins(r) \/ RequestEnds(r) PROVE UNCHANGED loopVars
    BY <2>4 DEF RequestBegins, RequestEnds
  <2> QED
    BY <2>1, <2>2, <2>3, <2>4 DEF ShutdownNext
<1> QED
  BY <1>1, <1>2, PTL DEF ShutdownSpec, LoopSpec

\* The process's variables have their types: main, the listener and every
\* request are at one of their points, whatever the loop does meanwhile.
THEOREM ShutdownTypeCorrect == ShutdownSpec => []ShutdownTypeOK
<1> DEFINE Rest ==
       /\ main \in MainPoints
       /\ signalled \in BOOLEAN
       /\ listener \in {"none", "serving", "failing", "done"}
       /\ request \in [Requests -> {"none", "running", "served"}]
       /\ timedOut \in BOOLEAN
       /\ open \subseteq Stores
<1>1. ShutdownInit => Rest
  BY DEF ShutdownInit, MainPoints
<1>2. Rest /\ [ShutdownNext]_shutdownVars => Rest'
  <2> SUFFICES ASSUME Rest, [ShutdownNext]_shutdownVars PROVE Rest'
    OBVIOUS
  <2>1. CASE UNCHANGED shutdownVars
    BY <2>1 DEF shutdownVars
  <2>2. CASE MainStart \/ MainWakes \/ MainStops \/ ListenerStops \/ Join
    BY <2>2 DEF MainStart, MainWakes, MainStops, ListenerStops, Join, MainPoints
  <2>3. ASSUME NEW byTimeout \in BOOLEAN, ShutdownReturns(byTimeout) PROVE Rest'
    <3>1. timedOut' \in BOOLEAN
      BY <2>3 DEF ShutdownReturns, NoneRunning
    <3> QED BY <2>3, <3>1 DEF ShutdownReturns, MainPoints
  <2>4. CASE CloseStore \/ StoresClosed
    BY <2>4 DEF CloseStore, StoresClosed, MainPoints
  <2>5. CASE Signal \/ ListenerFails \/ ListenerExits \/ LoopRuns
    BY <2>5 DEF Signal, ListenerFails, ListenerExits, LoopRuns, MainPoints
  <2>6. ASSUME NEW r \in Requests, RequestBegins(r) \/ RequestEnds(r) PROVE Rest'
    BY <2>6 DEF RequestBegins, RequestEnds
  <2> QED
    BY <2>1, <2>2, <2>3, <2>4, <2>5, <2>6 DEF ShutdownNext, MainStep
<1>3. LoopTypeOK /\ Rest => ShutdownTypeOK
  BY DEF ShutdownTypeOK
<1> HIDE DEF Rest
<1>4. ShutdownSpec => []Rest
  BY <1>1, <1>2, PTL DEF ShutdownSpec
<1> QED
  BY <1>3, <1>4, ProcessRunsLoop, LoopTypeCorrect, PTL

-----------------------------------------------------------------------------
(* Cleanup.                                                                *)

Busy(c) == control[c] # "idle"

\* As long as no two calls have overlapped one call at most is under way; the
\* channel is closed only if the service does not run or a call is about to
\* repair that, and not if a call is about to close it.
CallsInv ==
    /\ control \in [Controllers -> ControlPoints]
    /\ channel \in Nat
    /\ shut \subseteq 0..channel
    /\ ~overlapped =>
          /\ ~crashed
          /\ \A c, d \in Controllers : Busy(c) /\ Busy(d) => c = d
          /\ channel \in shut => \/ ~active
                                 \/ \E c \in Controllers : control[c] \in {"launch", "unmark"}
          /\ \A c \in Controllers : control[c] = "close" => channel \notin shut

\* A call that goes on unnoticed by the history is the only one.
LEMMA AloneAfterAdvance ==
    ASSUME CallsInv, NEW c \in Controllers, NEW from \in ControlPoints,
           NEW to \in ControlPoints, Advance(c, from, to), ~overlapped'
    PROVE  /\ ~overlapped
           /\ control[c] = from /\ control'[c] = to
           /\ \A d \in Controllers : d # c => control[d] = "idle" /\ control'[d] = "idle"
           /\ control' \in [Controllers -> ControlPoints]
BY DEF CallsInv, Advance

LEMMA CallsInvariant == CleanupSpec => []CallsInv
<1>1. CleanupInit => CallsInv
  BY DEF CleanupInit, CallsInv, ControlPoints, Busy
<1>2. CallsInv /\ [CleanupNext]_cleanupVars => CallsInv'
  <2> SUFFICES ASSUME CallsInv, [CleanupNext]_cleanupVars PROVE CallsInv'
    OBVIOUS
  <2>0. /\ control \in [Controllers -> ControlPoints] /\ channel \in Nat
        /\ shut \subseteq 0..channel
    BY DEF CallsInv
  <2>1. ASSUME NEW c \in Controllers, TestStart(c) PROVE CallsInv'
    BY <2>0, <2>1, AloneAfterAdvance DEF TestStart, Advance, CallsInv, Busy, ControlPoints
  <2>2. ASSUME NEW c \in Controllers, TestStop(c) PROVE CallsInv'
    <3>1. control' \in [Controllers -> ControlPoints]
      BY <2>0, <2>2 DEF TestStop, Advance, ControlPoints
    <3>2. ASSUME ~overlapped'
          PROVE  /\ ~overlapped /\ channel \notin shut
                 /\ \A d \in Controllers : d # c => control'[d] = "idle"
      <4>1. /\ ~overlapped /\ control[c] = "idle"
            /\ \A d \in Controllers : d # c => control[d] = "idle" /\ control'[d] = "idle"
        BY <2>2, <3>2, AloneAfterAdvance DEF TestStop, ControlPoints
      <4>2. \A d \in Controllers : control[d] = "idle"
        BY <4>1
      <4> QED BY <2>2, <4>1, <4>2 DEF TestStop, CallsInv
    <3> QED BY <2>0, <2>2, <3>1, <3>2 DEF TestStop, Advance, CallsInv, Busy
  <2>3. ASSUME NEW c \in Controllers, MarkRunning(c) PROVE CallsInv'
    BY <2>0, <2>3, AloneAfterAdvance DEF MarkRunning, Advance, CallsInv, Busy, ControlPoints
  <2>4. ASSUME NEW c \in Controllers, Launch(c) PROVE CallsInv'
    <3>1. /\ control' \in [Controllers -> ControlPoints]
          /\ channel' \in Nat /\ shut' \subseteq 0..channel' /\ channel' \notin shut'
      BY <2>0, <2>4 DEF Launch, ControlPoints
    <3>2. ~overlapped => \A d \in Controllers : control'[d] = "idle"
      BY <2>0, <2>4 DEF Launch, CallsInv, Busy
    <3> QED BY <2>4, <3>1, <3>2 DEF Launch, CallsInv, Busy
  <2>5. ASSUME NEW c \in Controllers, CloseChannel(c) PROVE CallsInv'
    <3>1. /\ control' \in [Controllers -> ControlPoints]
          /\ channel' = channel /\ shut' \subseteq 0..channel'
      BY <2>0, <2>5 DEF CloseChannel, Advance, ControlPoints
    <3>2. ASSUME ~overlapped'
          PROVE  /\ ~crashed' /\ control'[c] = "unmark"
                 /\ \A d \in Controllers : d # c => control'[d] = "idle"
      BY <2>0, <2>5, <3>2, AloneAfterAdvance DEF CloseChannel, CallsInv, ControlPoints
    <3> QED BY <2>0, <3>1, <3>2 DEF CallsInv, Busy
  <2>6. ASSUME NEW c \in Controllers, MarkStopped(c) PROVE CallsInv'
    BY <2>0, <2>6, AloneAfterAdvance DEF MarkStopped, Advance, CallsInv, Busy, ControlPoints
  <2>7. ASSUME UNCHANGED <<active, channel, shut, crashed, control, overlapped>>
        PROVE  CallsInv'
    BY <2>7 DEF CallsInv, Busy
  <2>8. ASSUME NEW i \in Sweeps, SweepStep(i) PROVE CallsInv'
    BY <2>7, <2>8 DEF SweepStep, SelectCleanup, SweepBegin, SweepStop, SweepLogs,
                      SweepAlerts, MoveSweep
  <2>9. CASE CancelCleanup
    BY <2>7, <2>9 DEF CancelCleanup
  <2>10. ASSUME NEW x \in Items, Age(x) PROVE CallsInv'
    BY <2>7, <2>10 DEF Age
  <2>11. CASE UNCHANGED cleanupVars
    BY <2>7, <2>11 DEF cleanupVars
  <2> QED BY <2>1, <2>2, <2>3, <2>4, <2>5, <2>6, <2>8, <2>9, <2>10, <2>11
          DEF CleanupNext, InCall
<1> QED BY <1>1, <1>2, PTL DEF CleanupSpec

\* How many launches are still to come is bounded, for Start tests the bound.
Launching == {c \in Controllers : control[c] \in {"mark", "launch"}}

CleanupTypeInv == CleanupTypeOK /\ channel + Cardinality(Launching) <= MaxLaunches

LEMMA LaunchingCounts == IsFiniteSet(Launching) /\ Cardinality(Launching) \in Nat
BY ControllersAssumption, FS_Subset, FS_CardinalityType DEF Launching

\* When c moves on, only c may join or leave those that will launch.
LEMMA LaunchingAfter ==
    ASSUME CleanupTypeOK, NEW c \in Controllers, NEW from, NEW to,
           control[c] = from, control' = [control EXCEPT ![c] = to]
    PROVE  /\ Cardinality(Launching') \in Nat
           /\ (from \in {"mark", "launch"} <=> to \in {"mark", "launch"}) =>
                 Cardinality(Launching') = Cardinality(Launching)
           /\ from \notin {"mark", "launch"} /\ to \in {"mark", "launch"} =>
                 Cardinality(Launching') = Cardinality(Launching) + 1
           /\ from \in {"mark", "launch"} /\ to \notin {"mark", "launch"} =>
                 Cardinality(Launching') = Cardinality(Launching) - 1
<1>1. control \in [Controllers -> ControlPoints]
  BY DEF CleanupTypeOK
<1>2. IsFiniteSet(Launching) /\ Cardinality(Launching) \in Nat
  BY LaunchingCounts
<1>3. c \in Launching <=> from \in {"mark", "launch"}
  BY DEF Launching
<1>4. Launching' = IF to \in {"mark", "launch"} THEN Launching \cup {c} ELSE Launching \ {c}
  BY <1>1 DEF Launching
<1>5. /\ Cardinality(Launching \cup {c}) = IF c \in Launching THEN Cardinality(Launching)
                                           ELSE Cardinality(Launching) + 1
      /\ Cardinality(Launching \ {c}) = IF c \in Launching THEN Cardinality(Launching) - 1
                                         ELSE Cardinality(Launching)
      /\ IsFiniteSet(Launching \cup {c}) /\ IsFiniteSet(Launching \ {c})
  BY <1>2, FS_AddElement, FS_RemoveElement
<1>6. Cardinality(Launching \cup {c}) \in Nat /\ Cardinality(Launching \ {c}) \in Nat
  BY <1>5, FS_CardinalityType
<1> QED
  BY <1>2, <1>3, <1>4, <1>5, <1>6

LEMMA CleanupTypeStep == CleanupTypeInv /\ [CleanupNext]_cleanupVars => CleanupTypeInv'
<1> SUFFICES ASSUME CleanupTypeInv, [CleanupNext]_cleanupVars PROVE CleanupTypeInv'
  OBVIOUS
<1>0. /\ CleanupTypeOK /\ channel \in 0..MaxLaunches /\ MaxLaunches \in Nat
      /\ Cardinality(Launching) \in Nat /\ channel + Cardinality(Launching) <= MaxLaunches
      /\ control \in [Controllers -> ControlPoints] /\ sweep \in [Sweeps -> Sweep]
      /\ shut \subseteq 0..channel
  BY LaunchesAssumption, LaunchingCounts DEF CleanupTypeInv, CleanupTypeOK
\* A call that goes from one point to the next, and does not launch.
<1>1. ASSUME NEW c \in Controllers, NEW from \in ControlPoints, NEW to \in ControlPoints,
             Advance(c, from, to), channel' = channel, shut' \subseteq 0..channel',
             active' \in BOOLEAN, crashed' \in BOOLEAN,
             channel + Cardinality(Launching') <= MaxLaunches
      PROVE  CleanupTypeInv'
  <2>1. control' \in [Controllers -> ControlPoints] /\ overlapped' \in BOOLEAN
    BY <1>0, <1>1 DEF Advance
  <2>2. CleanupTypeOK'
    BY <1>0, <1>1, <2>1 DEF Advance, CleanupTypeOK
  <2> QED
    BY <1>1, <2>2 DEF CleanupTypeInv
<1>2. ASSUME NEW c \in Controllers, TestStart(c) PROVE CleanupTypeInv'
  <2>1. channel + Cardinality(Launching) < MaxLaunches
    BY <1>2 DEF TestStart, Launching
  <2>2. Cardinality(Launching') = Cardinality(Launching) + 1
    BY <1>0, <1>2, LaunchingAfter DEF TestStart, Advance
  <2>3. channel + Cardinality(Launching') <= MaxLaunches
    BY <1>0, <2>1, <2>2
  <2> QED
    BY <1>0, <1>1, <1>2, <2>3 DEF TestStart, ControlPoints, CleanupTypeOK
<1>3. ASSUME NEW c \in Controllers, TestStop(c) \/ MarkRunning(c) \/ MarkStopped(c)
      PROVE  CleanupTypeInv'
  <2>1. Cardinality(Launching') = Cardinality(Launching)
    BY <1>0, <1>3, LaunchingAfter DEF TestStop, MarkRunning, MarkStopped, Advance
  <2> QED
    BY <1>0, <1>1, <1>3, <2>1 DEF TestStop, MarkRunning, MarkStopped, ControlPoints, CleanupTypeOK
<1>4. ASSUME NEW c \in Controllers, CloseChannel(c) PROVE CleanupTypeInv'
  <2>1. Cardinality(Launching') = Cardinality(Launching)
    <3>1. control[c] = "close" /\ control' = [control EXCEPT ![c] = "unmark"]
      BY <1>4 DEF CloseChannel, Advance
    <3>2. "close" \notin {"mark", "launch"} /\ "unmark" \notin {"mark", "launch"}
      OBVIOUS
    <3> QED
      BY <1>0, <3>1, <3>2, LaunchingAfter
  <2>2. shut' \subseteq 0..channel' /\ channel' = channel /\ crashed' \in BOOLEAN
    BY <1>0, <1>4 DEF CloseChannel
  <2> QED
    BY <1>0, <1>1, <1>4, <2>1, <2>2 DEF CloseChannel, ControlPoints, CleanupTypeOK
<1>5. ASSUME NEW c \in Controllers, Launch(c) PROVE CleanupTypeInv'
  <2>1. Cardinality(Launching') = Cardinality(Launching) - 1 /\ Cardinality(Launching') \in Nat
    <3>1. control[c] = "launch" /\ control' = [control EXCEPT ![c] = "idle"]
      BY <1>5 DEF Launch
    <3>2. "launch" \in {"mark", "launch"} /\ "idle" \notin {"mark", "launch"}
      OBVIOUS
    <3> QED
      BY <1>0, <3>1, <3>2, LaunchingAfter
  <2>2. channel + 1 \in Sweeps /\ channel' = channel + 1 /\ channel' \in 0..MaxLaunches
    BY <1>0, <1>5, <2>1 DEF Launch, Sweeps
  <2>3. sweep' \in [Sweeps -> Sweep]
    <3>1. sweep[channel + 1] \in Sweep
      BY <1>0, <2>2
    <3>2. [sweep[channel + 1] EXCEPT !.pc = "loop"] \in Sweep
      BY <3>1 DEF Sweep
    <3>3. sweep' = [sweep EXCEPT ![channel + 1] = [sweep[channel + 1] EXCEPT !.pc = "loop"]]
      BY <1>0, <1>5, <2>2 DEF Launch
    <3> QED
      BY <1>0, <3>2, <3>3
  <2>4. control' \in [Controllers -> ControlPoints]
    BY <1>0, <1>5 DEF Launch, ControlPoints
  <2>5. CleanupTypeOK'
    BY <1>0, <1>5, <2>2, <2>3, <2>4 DEF Launch, CleanupTypeOK
  <2> QED
    BY <1>0, <2>1, <2>2, <2>5 DEF CleanupTypeInv
\* What the loops do, and time, leave the calls alone.
<1>6. ASSUME UNCHANGED <<active, channel, shut, crashed, control, overlapped>>,
             cancelled' \in BOOLEAN, sweep' \in [Sweeps -> Sweep], item' \in [Items -> Ages]
      PROVE  CleanupTypeInv'
  BY <1>0, <1>6 DEF CleanupTypeInv, CleanupTypeOK, Launching
<1>7. ASSUME NEW i \in Sweeps, SweepStep(i) PROVE CleanupTypeInv'
  <2>1. /\ UNCHANGED <<active, channel, shut, crashed, control, overlapped, cancelled>>
        /\ item' = item \/ \E x \in Items : item' = Cut(i, x)
    BY <1>7 DEF SweepStep, SelectCleanup, SweepBegin, SweepStop, SweepLogs, SweepAlerts,
                MoveSweep, Items
  <2>2. item' \in [Items -> Ages]
    BY <1>0, <2>1 DEF Cut, CleanupTypeOK, Items, Ages
  <2>3. sweep[i] \in Sweep /\ channel \in 0..MaxLaunches /\ 0 \in 0..MaxLaunches
    BY <1>0
  <2>4. sweep' \in [Sweeps -> Sweep]
    <3>1. ASSUME NEW new \in Sweep, sweep' = [sweep EXCEPT ![i] = new] PROVE sweep' \in [Sweeps -> Sweep]
      BY <1>0, <3>1
    <3>2. CASE SelectCleanup(i)
      BY <2>3, <3>1, <3>2 DEF SelectCleanup, MoveSweep, Sweep
    <3>3. CASE SweepBegin(i)
      BY <2>3, <3>1, <3>3 DEF SweepBegin, MoveSweep, Sweep
    <3>4. CASE SweepStop(i)
      BY <2>3, <3>1, <3>4 DEF SweepStop, MoveSweep, Sweep
    <3>5. CASE SweepLogs(i)
      BY <2>3, <3>1, <3>5 DEF SweepLogs, MoveSweep, Sweep
    <3>6. CASE SweepAlerts(i)
      BY <2>3, <3>1, <3>6 DEF SweepAlerts, MoveSweep, Sweep
    <3> QED
      BY <1>7, <3>2, <3>3, <3>4, <3>5, <3>6 DEF SweepStep
  <2> QED
    BY <1>0, <1>6, <2>1, <2>2, <2>4 DEF CleanupTypeOK
<1>8. CASE CancelCleanup
  BY <1>0, <1>6, <1>8 DEF CancelCleanup, CleanupTypeOK
<1>9. ASSUME NEW x \in Items, Age(x) PROVE CleanupTypeInv'
  BY <1>0, <1>6, <1>9 DEF Age, CleanupTypeOK, Ages
<1>10. CASE UNCHANGED cleanupVars
  BY <1>0, <1>6, <1>10 DEF cleanupVars, CleanupTypeOK
<1> QED
  BY <1>2, <1>3, <1>4, <1>5, <1>7, <1>8, <1>9, <1>10 DEF CleanupNext, InCall

\* Cleanup's variables always have their types: with any number of callers no
\* more channels are made than Start's bound allows.
THEOREM CleanupTypeCorrect == CleanupSpec => []CleanupTypeOK
<1>1. CleanupInit => CleanupTypeInv
  <2> SUFFICES ASSUME CleanupInit PROVE CleanupTypeInv
    OBVIOUS
  <2>1. Launching = {} /\ Cardinality(Launching) = 0
    BY FS_EmptySet DEF CleanupInit, Launching
  <2>2. 0 \in 0..MaxLaunches
    BY LaunchesAssumption
  <2>3. CleanupTypeOK
    BY <2>2 DEF CleanupInit, CleanupTypeOK, ControlPoints, Sweep, Items, Ages
  <2> QED
    BY <2>1, <2>2, <2>3 DEF CleanupTypeInv, CleanupInit
<1>2. CleanupTypeInv => CleanupTypeOK
  BY DEF CleanupTypeInv
<1> QED
  BY <1>1, <1>2, CleanupTypeStep, PTL DEF CleanupSpec

\* With any number of callers and launches, Stop panics only if two calls of
\* Start or Stop have overlapped.
THEOREM PanicsNeedOverlap == CleanupSpec => []PanicNeedsOverlap
<1>1. CallsInv => PanicNeedsOverlap
  BY DEF CallsInv, PanicNeedsOverlap
<1> QED BY <1>1, CallsInvariant, PTL

-----------------------------------------------------------------------------
(* Both loops.                                                             *)

\* Side by side each loop does what it does alone, so what is proved of one alone
\* holds of it there.
LEMMA LoopsAreApart == LoopsSpec => LoopSpec /\ CleanupSpec
<1>1. LoopsInit => LoopInit /\ CleanupInit
  BY DEF LoopsInit
<1>2. [LoopsNext]_<<loopVars, cleanupVars, exercised>> => [LoopNext]_loopVars
  BY DEF LoopsNext
<1>3. [LoopsNext]_<<loopVars, cleanupVars, exercised>> => [CleanupNext]_cleanupVars
  BY DEF LoopsNext
<1> QED
  BY <1>1, <1>2, <1>3, PTL DEF LoopsSpec, LoopSpec, CleanupSpec

\* The variables of both loops always have their types.
THEOREM LoopsTypeCorrect == LoopsSpec => []LoopsTypeOK
<1>1. LoopTypeOK /\ CleanupTypeOK => LoopsTypeOK
  BY DEF LoopsTypeOK
<1> QED
  BY <1>1, LoopsAreApart, LoopTypeCorrect, CleanupTypeCorrect, PTL
=============================================================================
