------------------------------ MODULE Shutdown ------------------------------
(***************************************************************************)
(* cmd/server/main.go: main starts the scheduler (SchedulerLoop) and the    *)
(* HTTP server, waits for a signal, and shuts down.  It is the only caller  *)
(* of Start and of Stop.                                                    *)
(***************************************************************************)
EXTENDS SchedulerLoop

CONSTANTS
    Requests     \* HTTP requests; each is served once

VARIABLES
    main,       \* where main is
    signalled,  \* SIGINT or SIGTERM has arrived
    listener,   \* the goroutine of ListenAndServe
    request,    \* what each request is doing
    timedOut,   \* server.Shutdown has given up on the running requests
    open        \* the stores not yet closed

shutdownVars == <<loopVars, main, signalled, listener, request, timedOut, open>>

-----------------------------------------------------------------------------
\* The statements of main that matter, in their order.
MainPoints == {"start", "wait", "stop", "shutdown", "close", "join", "exited", "failed"}

\* The stores in the order main closes them: logs, rules, alerts.
Stores == 1..3

Over == main \in {"exited", "failed"}

ShutdownInit ==
    /\ LoopInit
    /\ main = "start"
    /\ signalled = FALSE
    /\ listener = "none"
    /\ request = [r \in Requests |-> "none"]
    /\ timedOut = FALSE
    /\ open = Stores

\* Scheduler.EnableAutoScan decides whether the scheduler is started at all.
MainStart ==
    /\ main = "start"
    /\ main' = "wait"
    /\ listener' = "serving"
    /\ Start \/ UNCHANGED loopVars
    /\ UNCHANGED <<signalled, request, timedOut, open>>

\* SIGINT or SIGTERM.  Before signal.Notify it kills the process.
Signal ==
    /\ ~signalled
    /\ ~Over
    /\ signalled' = TRUE
    /\ main' = IF main = "start" THEN "failed" ELSE main
    /\ UNCHANGED <<loopVars, listener, request, timedOut, open>>

\* ListenAndServe fails: cancel(), which main may act upon, and then os.Exit(1).
ListenerFails ==
    /\ listener = "serving"
    /\ ~Over
    /\ Cancel
    /\ listener' = "failing"
    /\ UNCHANGED <<main, signalled, request, timedOut, open>>

ListenerExits ==
    /\ listener = "failing"
    /\ ~Over
    /\ main' = "failed"
    /\ UNCHANGED <<loopVars, signalled, listener, request, timedOut, open>>

\* The select of main: the signal, or a cancelled context.
MainWakes ==
    /\ main = "wait"
    /\ signalled \/ ctxDone
    /\ main' = "stop"
    /\ UNCHANGED <<loopVars, signalled, listener, request, timedOut, open>>

\* scheduler.Stop(): a no-op when the scheduler was not started.  It does not
\* wait for the loop.
MainStops ==
    /\ main = "stop"
    /\ Stop
    /\ main' = "shutdown"
    /\ UNCHANGED <<signalled, listener, request, timedOut, open>>

\* server.Shutdown: ListenAndServe returns ErrServerClosed, no request is taken
\* any more.
ListenerStops ==
    /\ main = "shutdown"
    /\ listener = "serving"
    /\ listener' = "done"
    /\ UNCHANGED <<loopVars, main, signalled, request, timedOut, open>>

NoneRunning == \A r \in Requests : request[r] # "running"

\* Mutant: server.Shutdown is not waited for.
ShutdownReturnsAtOnce(byTimeout) ==
    /\ main = "shutdown"
    /\ listener # "serving"
    /\ timedOut' = byTimeout
    /\ main' = "close"
    /\ UNCHANGED <<loopVars, signalled, listener, request, open>>

\* server.Shutdown returns: all requests are served, or ShutdownTimeout is over.
ShutdownReturns(byTimeout) ==
    /\ main = "shutdown"
    /\ listener # "serving"
    /\ byTimeout \/ NoneRunning
    /\ timedOut' = (byTimeout /\ ~NoneRunning)
    /\ main' = "close"
    /\ UNCHANGED <<loopVars, signalled, listener, request, open>>

\* Close empties a store, in the order of Stores.
CloseStore ==
    /\ main = "close"
    /\ open # {}
    /\ \E s \in open :
          /\ \A other \in open : s <= other
          /\ open' = open \ {s}
    /\ UNCHANGED <<loopVars, main, signalled, listener, request, timedOut>>

StoresClosed ==
    /\ main = "close"
    /\ open = {}
    /\ main' = "join"
    /\ UNCHANGED <<loopVars, signalled, listener, request, timedOut, open>>

\* Mutant: the scheduling loop is in the wait group too, and does not leave it.
JoinLoops ==
    /\ main = "join"
    /\ listener = "done"
    /\ \A i \in Loops : pc[i] = "none"
    /\ main' = "exited"
    /\ UNCHANGED <<loopVars, signalled, listener, request, timedOut, open>>

\* wg.Wait(): only the goroutine of ListenAndServe is waited for.
Join ==
    /\ main = "join"
    /\ listener = "done"
    /\ main' = "exited"
    /\ UNCHANGED <<loopVars, signalled, listener, request, timedOut, open>>

-----------------------------------------------------------------------------
\* A request is taken while the server listens, and may take any time to serve.
RequestBegins(r) ==
    /\ listener = "serving"
    /\ ~Over
    /\ request[r] = "none"
    /\ request' = [request EXCEPT ![r] = "running"]
    /\ UNCHANGED <<loopVars, main, signalled, listener, timedOut, open>>

RequestEnds(r) ==
    /\ ~Over
    /\ request[r] = "running"
    /\ request' = [request EXCEPT ![r] = "served"]
    /\ UNCHANGED <<loopVars, main, signalled, listener, timedOut, open>>

\* The process ends with main: no goroutine runs after it.
LoopRuns ==
    /\ ~Over
    /\ \E i \in Loops : LoopStep(i)
    /\ UNCHANGED <<main, signalled, listener, request, timedOut, open>>

MainStep ==
    \/ MainStart
    \/ MainWakes
    \/ MainStops
    \/ ListenerStops
    \/ \E byTimeout \in BOOLEAN : ShutdownReturns(byTimeout)
    \/ CloseStore
    \/ StoresClosed
    \/ Join

ShutdownNext ==
    \/ MainStep
    \/ Signal
    \/ ListenerFails
    \/ ListenerExits
    \/ \E r \in Requests : RequestBegins(r) \/ RequestEnds(r)
    \/ LoopRuns

ShutdownSpec == ShutdownInit /\ [][ShutdownNext]_shutdownVars

\* main and the listener are goroutines that nothing but their own guards
\* blocks; the timeout of server.Shutdown passes.  Requests and scans need not
\* ever end.
FairShutdownSpec ==
    ShutdownSpec /\ WF_shutdownVars(MainStep) /\ WF_shutdownVars(ListenerExits)

-----------------------------------------------------------------------------
(* Properties.                                                             *)

\* Every variable has a value of its Go type.
ShutdownTypeOK ==
    /\ LoopTypeOK
    /\ main \in MainPoints
    /\ signalled \in BOOLEAN
    /\ listener \in {"none", "serving", "failing", "done"}
    /\ request \in [Requests -> {"none", "running", "served"}]
    /\ timedOut \in BOOLEAN
    /\ open \subseteq Stores

\* After a signal the process ends, even if a request or a scan hangs: nothing
\* in the shutdown waits for either without a timeout (main.go:147-171).
SignalEndsProcess == signalled ~> Over

\* No HTTP request is running when a store is closed, unless the shutdown
\* timeout was over (main.go:157-164).
StoresOutliveRequests ==
    open # Stores => NoneRunning \/ timedOut

\* The README promises that HTTP service and scheduled tasks are shut down
\* smoothly (BENZHI_README.md:308): the stores are not closed under a scan.
StoresOutliveScans ==
    open # Stores => \A i \in Loops : pc[i] # "scan"
=============================================================================
