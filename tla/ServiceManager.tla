---------------------------- MODULE ServiceManager ----------------------------
(***************************************************************************)
(* internal/service/service_manager.go: a registry of services by name.      *)
(* ShutdownAll holds the read lock while it calls Shutdown on one service    *)
(* after another, which may take any time, and then replaces the map, still  *)
(* under the read lock; several callers may be in it at once.               *)
(***************************************************************************)
EXTENDS FiniteSets

CONSTANTS
    Names,          \* names of services
    Instances,      \* service instances; each is registered once
    Stoppable,      \* the instances that have a Shutdown method
    Stoppers,       \* goroutines that call ShutdownAll
    NoInstance      \* what a name that is not registered has

ASSUME ServicesAssumption == Stoppable \subseteq Instances /\ NoInstance \notin Instances

VARIABLES
    services,       \* the map
    stopper,        \* what each ShutdownAll is doing
    seen,           \* the instances that were registered
    stopped,        \* the instances whose Shutdown was called
    removed         \* the instances that were unregistered or replaced

managerVars == <<services, stopper, seen, stopped, removed>>

-----------------------------------------------------------------------------
\* "range": the loop has the instances of `left' still before it.
Stopper == [pc : {"idle", "range"}, left : SUBSET Instances]
IdleStopper == [pc |-> "idle", left |-> {}]

Registered == {services[n] : n \in Names} \ {NoInstance}

\* Lock waits for every reader.
NoReader == \A s \in Stoppers : stopper[s].pc = "idle"

ManagerInit ==
    /\ services = [n \in Names |-> NoInstance]
    /\ stopper = [s \in Stoppers |-> IdleStopper]
    /\ seen = {}
    /\ stopped = {}
    /\ removed = {}

\* Mutant: the map is written under the read lock.
RegisterUnlocked(n, i) ==
    /\ i \notin seen
    /\ services' = [services EXCEPT ![n] = i]
    /\ seen' = seen \cup {i}
    /\ removed' = removed \cup ({services[n]} \ {NoInstance})
    /\ UNCHANGED <<stopper, stopped>>

RegisterService(n, i) ==
    /\ NoReader
    /\ i \notin seen
    /\ services' = [services EXCEPT ![n] = i]
    /\ seen' = seen \cup {i}
    /\ removed' = removed \cup ({services[n]} \ {NoInstance})
    /\ UNCHANGED <<stopper, stopped>>

UnregisterService(n) ==
    /\ NoReader
    /\ services[n] # NoInstance
    /\ services' = [services EXCEPT ![n] = NoInstance]
    /\ removed' = removed \cup {services[n]}
    /\ UNCHANGED <<stopper, seen, stopped>>

-----------------------------------------------------------------------------
(* ShutdownAll.                                                            *)

\* RLock; the loop ranges over the map it finds, also when another caller
\* replaces it meanwhile.
ShutdownAll(s) ==
    /\ stopper[s].pc = "idle"
    /\ stopper' = [stopper EXCEPT ![s] = [pc |-> "range", left |-> Registered]]
    /\ UNCHANGED <<services, seen, stopped, removed>>

\* An error of Shutdown is logged, and an instance that has none is passed over.
ShutdownOne(s, i) ==
    /\ i \in stopper[s].left
    /\ stopper' = [stopper EXCEPT ![s].left = @ \ {i}]
    /\ stopped' = stopped \cup ({i} \cap Stoppable)
    /\ UNCHANGED <<services, seen, removed>>

\* The loop is over: a new map, and RUnlock.
ReplaceMap(s) ==
    /\ stopper[s].pc = "range"
    /\ stopper[s].left = {}
    /\ services' = [n \in Names |-> NoInstance]
    /\ stopper' = [stopper EXCEPT ![s] = IdleStopper]
    /\ UNCHANGED <<seen, stopped, removed>>

ManagerNext ==
    \/ \E n \in Names, i \in Instances : RegisterService(n, i)
    \/ \E n \in Names : UnregisterService(n)
    \/ \E s \in Stoppers :
          \/ ShutdownAll(s)
          \/ \E i \in Instances : ShutdownOne(s, i)
          \/ ReplaceMap(s)

ManagerSpec == ManagerInit /\ [][ManagerNext]_managerVars

-----------------------------------------------------------------------------
(* Properties.                                                             *)

\* The map has instances that were registered, each under one name.
ManagerTypeOK ==
    /\ services \in [Names -> Instances \cup {NoInstance}]
    /\ \A m, n \in Names : services[m] = services[n] /\ services[m] # NoInstance => m = n
    /\ stopper \in [Stoppers -> Stopper]
    /\ \A s \in Stoppers : stopper[s].left \subseteq seen
    /\ Registered \subseteq seen /\ seen \subseteq Instances
    /\ stopped \subseteq seen /\ removed \subseteq seen

\* A service that has a Shutdown method leaves the registry in one of three ways:
\* unregistered, replaced, or shut down; none that is registered while
\* ShutdownAll is under way goes with the old map (service_manager.go:81-94).
NothingForgotten ==
    seen \cap Stoppable \subseteq Registered \cup stopped \cup removed
=============================================================================
