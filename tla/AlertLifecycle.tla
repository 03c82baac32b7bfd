--------------------------- MODULE AlertLifecycle ---------------------------
(***************************************************************************)
(* internal/service/alert_service.go over internal/store/                   *)
(* memory_alert_store.go: alerts are recorded, evicted, deleted,            *)
(* and acknowledged and resolved by concurrent callers.                     *)
(*                                                                         *)
(* AcknowledgeAlert and ResolveAlert get the shared object out of the store *)
(* (one critical section), assign its fields with no lock held (one step    *)
(* for each field), and only then call UpdateStatus (another critical       *)
(* section), which looks whether the alert is still there.  The object is   *)
(* returned to the caller, who sees whatever it has become.                 *)
(***************************************************************************)
EXTENDS Eviction

CONSTANTS
    AlertIds,           \* identities of alerts; an identity is used once
    MaxTriggeredAt,     \* bound: TriggeredAt is in 0..MaxTriggeredAt, in any order
    NotTriggered,       \* TriggeredAt of an alert that does not exist yet
    MaxAlertRecords,    \* maxSize, from config.StorageConfig.MaxAlertRecords
    Callers,            \* goroutines that run AcknowledgeAlert and ResolveAlert
    Users,              \* users named in acknowledgements
    NoUser,             \* the empty AcknowledgedBy
    NoAlert             \* a caller that handles no alert

ASSUME AlertAssumption ==
    /\ IsFiniteSet(AlertIds)
    /\ MaxTriggeredAt \in Nat
    /\ NotTriggered \notin Int
    /\ MaxAlertRecords \in Int
    /\ NoUser \notin Users
    /\ NoAlert \notin AlertIds

VARIABLES
    kept,           \* the keys of the alerts map
    triggeredAt,    \* TriggeredAt of the alerts
    alert,          \* the other fields of the heap objects, which outlive deletion
    call            \* what each caller is doing, and its last reply

alertVars == <<kept, triggeredAt, alert, call>>

-----------------------------------------------------------------------------
TriggerTimes == 0..MaxTriggeredAt

\* AlertIgnored is never assigned: nothing calls Ignore.
AlertStatuses == {"open", "acknowledged", "resolved"}

AlertObject == [status : AlertStatuses, acknowledgedAt : BOOLEAN,
                by : Users \cup {NoUser}, resolvedAt : BOOLEAN]

\* Mutant: the status of a new alert is left empty.
NewAlertWithoutStatus ==
    [status |-> "", acknowledgedAt |-> FALSE, by |-> NoUser, resolvedAt |-> FALSE]

NewAlert == [status |-> "open", acknowledgedAt |-> FALSE, by |-> NoUser, resolvedAt |-> FALSE]

\* A call's next step: the field to be assigned, or UpdateStatus.
CallPoints == {"idle", "status", "time", "user", "update"}

Call == [pc : CallPoints, id : AlertIds \cup {NoAlert}, to : AlertStatuses,
         user : Users \cup {NoUser}, reply : {"none", "ok", "error"}]

IdleCall == [pc |-> "idle", id |-> NoAlert, to |-> "open", user |-> NoUser, reply |-> "none"]

AlertInit ==
    /\ kept = {}
    /\ triggeredAt = [id \in AlertIds |-> NotTriggered]
    /\ alert = [id \in AlertIds |-> NewAlert]
    /\ call = [c \in Callers |-> IdleCall]

-----------------------------------------------------------------------------
(* The store.                                                              *)

Record(id, t) ==
    /\ triggeredAt[id] = NotTriggered
    /\ triggeredAt' = [triggeredAt EXCEPT ![id] = t]
    /\ \E gone \in SUBSET kept :
          /\ MakesRoom(gone, kept, triggeredAt, MaxAlertRecords)
          /\ kept' = (kept \ gone) \cup {id}
    /\ UNCHANGED <<alert, call>>

DeleteAlert(id) ==
    /\ id \in kept
    /\ kept' = kept \ {id}
    /\ UNCHANGED <<triggeredAt, alert, call>>

DeleteOldAlerts(before) ==
    /\ kept' = {id \in kept : triggeredAt[id] >= before}
    /\ UNCHANGED <<triggeredAt, alert, call>>

CloseAlerts ==
    /\ kept' = {}
    /\ UNCHANGED <<triggeredAt, alert, call>>

-----------------------------------------------------------------------------
(* AcknowledgeAlert and ResolveAlert.                                      *)

\* store.Get.  A call for an alert that is not there fails at once.
Begin(c, id, to, user) ==
    /\ call[c].pc = "idle"
    /\ id \in kept
    /\ call' = [call EXCEPT ![c] = [pc |-> "status", id |-> id, to |-> to,
                                    user |-> user, reply |-> "none"]]
    /\ UNCHANGED <<kept, triggeredAt, alert>>

BeginAcknowledge(c, id, user) == Begin(c, id, "acknowledged", user)

BeginResolve(c, id) == Begin(c, id, "resolved", NoUser)

\* Caller c assigns one field of its alert and goes on to the step `next'.
Assign(c, from, next, obj) ==
    /\ call[c].pc = from
    /\ alert' = [alert EXCEPT ![call[c].id] = obj]
    /\ call' = [call EXCEPT ![c].pc = next]
    /\ UNCHANGED <<kept, triggeredAt>>

AssignStatus(c) == Assign(c, "status", "time", [alert[call[c].id] EXCEPT !.status = call[c].to])

\* AcknowledgedAt or ResolvedAt of an alert, as its new status demands.
Timed(obj, to) ==
    IF to = "acknowledged" THEN [obj EXCEPT !.acknowledgedAt = TRUE]
                           ELSE [obj EXCEPT !.resolvedAt = TRUE]

AssignTime(c) ==
    Assign(c, "time", IF call[c].to = "acknowledged" THEN "user" ELSE "update",
           Timed(alert[call[c].id], call[c].to))

\* Mutant: the first user who acknowledges the alert is kept, if it is open.
AssignUserOfOpen(c) ==
    Assign(c, "user", "update", IF alert[call[c].id].status = "open"
                                THEN [alert[call[c].id] EXCEPT !.by = call[c].user]
                                ELSE alert[call[c].id])

AssignUser(c) == Assign(c, "user", "update", [alert[call[c].id] EXCEPT !.by = call[c].user])

\* Mutant: an alert that is resolved cannot be acknowledged.
UpdateStatusUnlessResolved(c) ==
    LET id == call[c].id
        ok == id \in kept /\ ~(alert[id].status = "resolved" /\ call[c].to = "acknowledged")
    IN
    /\ call[c].pc = "update"
    /\ alert' = IF ok THEN [alert EXCEPT ![id] = Timed([@ EXCEPT !.status = call[c].to], call[c].to)]
                      ELSE alert
    /\ call' = [call EXCEPT ![c] = [@ EXCEPT !.pc = "idle", !.reply = IF ok THEN "ok" ELSE "error"]]
    /\ UNCHANGED <<kept, triggeredAt>>

\* Mutant: UpdateStatus puts the object it was given back into the map.
UpdateStatusUpserts(c) ==
    LET id == call[c].id IN
    /\ call[c].pc = "update"
    /\ kept' = kept \cup {id}
    /\ alert' = [alert EXCEPT ![id] = Timed([@ EXCEPT !.status = call[c].to], call[c].to)]
    /\ call' = [call EXCEPT ![c] = [@ EXCEPT !.pc = "idle", !.reply = "ok"]]
    /\ UNCHANGED <<triggeredAt>>

\* UpdateStatus assigns status and time again, under the lock; it fails when the
\* alert was deleted or evicted meanwhile.
UpdateStatus(c) ==
    LET id == call[c].id
        ok == id \in kept
    IN
    /\ call[c].pc = "update"
    /\ alert' = IF ok THEN [alert EXCEPT ![id] = Timed([@ EXCEPT !.status = call[c].to], call[c].to)]
                      ELSE alert
    /\ call' = [call EXCEPT ![c] = [@ EXCEPT !.pc = "idle", !.reply = IF ok THEN "ok" ELSE "error"]]
    /\ UNCHANGED <<kept, triggeredAt>>

-----------------------------------------------------------------------------
StoreStep ==
    \/ \E id \in AlertIds, t \in TriggerTimes : Record(id, t)
    \/ \E id \in AlertIds : DeleteAlert(id)
    \/ \E before \in TriggerTimes : DeleteOldAlerts(before)
    \/ CloseAlerts

CallStep(c) ==
    \/ \E id \in AlertIds, user \in Users : BeginAcknowledge(c, id, user)
    \/ \E id \in AlertIds : BeginResolve(c, id)
    \/ AssignStatus(c)
    \/ AssignTime(c)
    \/ AssignUser(c)
    \/ UpdateStatus(c)

AlertNext == StoreStep \/ \E c \in Callers : CallStep(c)

AlertSpec == AlertInit /\ [][AlertNext]_alertVars

-----------------------------------------------------------------------------
(* Properties.                                                             *)

AlertTypeOK ==
    /\ kept \subseteq AlertIds
    /\ triggeredAt \in [AlertIds -> TriggerTimes \cup {NotTriggered}]
    /\ \A id \in kept : triggeredAt[id] # NotTriggered
    /\ alert \in [AlertIds -> AlertObject]
    /\ call \in [Callers -> Call]

Handled(id) == \E c \in Callers : call[c].pc # "idle" /\ call[c].id = id

\* An alert nobody is working on has what its status claims: a time and a user
\* if it is acknowledged, a time if it is resolved, neither if it is open.
\* Concurrent calls that write the object field by field, and overtake one
\* another between mutation and UpdateStatus, cannot leave a mixture that
\* lacks the evidence (alert_event.go:54-66, alert_service.go:96-97, 112-113).
StatusHasEvidence ==
    \A id \in kept : ~Handled(id) =>
        CASE alert[id].status = "open" -> ~alert[id].acknowledgedAt /\ ~alert[id].resolvedAt
          [] alert[id].status = "acknowledged" -> alert[id].acknowledgedAt /\ alert[id].by # NoUser
          [] alert[id].status = "resolved" -> alert[id].resolvedAt

\* A call that reports an error has changed no alert that anyone can still get:
\* it mutates the object before UpdateStatus looks for it, but then only fails
\* because the alert is gone, and it is gone for good.
FailedCallLeavesNoTrace ==
    \A c \in Callers : call[c].reply = "error" => call[c].id \notin kept

\* Every operation is one the contract of a bounded store allows: alerts are
\* evicted only when the store is full, the oldest first, and an alert that was
\* deleted or evicted does not come back with a call that still holds it.
AlertContract == INSTANCE BoundedStore WITH
    Ids <- AlertIds, Times <- TriggerTimes, NoStamp <- NotTriggered,
    Capacity <- MaxAlertRecords, present <- kept, stamp <- triggeredAt
AlertsRefineBoundedStore == AlertContract!StoreSpec
=============================================================================
