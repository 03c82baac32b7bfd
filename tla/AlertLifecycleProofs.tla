------------------------ MODULE AlertLifecycleProofs ------------------------
(***************************************************************************)
(* Proofs about AlertLifecycle, for any alerts, any number of concurrent    *)
(* calls, any capacity and any share of alerts evicted at once.             *)
(***************************************************************************)
EXTENDS AlertLifecycle, EvictionProofs

-----------------------------------------------------------------------------
(* The inductive invariant.                                                *)

\* Caller c is past the assignment of the status, and has its alert in hand.
Assigned(c, id, to, points) ==
    call[c].id = id /\ call[c].to = to /\ call[c].pc \in points

\* A call has an alert, which was recorded, and a purpose; who acknowledges
\* names a user, and only who acknowledges assigns one.
CallInv ==
    \A c \in Callers :
        /\ call[c].id # NoAlert => triggeredAt[call[c].id] # NotTriggered
        /\ call[c].pc # "idle" =>
              /\ call[c].id \in AlertIds
              /\ call[c].to \in {"acknowledged", "resolved"}
              /\ call[c].to = "acknowledged" => call[c].user # NoUser
        /\ call[c].pc = "user" => call[c].to = "acknowledged"
        /\ call[c].reply = "error" => call[c].pc = "idle" /\ call[c].id \in AlertIds \ kept

\* An open alert has not been touched.
OpenInv ==
    \A id \in AlertIds : alert[id].status = "open" =>
        /\ ~alert[id].acknowledgedAt /\ ~alert[id].resolvedAt
        /\ \A c \in Callers : call[c].id = id => call[c].pc \in {"idle", "status"}

\* What the status of an alert claims is there, or the call that has assigned
\* the status is still to provide it.
AcknowledgedInv ==
    \A id \in AlertIds : alert[id].status = "acknowledged" =>
        /\ alert[id].acknowledgedAt
           \/ \E c \in Callers : Assigned(c, id, "acknowledged", {"time"})
        /\ alert[id].by # NoUser
           \/ \E c \in Callers : Assigned(c, id, "acknowledged", {"time", "user"})

ResolvedInv ==
    \A id \in AlertIds : alert[id].status = "resolved" =>
        alert[id].resolvedAt \/ \E c \in Callers : Assigned(c, id, "resolved", {"time"})

\* Who acknowledges has named the user before UpdateStatus, which does not.
UserInv ==
    \A c \in Callers :
        call[c].pc = "update" /\ call[c].to = "acknowledged" => alert[call[c].id].by # NoUser

ObjectInv == OpenInv /\ AcknowledgedInv /\ ResolvedInv /\ UserInv

LifecycleInv == AlertTypeOK /\ CallInv /\ ObjectInv

-----------------------------------------------------------------------------
\* What the record of a call and of an alert holds.
LEMMA CallRecords ==
    ASSUME AlertTypeOK
    PROVE  /\ \A c \in Callers : /\ call[c] \in Call /\ call[c].pc \in CallPoints
                                 /\ call[c].id \in AlertIds \cup {NoAlert}
                                 /\ call[c].to \in AlertStatuses
                                 /\ call[c].user \in Users \cup {NoUser}
                                 /\ call[c].reply \in {"none", "ok", "error"}
           /\ \A id \in AlertIds : /\ alert[id] \in AlertObject
                                   /\ alert[id].status \in AlertStatuses
                                   /\ alert[id].acknowledgedAt \in BOOLEAN
                                   /\ alert[id].by \in Users \cup {NoUser}
                                   /\ alert[id].resolvedAt \in BOOLEAN
<1>1. /\ \A c \in Callers : call[c] \in Call
      /\ \A id \in AlertIds : alert[id] \in AlertObject
  BY DEF AlertTypeOK
<1> QED BY <1>1 DEF Call, AlertObject

LEMMA LifecycleInit == AlertInit => LifecycleInv
<1> SUFFICES ASSUME AlertInit PROVE LifecycleInv
  OBVIOUS
<1>1. NewAlert \in AlertObject /\ IdleCall \in Call
  BY DEF NewAlert, AlertObject, IdleCall, Call, AlertStatuses, CallPoints
<1>2. AlertTypeOK
  BY <1>1 DEF AlertInit, AlertTypeOK
<1>3. CallInv
  BY DEF AlertInit, CallInv, IdleCall
<1>4. ObjectInv
  BY DEF AlertInit, ObjectInv, OpenInv, AcknowledgedInv, ResolvedInv, UserInv, IdleCall, NewAlert
<1> QED BY <1>2, <1>3, <1>4 DEF LifecycleInv

\* The store only takes alerts away, or brings one nobody has handled yet.
LEMMA StoreStepKeeps ==
    ASSUME LifecycleInv, StoreStep PROVE LifecycleInv'
<1>0. AlertTypeOK /\ CallInv /\ ObjectInv
  BY DEF LifecycleInv
<1>1. ObjectInv'
  BY <1>0 DEF StoreStep, Record, DeleteAlert, DeleteOldAlerts, CloseAlerts, ObjectInv,
             OpenInv, AcknowledgedInv, ResolvedInv, UserInv, Assigned
<1>2. ASSUME NEW id \in AlertIds, NEW t \in TriggerTimes, Record(id, t) PROVE LifecycleInv'
  <2>1. /\ triggeredAt[id] = NotTriggered /\ triggeredAt' = [triggeredAt EXCEPT ![id] = t]
        /\ kept' \subseteq kept \cup {id} /\ UNCHANGED <<alert, call>>
    BY <1>2 DEF Record
  <2>2. t # NotTriggered
    BY AlertAssumption DEF TriggerTimes
  <2>3. AlertTypeOK'
    BY <1>0, <2>1, <2>2 DEF AlertTypeOK
  <2>4. ASSUME NEW i \in AlertIds PROVE triggeredAt[i] # NotTriggered => triggeredAt'[i] # NotTriggered
    BY <1>0, <2>1, <2>2 DEF AlertTypeOK
  <2>5. CallInv'
    <3> SUFFICES ASSUME NEW c \in Callers
                 PROVE  /\ call[c].id # NoAlert => triggeredAt'[call[c].id] # NotTriggered
                        /\ call[c].reply = "error" => call[c].id \notin kept'
      BY <1>0, <2>1 DEF CallInv
    <3>1. call[c].id # NoAlert => call[c].id # id /\ call[c].id \in AlertIds
      BY <1>0, <2>1, CallRecords DEF CallInv
    <3>2. call[c].reply = "error" => call[c].id \in AlertIds \ kept
      BY <1>0 DEF CallInv
    <3>3. call[c].reply = "error" => call[c].id # NoAlert
      BY <3>2, AlertAssumption
    <3> QED BY <1>0, <2>1, <2>4, <3>1, <3>2, <3>3 DEF CallInv
  <2> QED BY <1>1, <2>3, <2>5 DEF LifecycleInv
<1>3. ASSUME kept' \subseteq kept, UNCHANGED <<triggeredAt, alert, call>> PROVE LifecycleInv'
  <2>1. AlertTypeOK'
    BY <1>0, <1>3 DEF AlertTypeOK
  <2>2. CallInv'
    BY <1>0, <1>3 DEF CallInv
  <2> QED BY <1>1, <2>1, <2>2 DEF LifecycleInv
<1> QED
  BY <1>2, <1>3 DEF StoreStep, DeleteAlert, DeleteOldAlerts, CloseAlerts

LEMMA BeginKeeps ==
    ASSUME LifecycleInv, NEW c \in Callers, NEW id \in AlertIds, NEW user \in Users \cup {NoUser},
           NEW to \in {"acknowledged", "resolved"}, to = "acknowledged" => user # NoUser,
           Begin(c, id, to, user)
    PROVE  LifecycleInv'
<1> DEFINE new == [pc |-> "status", id |-> id, to |-> to, user |-> user, reply |-> "none"]
<1>0. AlertTypeOK /\ CallInv /\ ObjectInv
  BY DEF LifecycleInv
<1>1. /\ call[c].pc = "idle" /\ id \in kept
      /\ call' = [call EXCEPT ![c] = new] /\ UNCHANGED <<kept, triggeredAt, alert>>
  BY DEF Begin
<1>2. /\ new \in Call /\ new.pc = "status" /\ new.id = id /\ new.to = to
      /\ new.user = user /\ new.reply = "none"
  BY DEF Call, CallPoints, AlertStatuses
<1> HIDE DEF new
<1>3. call'[c] = new /\ \A d \in Callers : d # c => call'[d] = call[d]
  BY <1>0, <1>1 DEF AlertTypeOK
<1>4. AlertTypeOK'
  BY <1>0, <1>1, <1>2 DEF AlertTypeOK
<1>5. CallInv'
  BY <1>0, <1>1, <1>2, <1>3 DEF CallInv, AlertTypeOK
<1>6. ObjectInv'
  <2>1. \A d \in Callers, i \in AlertIds, o \in AlertStatuses :
           /\ Assigned(d, i, o, {"time"}) => Assigned(d, i, o, {"time"})'
           /\ Assigned(d, i, o, {"time", "user"}) => Assigned(d, i, o, {"time", "user"})'
    BY <1>1, <1>3 DEF Assigned
  <2>2. \A d \in Callers : call'[d].pc \in {"idle", "status"} \/ call'[d] = call[d]
    BY <1>2, <1>3
  <2> QED
    BY <1>0, <1>1, <2>1, <2>2
       DEF ObjectInv, OpenInv, AcknowledgedInv, ResolvedInv, UserInv, AlertStatuses
<1> QED BY <1>4, <1>5, <1>6 DEF LifecycleInv

\* An assignment moves its caller on and changes one object.
LEMMA AssignFacts ==
    ASSUME LifecycleInv, NEW c \in Callers, NEW from \in CallPoints \ {"idle"},
           NEW next \in CallPoints \ {"idle"}, NEW obj \in AlertObject,
           Assign(c, from, next, obj),
           next = "user" => call[c].to = "acknowledged"
    PROVE  /\ call[c].pc = from /\ call[c].id \in AlertIds
           /\ call[c].to \in {"acknowledged", "resolved"}
           /\ call[c].to = "acknowledged" => call[c].user # NoUser
           /\ call'[c].pc = next /\ call'[c].id = call[c].id /\ call'[c].to = call[c].to
           /\ \A d \in Callers : d # c => call'[d] = call[d]
           /\ alert'[call[c].id] = obj
           /\ \A i \in AlertIds : i # call[c].id => alert'[i] = alert[i]
           /\ AlertTypeOK' /\ CallInv'
<1>0. AlertTypeOK /\ CallInv
  BY DEF LifecycleInv
<1>1. /\ call[c].pc = from /\ alert' = [alert EXCEPT ![call[c].id] = obj]
      /\ call' = [call EXCEPT ![c].pc = next] /\ UNCHANGED <<kept, triggeredAt>>
  BY DEF Assign
<1>2. /\ call[c].id \in AlertIds /\ call[c].to \in {"acknowledged", "resolved"}
      /\ call[c].to = "acknowledged" => call[c].user # NoUser
      /\ call[c].reply # "error"
  BY <1>0, <1>1 DEF CallInv
<1>3. /\ call'[c] \in Call /\ call'[c].pc = next /\ call'[c].id = call[c].id
      /\ call'[c].to = call[c].to /\ call'[c].user = call[c].user
      /\ call'[c].reply = call[c].reply
  <2>1. call[c] \in Call /\ call'[c] = [call[c] EXCEPT !.pc = next]
    BY <1>0, <1>1 DEF AlertTypeOK
  <2> QED BY <2>1 DEF Call
<1>4. \A d \in Callers : d # c => call'[d] = call[d]
  BY <1>0, <1>1 DEF AlertTypeOK
<1>5. /\ alert'[call[c].id] = obj
      /\ \A i \in AlertIds : i # call[c].id => alert'[i] = alert[i]
  BY <1>0, <1>1, <1>2 DEF AlertTypeOK
<1>6. AlertTypeOK'
  BY <1>0, <1>1, <1>2, <1>3, <1>4, <1>5 DEF AlertTypeOK
<1>7. CallInv'
  BY <1>0, <1>1, <1>2, <1>3, <1>4 DEF CallInv
<1> QED BY <1>1, <1>2, <1>3, <1>4, <1>5, <1>6, <1>7

LEMMA AssignStatusKeeps ==
    ASSUME LifecycleInv, NEW c \in Callers, AssignStatus(c) PROVE LifecycleInv'
<1> DEFINE id == call[c].id
           obj == [alert[id] EXCEPT !.status = call[c].to]
<1>0. AlertTypeOK /\ CallInv /\ ObjectInv
  BY DEF LifecycleInv
<1>1. call[c].pc = "status" /\ id \in AlertIds /\ Assign(c, "status", "time", obj)
  BY <1>0 DEF AssignStatus, Assign, CallInv
<1>2. /\ obj \in AlertObject /\ obj.status = call[c].to
      /\ obj.by = alert[id].by
  <2>1. alert[id] \in AlertObject /\ call[c].to \in AlertStatuses
    BY <1>0, <1>1, CallRecords
  <2> QED BY <2>1 DEF AlertObject
<1> HIDE DEF obj
<1>3. "status" \in CallPoints \ {"idle"} /\ "time" \in CallPoints \ {"idle"}
  BY DEF CallPoints
<1>4. /\ call[c].to \in {"acknowledged", "resolved"}
      /\ call'[c].pc = "time" /\ call'[c].id = id /\ call'[c].to = call[c].to
      /\ \A d \in Callers : d # c => call'[d] = call[d]
      /\ alert'[id] = obj
      /\ \A i \in AlertIds : i # id => alert'[i] = alert[i]
      /\ AlertTypeOK' /\ CallInv'
  BY <1>1, <1>2, <1>3, AssignFacts
<1>5. /\ alert'[id].status = call[c].to /\ alert'[id].by = alert[id].by
      /\ \A i \in AlertIds : i # id =>
            /\ alert'[i] = alert[i]
            /\ \A d \in Callers : call[d].id = i => call'[d] = call[d]
            /\ \A d \in Callers : call'[d].id = i => call'[d] = call[d]
  BY <1>2, <1>4
<1>6. OpenInv'
  BY <1>0, <1>4, <1>5 DEF ObjectInv, OpenInv
<1>7. AcknowledgedInv'
  <2> SUFFICES ASSUME NEW i \in AlertIds, alert'[i].status = "acknowledged"
               PROVE  /\ alert'[i].acknowledgedAt
                         \/ \E d \in Callers : Assigned(d, i, "acknowledged", {"time"})'
                      /\ alert'[i].by # NoUser
                         \/ \E d \in Callers : Assigned(d, i, "acknowledged", {"time", "user"})'
    BY DEF AcknowledgedInv
  <2>1. CASE i = id
    BY <1>4, <1>5, <2>1 DEF Assigned
  <2>2. CASE i # id
    BY <1>0, <1>5, <2>2 DEF ObjectInv, AcknowledgedInv, Assigned
  <2> QED BY <2>1, <2>2
<1>8. ResolvedInv'
  BY <1>0, <1>4, <1>5 DEF ObjectInv, ResolvedInv, Assigned
<1>9. UserInv'
  <2> SUFFICES ASSUME NEW d \in Callers, call'[d].pc = "update", call'[d].to = "acknowledged"
               PROVE  alert'[call'[d].id].by # NoUser
    BY DEF UserInv
  <2>1. d # c
    BY <1>4
  <2>2. call'[d] = call[d] /\ call[d].id \in AlertIds
    BY <1>0, <1>4, <2>1 DEF CallInv
  <2>3. alert[call[d].id].by # NoUser
    BY <1>0, <2>2 DEF ObjectInv, UserInv
  <2>4. alert'[call[d].id].by = alert[call[d].id].by
    BY <1>5, <2>2
  <2> QED BY <2>2, <2>3, <2>4
<1> QED BY <1>4, <1>6, <1>7, <1>8, <1>9 DEF LifecycleInv, ObjectInv

\* Who assigns the time provides it.
LEMMA AssignTimeKeeps ==
    ASSUME LifecycleInv, NEW c \in Callers, AssignTime(c) PROVE LifecycleInv'
<1> DEFINE id == call[c].id
           obj == Timed(alert[id], call[c].to)
           next == IF call[c].to = "acknowledged" THEN "user" ELSE "update"
<1>0. AlertTypeOK /\ CallInv /\ ObjectInv
  BY DEF LifecycleInv
<1>1. call[c].pc = "time" /\ id \in AlertIds /\ Assign(c, "time", next, obj)
  BY <1>0 DEF AssignTime, Assign, CallInv
<1>2. /\ obj \in AlertObject /\ obj.status = alert[id].status /\ obj.by = alert[id].by
      /\ call[c].to = "acknowledged" => obj.acknowledgedAt
      /\ call[c].to # "acknowledged" => obj.resolvedAt
      /\ alert[id].acknowledgedAt => obj.acknowledgedAt
      /\ alert[id].resolvedAt => obj.resolvedAt
  <2>1. alert[id] \in AlertObject
    BY <1>0, <1>1, CallRecords
  <2> QED BY <2>1 DEF Timed, AlertObject
<1> HIDE DEF obj
<1>3. \A p \in {"time", "user", "update"} : p \in CallPoints \ {"idle"}
  BY DEF CallPoints
<1>4. /\ call[c].to \in {"acknowledged", "resolved"}
      /\ call'[c].pc \in {"user", "update"} /\ call'[c].id = id /\ call'[c].to = call[c].to
      /\ call'[c].pc = "update" => call[c].to # "acknowledged"
      /\ \A d \in Callers : d # c => call'[d] = call[d]
      /\ alert'[id] = obj
      /\ \A i \in AlertIds : i # id => alert'[i] = alert[i]
      /\ AlertTypeOK' /\ CallInv'
  <2>1. CASE call[c].to = "acknowledged"
    <3>1. Assign(c, "time", "user", obj)
      BY <1>1, <2>1
    <3> QED BY <1>2, <1>3, <2>1, <3>1, AssignFacts
  <2>2. CASE call[c].to # "acknowledged"
    <3>1. Assign(c, "time", "update", obj)
      BY <1>1, <2>2
    <3> QED BY <1>2, <1>3, <2>2, <3>1, AssignFacts
  <2> QED BY <2>1, <2>2
<1>5. /\ alert'[id].status = alert[id].status /\ alert'[id].by = alert[id].by
      /\ \A i \in AlertIds : i # id =>
            /\ alert'[i] = alert[i]
            /\ \A d \in Callers : call[d].id = i => call'[d] = call[d]
            /\ \A d \in Callers : call'[d].id = i => call'[d] = call[d]
  BY <1>2, <1>4
<1>6. alert[id].status # "open"
  BY <1>0, <1>1 DEF ObjectInv, OpenInv
<1>7. OpenInv'
  BY <1>0, <1>5, <1>6 DEF ObjectInv, OpenInv
<1>8. AcknowledgedInv'
  <2> SUFFICES ASSUME NEW i \in AlertIds, alert'[i].status = "acknowledged"
               PROVE  /\ alert'[i].acknowledgedAt
                         \/ \E d \in Callers : Assigned(d, i, "acknowledged", {"time"})'
                      /\ alert'[i].by # NoUser
                         \/ \E d \in Callers : Assigned(d, i, "acknowledged", {"time", "user"})'
    BY DEF AcknowledgedInv
  <2>1. CASE i = id
    <3>1. alert[id].acknowledgedAt \/ \E d \in Callers : Assigned(d, id, "acknowledged", {"time"})
      BY <1>0, <1>1, <1>5, <2>1 DEF ObjectInv, AcknowledgedInv
    <3>2. alert[id].by # NoUser \/ \E d \in Callers : Assigned(d, id, "acknowledged", {"time", "user"})
      BY <1>0, <1>1, <1>5, <2>1 DEF ObjectInv, AcknowledgedInv
    <3>3. ASSUME NEW d \in Callers, Assigned(d, id, "acknowledged", {"time"})
          PROVE  alert'[id].acknowledgedAt \/ Assigned(d, id, "acknowledged", {"time"})'
      BY <1>2, <1>4, <3>3 DEF Assigned
    <3>4. ASSUME NEW d \in Callers, Assigned(d, id, "acknowledged", {"time", "user"})
          PROVE  Assigned(d, id, "acknowledged", {"time", "user"})'
      BY <1>1, <1>4, <3>4 DEF Assigned
    <3> QED BY <1>2, <1>4, <1>5, <2>1, <3>1, <3>2, <3>3, <3>4
  <2>2. CASE i # id
    BY <1>0, <1>5, <2>2 DEF ObjectInv, AcknowledgedInv, Assigned
  <2> QED BY <2>1, <2>2
<1>9. ResolvedInv'
  <2> SUFFICES ASSUME NEW i \in AlertIds, alert'[i].status = "resolved"
               PROVE  alert'[i].resolvedAt \/ \E d \in Callers : Assigned(d, i, "resolved", {"time"})'
    BY DEF ResolvedInv
  <2>1. CASE i = id
    <3>1. alert[id].resolvedAt \/ \E d \in Callers : Assigned(d, id, "resolved", {"time"})
      BY <1>0, <1>1, <1>5, <2>1 DEF ObjectInv, ResolvedInv
    <3>2. ASSUME NEW d \in Callers, Assigned(d, id, "resolved", {"time"})
          PROVE  alert'[id].resolvedAt \/ Assigned(d, id, "resolved", {"time"})'
      BY <1>2, <1>4, <3>2 DEF Assigned
    <3> QED BY <1>2, <1>4, <2>1, <3>1, <3>2
  <2>2. CASE i # id
    BY <1>0, <1>5, <2>2 DEF ObjectInv, ResolvedInv, Assigned
  <2> QED BY <2>1, <2>2
<1>10. UserInv'
  <2> SUFFICES ASSUME NEW d \in Callers, call'[d].pc = "update", call'[d].to = "acknowledged"
               PROVE  alert'[call'[d].id].by # NoUser
    BY DEF UserInv
  <2>1. d # c
    BY <1>4
  <2>2. call'[d] = call[d] /\ call[d].id \in AlertIds
    BY <1>0, <1>4, <2>1 DEF CallInv
  <2>3. alert[call[d].id].by # NoUser
    BY <1>0, <2>2 DEF ObjectInv, UserInv
  <2>4. alert'[call[d].id].by = alert[call[d].id].by
    BY <1>5, <2>2
  <2> QED BY <2>2, <2>3, <2>4
<1> QED BY <1>4, <1>7, <1>8, <1>9, <1>10 DEF LifecycleInv, ObjectInv

\* Who assigns the user provides it.
LEMMA AssignUserKeeps ==
    ASSUME LifecycleInv, NEW c \in Callers, AssignUser(c) PROVE LifecycleInv'
<1> DEFINE id == call[c].id
           obj == [alert[id] EXCEPT !.by = call[c].user]
<1>0. AlertTypeOK /\ CallInv /\ ObjectInv
  BY DEF LifecycleInv
<1>1. call[c].pc = "user" /\ id \in AlertIds /\ call[c].to = "acknowledged"
      /\ Assign(c, "user", "update", obj)
  BY <1>0 DEF AssignUser, Assign, CallInv
<1>2. /\ obj \in AlertObject /\ obj.status = alert[id].status /\ obj.by = call[c].user
      /\ obj.acknowledgedAt = alert[id].acknowledgedAt
      /\ obj.resolvedAt = alert[id].resolvedAt
  <2>1. alert[id] \in AlertObject /\ call[c].user \in Users \cup {NoUser}
    BY <1>0, <1>1, CallRecords
  <2> QED BY <2>1 DEF AlertObject
<1> HIDE DEF obj
<1>3. "user" \in CallPoints \ {"idle"} /\ "update" \in CallPoints \ {"idle"}
  BY DEF CallPoints
<1>4. /\ call[c].user # NoUser
      /\ call'[c].pc = "update" /\ call'[c].id = id /\ call'[c].to = call[c].to
      /\ \A d \in Callers : d # c => call'[d] = call[d]
      /\ alert'[id] = obj
      /\ \A i \in AlertIds : i # id => alert'[i] = alert[i]
      /\ AlertTypeOK' /\ CallInv'
  BY <1>1, <1>2, <1>3, AssignFacts
<1>5. \A i \in AlertIds :
         /\ alert'[i].status = alert[i].status
         /\ alert'[i].acknowledgedAt = alert[i].acknowledgedAt
         /\ alert'[i].resolvedAt = alert[i].resolvedAt
         /\ i # id => alert'[i] = alert[i]
  BY <1>2, <1>4
<1>6. alert[id].status # "open" /\ alert'[id].by # NoUser
  BY <1>0, <1>1, <1>2, <1>4 DEF ObjectInv, OpenInv
<1>7. \A d \in Callers, i \in AlertIds, to \in AlertStatuses :
         /\ Assigned(d, i, to, {"time"}) => Assigned(d, i, to, {"time"})'
         /\ i # id /\ Assigned(d, i, to, {"time", "user"})
               => Assigned(d, i, to, {"time", "user"})'
  BY <1>1, <1>4 DEF Assigned
<1>8. OpenInv'
  BY <1>0, <1>4, <1>5, <1>6 DEF ObjectInv, OpenInv
<1>9. AcknowledgedInv'
  BY <1>0, <1>5, <1>6, <1>7 DEF ObjectInv, AcknowledgedInv, AlertStatuses
<1>10. ResolvedInv'
  BY <1>0, <1>5, <1>7 DEF ObjectInv, ResolvedInv, AlertStatuses
<1>11. UserInv'
  <2> SUFFICES ASSUME NEW d \in Callers, call'[d].pc = "update", call'[d].to = "acknowledged"
               PROVE  alert'[call'[d].id].by # NoUser
    BY DEF UserInv
  <2>1. CASE call'[d].id = id
    BY <1>6, <2>1
  <2>2. CASE call'[d].id # id
    <3>1. call'[d] = call[d] /\ call[d].id \in AlertIds
      BY <1>0, <1>4, <2>2 DEF CallInv
    <3>2. alert[call[d].id].by # NoUser
      BY <1>0, <3>1 DEF ObjectInv, UserInv
    <3> QED BY <1>5, <2>2, <3>1, <3>2
  <2> QED BY <2>1, <2>2
<1> QED BY <1>4, <1>8, <1>9, <1>10, <1>11 DEF LifecycleInv, ObjectInv

\* UpdateStatus provides the time again, and finds the user named.
LEMMA UpdateStatusKeeps ==
    ASSUME LifecycleInv, NEW c \in Callers, UpdateStatus(c) PROVE LifecycleInv'
<1> DEFINE id == call[c].id
           ok == id \in kept
           obj == IF ok THEN Timed([alert[id] EXCEPT !.status = call[c].to], call[c].to)
                        ELSE alert[id]
           new == [call[c] EXCEPT !.pc = "idle", !.reply = IF ok THEN "ok" ELSE "error"]
<1>0. AlertTypeOK /\ CallInv /\ ObjectInv
  BY DEF LifecycleInv
<1>1. /\ call[c].pc = "update" /\ id \in AlertIds
      /\ call[c].to \in {"acknowledged", "resolved"}
      /\ call' = [call EXCEPT ![c] = new] /\ UNCHANGED <<kept, triggeredAt>>
  BY <1>0 DEF UpdateStatus, CallInv
<1>2. alert[id] \in AlertObject /\ call[c] \in Call /\ call[c].to \in AlertStatuses
  BY <1>0, <1>1, CallRecords
<1>3. /\ obj \in AlertObject /\ obj.by = alert[id].by
      /\ ok => /\ obj.status = call[c].to
               /\ call[c].to = "acknowledged" => obj.acknowledgedAt
               /\ call[c].to = "resolved" => obj.resolvedAt
      /\ ~ok => obj = alert[id]
  BY <1>1, <1>2 DEF Timed, AlertObject
<1>4. /\ new \in Call /\ new.pc = "idle" /\ new.id = id /\ new.to = call[c].to
      /\ new.reply = IF ok THEN "ok" ELSE "error"
  BY <1>2 DEF Call, CallPoints
<1>5. alert'[id] = obj /\ \A i \in AlertIds : i # id => alert'[i] = alert[i]
  BY <1>0, <1>1 DEF UpdateStatus, AlertTypeOK
<1>6. alert' \in [AlertIds -> AlertObject]
  BY <1>0, <1>1, <1>3 DEF UpdateStatus, AlertTypeOK
<1>7. call'[c] = new /\ \A d \in Callers : d # c => call'[d] = call[d]
  BY <1>0, <1>1 DEF AlertTypeOK
<1> HIDE DEF obj, new, ok
<1>8. AlertTypeOK'
  BY <1>0, <1>1, <1>4, <1>6 DEF AlertTypeOK
<1>9. CallInv'
  BY <1>0, <1>1, <1>4, <1>7 DEF CallInv, ok
<1>10. \A d \in Callers, i \in AlertIds, to \in AlertStatuses :
          /\ Assigned(d, i, to, {"time"}) => Assigned(d, i, to, {"time"})'
          /\ Assigned(d, i, to, {"time", "user"}) => Assigned(d, i, to, {"time", "user"})'
  BY <1>1, <1>7 DEF Assigned
<1>11. /\ alert[id].status # "open"
       /\ call[c].to = "acknowledged" => alert[id].by # NoUser
  BY <1>0, <1>1 DEF ObjectInv, OpenInv, UserInv
<1>12. OpenInv'
  BY <1>0, <1>1, <1>3, <1>4, <1>5, <1>7, <1>11 DEF ObjectInv, OpenInv
<1>13. AcknowledgedInv'
  BY <1>0, <1>1, <1>3, <1>5, <1>10, <1>11 DEF ObjectInv, AcknowledgedInv, AlertStatuses
<1>14. ResolvedInv'
  BY <1>0, <1>1, <1>3, <1>5, <1>10 DEF ObjectInv, ResolvedInv, AlertStatuses
<1>15. UserInv'
  <2> SUFFICES ASSUME NEW d \in Callers, call'[d].pc = "update", call'[d].to = "acknowledged"
               PROVE  alert'[call'[d].id].by # NoUser
    BY DEF UserInv
  <2>1. call'[d] = call[d] /\ call[d].id \in AlertIds
    BY <1>0, <1>4, <1>7 DEF CallInv
  <2>2. alert[call[d].id].by # NoUser
    BY <1>0, <2>1 DEF ObjectInv, UserInv
  <2> QED BY <1>3, <1>5, <2>1, <2>2
<1> QED BY <1>8, <1>9, <1>12, <1>13, <1>14, <1>15 DEF LifecycleInv, ObjectInv

LEMMA LifecycleStep == LifecycleInv /\ [AlertNext]_alertVars => LifecycleInv'
<1> SUFFICES ASSUME LifecycleInv, [AlertNext]_alertVars PROVE LifecycleInv'
  OBVIOUS
<1>1. CASE UNCHANGED alertVars
  BY <1>1 DEF alertVars, LifecycleInv, AlertTypeOK, CallInv, ObjectInv, OpenInv,
              AcknowledgedInv, ResolvedInv, UserInv, Assigned
<1>2. CASE StoreStep
  BY <1>2, StoreStepKeeps
<1>3. ASSUME NEW c \in Callers, NEW id \in AlertIds, NEW user \in Users,
             BeginAcknowledge(c, id, user)
      PROVE  LifecycleInv'
  <2>1. user # NoUser
    BY AlertAssumption
  <2> QED BY <1>3, <2>1, BeginKeeps DEF BeginAcknowledge
<1>4. ASSUME NEW c \in Callers, NEW id \in AlertIds, BeginResolve(c, id) PROVE LifecycleInv'
  BY <1>4, BeginKeeps DEF BeginResolve
<1>5. ASSUME NEW c \in Callers,
             AssignStatus(c) \/ AssignTime(c) \/ AssignUser(c) \/ UpdateStatus(c)
      PROVE  LifecycleInv'
  BY <1>5, AssignStatusKeeps, AssignTimeKeeps, AssignUserKeeps, UpdateStatusKeeps
<1> QED
  BY <1>1, <1>2, <1>3, <1>4, <1>5 DEF AlertNext, CallStep

LEMMA LifecycleInvariant == AlertSpec => []LifecycleInv
BY LifecycleInit, LifecycleStep, PTL DEF AlertSpec

-----------------------------------------------------------------------------
\* Alerts, objects and calls always have their types, however the calls overlap.
THEOREM AlertTypeCorrect == AlertSpec => []AlertTypeOK
<1>1. LifecycleInv => AlertTypeOK
  BY DEF LifecycleInv
<1> QED BY <1>1, LifecycleInvariant, PTL

\* With any number of concurrent calls, an alert nobody is working on has the
\* time and the user its status claims.
THEOREM EvidenceIsComplete == AlertSpec => []StatusHasEvidence
<1>1. LifecycleInv => StatusHasEvidence
  <2> SUFFICES ASSUME LifecycleInv, NEW id \in kept, ~Handled(id)
               PROVE  CASE alert[id].status = "open" ->
                              ~alert[id].acknowledgedAt /\ ~alert[id].resolvedAt
                        [] alert[id].status = "acknowledged" ->
                              alert[id].acknowledgedAt /\ alert[id].by # NoUser
                        [] alert[id].status = "resolved" -> alert[id].resolvedAt
    BY DEF StatusHasEvidence
  <2>1. id \in AlertIds /\ alert[id].status \in {"open", "acknowledged", "resolved"}
    BY CallRecords DEF LifecycleInv, AlertTypeOK, AlertStatuses
  <2>2. \A c \in Callers, to \in AlertStatuses :
           ~Assigned(c, id, to, {"time"}) /\ ~Assigned(c, id, to, {"time", "user"})
    BY DEF Handled, Assigned
  <2> QED
    BY <2>1, <2>2
       DEF LifecycleInv, ObjectInv, OpenInv, AcknowledgedInv, ResolvedInv, AlertStatuses
<1> QED BY <1>1, LifecycleInvariant, PTL

\* A call that reports an error has changed no alert that anyone can still get,
\* since a deleted or evicted alert never comes back.
THEOREM ErrorsLeaveNoTrace == AlertSpec => []FailedCallLeavesNoTrace
<1>1. LifecycleInv => FailedCallLeavesNoTrace
  BY DEF LifecycleInv, CallInv, FailedCallLeavesNoTrace
<1> QED BY <1>1, LifecycleInvariant, PTL

-----------------------------------------------------------------------------
(* The contract.                                                           *)

KeptBound == Cardinality(kept) <= IF MaxAlertRecords < 1 THEN 1 ELSE MaxAlertRecords

LEMMA KeptFinite ==
    ASSUME AlertTypeOK
    PROVE  IsFiniteSet(kept) /\ Cardinality(kept) \in Nat
BY AlertAssumption, FS_Subset, FS_CardinalityType DEF AlertTypeOK

\* Taking alerts away keeps the store within its bound.
LEMMA KeptSubset ==
    ASSUME AlertTypeOK, KeptBound, kept' \in SUBSET kept
    PROVE  KeptBound'
<1>1. /\ Cardinality(kept') <= Cardinality(kept)
      /\ Cardinality(kept) \in Nat
      /\ Cardinality(kept') \in Nat
  BY KeptFinite, FS_Subset, FS_CardinalityType
<1> QED BY <1>1, AlertAssumption DEF KeptBound

LEMMA RecordBounded ==
    ASSUME AlertTypeOK, KeptBound, NEW id \in AlertIds, NEW t \in TriggerTimes, Record(id, t)
    PROVE  KeptBound'
<1> DEFINE limit == IF MaxAlertRecords < 1 THEN 1 ELSE MaxAlertRecords
<1>1. limit \in Nat /\ IsFiniteSet(kept) /\ Cardinality(kept) <= limit
  BY AlertAssumption, KeptFinite DEF KeptBound
<1>2. PICK gone \in SUBSET kept :
         /\ MakesRoom(gone, kept, triggeredAt, MaxAlertRecords)
         /\ kept' = (kept \ gone) \cup {id}
  BY DEF Record
<1>3. Cardinality((kept \ gone) \cup {id}) <= limit
  <2> HIDE DEF limit
  <2>1. limit = IF MaxAlertRecords < 1 THEN 1 ELSE MaxAlertRecords
    BY DEF limit
  <2> QED BY <1>1, <1>2, <2>1, AlertAssumption, RoomForOne
<1> QED BY <1>2, <1>3 DEF KeptBound

\* What a caller does leaves the store as it is.
LEMMA CallStepStutters ==
    ASSUME NEW c \in Callers, CallStep(c) PROVE UNCHANGED <<kept, triggeredAt>>
BY DEF CallStep, BeginAcknowledge, BeginResolve, Begin, AssignStatus, AssignTime, AssignUser,
       Assign, UpdateStatus

LEMMA KeptBounded == AlertSpec => []KeptBound
<1>1. AlertInit => KeptBound
  <2>1. Cardinality({}) = 0
    BY FS_EmptySet
  <2> QED BY <2>1, AlertAssumption DEF AlertInit, KeptBound
<1>2. AlertTypeOK /\ KeptBound /\ [AlertNext]_alertVars => KeptBound'
  <2> SUFFICES ASSUME AlertTypeOK, KeptBound, [AlertNext]_alertVars PROVE KeptBound'
    OBVIOUS
  <2>1. CASE \E id \in AlertIds, t \in TriggerTimes : Record(id, t)
    BY <2>1, RecordBounded
  <2>2. ASSUME kept' \in SUBSET kept PROVE KeptBound'
    BY <2>2, KeptSubset
  <2>3. CASE \/ \E id \in AlertIds : DeleteAlert(id)
             \/ \E before \in TriggerTimes : DeleteOldAlerts(before)
             \/ CloseAlerts
             \/ \E c \in Callers : CallStep(c)
             \/ UNCHANGED alertVars
    BY <2>2, <2>3, CallStepStutters DEF DeleteAlert, DeleteOldAlerts, CloseAlerts, alertVars
  <2> QED BY <2>1, <2>3 DEF AlertNext, StoreStep
<1> QED BY <1>1, <1>2, AlertTypeCorrect, PTL DEF AlertSpec

\* The contract counts as AlertLifecycle does.
LEMMA ContractCardinality == \A S : AlertContract!Cardinality(S) = Cardinality(S)
BY DEF AlertContract!Cardinality, Cardinality

\* A Record is a Put of the contract.
LEMMA RecordIsPut ==
    ASSUME AlertTypeOK, KeptBound', NEW id \in AlertIds, NEW t \in TriggerTimes, Record(id, t)
    PROVE  AlertContract!Put(id, t)
<1>1. PICK gone \in SUBSET kept :
         /\ MakesRoom(gone, kept, triggeredAt, MaxAlertRecords)
         /\ kept' = (kept \ gone) \cup {id}
  BY DEF Record
<1>2. /\ gone = {} \/ Cardinality(kept) >= MaxAlertRecords
      /\ \A v \in gone, k \in kept \ gone : triggeredAt[v] <= triggeredAt[k]
  BY <1>1 DEF MakesRoom, IsEviction, Oldest
<1> QED
  BY <1>1, <1>2, ContractCardinality
     DEF Record, AlertContract!Put, AlertContract!Limit, KeptBound

\* With any number of callers the alert store implements the contract of a
\* bounded store: calls that hold an alert bring none back.
THEOREM AlertsRefine == AlertSpec => AlertsRefineBoundedStore
<1>1. AlertInit => AlertContract!StoreInit
  BY DEF AlertInit, AlertContract!StoreInit
<1>2. AlertTypeOK /\ KeptBound' /\ [AlertNext]_alertVars
        => [AlertContract!StoreNext]_(AlertContract!storeVars)
  <2> SUFFICES ASSUME AlertTypeOK, KeptBound', [AlertNext]_alertVars
               PROVE  AlertContract!StoreNext \/ UNCHANGED <<kept, triggeredAt>>
    BY DEF AlertContract!storeVars
  <2>1. ASSUME NEW id \in AlertIds, NEW t \in TriggerTimes, Record(id, t)
        PROVE  AlertContract!StoreNext
    BY <2>1, RecordIsPut DEF AlertContract!StoreNext
  <2>2. ASSUME kept' \in SUBSET kept, UNCHANGED triggeredAt PROVE AlertContract!StoreNext
    BY <2>2 DEF AlertContract!StoreNext, AlertContract!Discard
  <2>3. CASE \/ \E id \in AlertIds : DeleteAlert(id)
             \/ \E before \in TriggerTimes : DeleteOldAlerts(before)
             \/ CloseAlerts
    BY <2>2, <2>3 DEF DeleteAlert, DeleteOldAlerts, CloseAlerts
  <2>4. CASE UNCHANGED alertVars \/ \E c \in Callers : CallStep(c)
    BY <2>4, CallStepStutters DEF alertVars
  <2> QED BY <2>1, <2>3, <2>4 DEF AlertNext, StoreStep
<1>3. AlertSpec => [](AlertTypeOK /\ KeptBound)
  BY AlertTypeCorrect, KeptBounded, PTL
<1> QED
  BY <1>1, <1>2, <1>3, PTL DEF AlertSpec, AlertsRefineBoundedStore, AlertContract!StoreSpec
=============================================================================
