---------------------------- MODULE BoundedStore ----------------------------
(***************************************************************************)
(* What MemoryLogStore and MemoryAlertStore promise: a store of bounded     *)
(* size that drops old items, and only when it is full, to take new ones.   *)
(* How much is dropped, and who calls when, is left open.                   *)
(***************************************************************************)
EXTENDS Integers, FiniteSets

CONSTANTS
    Ids,       \* identities of items; an identity is used once
    Times,     \* timestamps
    NoStamp,   \* the timestamp of an item that does not exist yet
    Capacity   \* the configured maximum

VARIABLES
    present,   \* the items in the store
    stamp      \* the timestamp of every item there has been

storeVars == <<present, stamp>>

\* A store of capacity 0 still keeps the item it was given last.
Limit == IF Capacity < 1 THEN 1 ELSE Capacity

StoreInit ==
    /\ present = {}
    /\ stamp = [id \in Ids |-> NoStamp]

\* A new item comes in, and is in the store afterwards however old it is; the
\* items that go for it are none newer than those that stay, and none goes
\* while there is room.
Put(id, t) ==
    /\ stamp[id] = NoStamp
    /\ stamp' = [stamp EXCEPT ![id] = t]
    /\ \E gone \in SUBSET present :
          /\ gone = {} \/ Cardinality(present) >= Capacity
          /\ \A v \in gone, k \in present \ gone : stamp[v] <= stamp[k]
          /\ present' = (present \ gone) \cup {id}
    /\ Cardinality(present') <= Limit

\* Items are deleted, expire, or go with Close.
Discard ==
    /\ present' \in SUBSET present
    /\ UNCHANGED stamp

StoreNext == Discard \/ \E id \in Ids, t \in Times : Put(id, t)

StoreSpec == StoreInit /\ [][StoreNext]_storeVars
=============================================================================
