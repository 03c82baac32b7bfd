------------------------------ MODULE LogPaging ------------------------------
(***************************************************************************)
(* A client of GET /api/logs that reads page after page (LogStore, one call  *)
(* of Query for each page) while entries come and go.  Query ranges over a   *)
(* map and sorts with sort.Slice, which is not stable: each call puts        *)
(* entries of one timestamp in an order of its own.                         *)
(***************************************************************************)
EXTENDS LogStore

CONSTANT WalkLimit   \* the limit of every page of the walk

ASSUME PagingAssumption == WalkLimit \in Nat \ {0}

VARIABLE walk        \* the pages the client has read

pagingVars == <<vars, walk>>

-----------------------------------------------------------------------------
\* "quiet": nothing was written since the first page; "separated": every page
\* read so far ended between two timestamps.
FirstPage == [offset |-> 0, seen |-> {}, quiet |-> TRUE, separated |-> TRUE]

PagingInit == Init /\ walk = FirstPage

\* The k newest entries of M are the same in every order.
Separated(M, k) ==
    \/ k >= Cardinality(M)
    \/ \E e \in M : Cardinality({x \in M : stamp[x] >= stamp[e]}) = k

\* Query, with the offset behind the last page.
NextPage ==
    LET M == Matching(0)
        end == walk.offset + WalkLimit IN
    /\ Unlocked
    /\ walk.offset < Cardinality(Ids)
    /\ \E P \in SUBSET M :
          /\ IsPage(P, M, WalkLimit, walk.offset)
          /\ walk' = [walk EXCEPT !.offset = end,
                                  !.seen = @ \cup P,
                                  !.separated = @ /\ Separated(M, end)]
    /\ UNCHANGED vars

StartAgain ==
    /\ walk # FirstPage
    /\ walk' = FirstPage
    /\ UNCHANGED vars

Written ==
    /\ \/ \E e \in Entry : Store(e)
       \/ \E id \in Ids : Delete(id)
    /\ walk' = [walk EXCEPT !.quiet = FALSE]

PagingNext == NextPage \/ StartAgain \/ Written

PagingSpec == PagingInit /\ [][PagingNext]_pagingVars

-----------------------------------------------------------------------------
\* Pages at consecutive offsets repeat no entry, leave none out and go from new
\* to old, if nothing is written in between and no page ends within a timestamp
\* (memory_log_store.go:98-112); otherwise they may do both.
PagesPartition ==
    walk.quiet /\ walk.separated =>
        LET M == Matching(0) IN
        /\ walk.seen \subseteq M
        /\ Cardinality(walk.seen) = IF walk.offset > Cardinality(M) THEN Cardinality(M)
                                    ELSE walk.offset
        /\ Oldest(M \ walk.seen, M, stamp)
=============================================================================
