------------------------------- MODULE MCLoops -------------------------------
(* SchedulerLoop and Cleanup for TLC: the two background loops.  They share *)
(* nothing, so a behaviour exercises one of them, and the other stands still. *)
EXTENDS SchedulerLoop, Cleanup

VARIABLE exercised

LoopsInit ==
    /\ LoopInit
    /\ CleanupInit
    /\ exercised \in {"scheduler", "cleanup"}

LoopsNext ==
    \/ exercised = "scheduler" /\ LoopNext /\ UNCHANGED <<cleanupVars, exercised>>
    \/ exercised = "cleanup" /\ CleanupNext /\ UNCHANGED <<loopVars, exercised>>

LoopsSpec ==
    /\ LoopsInit
    /\ [][LoopsNext]_<<loopVars, cleanupVars, exercised>>
    /\ LoopFairness
    /\ CleanupFairness

\* The variables of both loops have their types.
LoopsTypeOK == LoopTypeOK /\ CleanupTypeOK
=============================================================================
