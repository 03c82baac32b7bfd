--------------------------- MODULE MCSchedulerLoop ---------------------------
(* SchedulerLoop for TLC.                                                   *)
EXTENDS SchedulerLoop
=============================================================================
