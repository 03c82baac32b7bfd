----------------------------- MODULE MCShutdown -----------------------------
(* Shutdown for TLC.                                                        *)
EXTENDS Shutdown
=============================================================================
