--------------------------- MODULE MCTaskScheduler ---------------------------
(* TaskScheduler for TLC: the .cfg files give the constants their values. *)
EXTENDS TaskScheduler
=============================================================================
