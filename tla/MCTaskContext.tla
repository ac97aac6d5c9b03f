----------------------------- MODULE MCTaskContext -----------------------------
(* TaskContext for TLC: the .cfg file gives the constants their values. *)
EXTENDS TaskContext
=============================================================================
