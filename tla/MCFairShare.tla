----------------------------- MODULE MCFairShare -----------------------------
(* FairShare for TLC: the .cfg file gives the constants their values. *)
EXTENDS FairShare
=============================================================================
