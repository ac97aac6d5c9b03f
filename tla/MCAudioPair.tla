----------------------------- MODULE MCAudioPair -----------------------------
(* AudioPair for TLC: the .cfg file gives the constants their values. *)
EXTENDS AudioPair
=============================================================================
