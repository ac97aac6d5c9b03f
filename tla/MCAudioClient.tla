---------------------------- MODULE MCAudioClient ----------------------------
(* AudioClient for TLC: the .cfg files give the constants their values. *)
EXTENDS AudioClient
=============================================================================
