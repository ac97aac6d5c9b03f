---------------------------- MODULE MCAudioServer ----------------------------
(* AudioServer for TLC: the .cfg files give the constants their values. *)
EXTENDS AudioServer
=============================================================================
