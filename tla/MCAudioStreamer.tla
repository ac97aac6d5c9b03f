--------------------------- MODULE MCAudioStreamer ---------------------------
(* AudioStreamer for TLC: the .cfg files give the constants their values. *)
EXTENDS AudioStreamer
=============================================================================
