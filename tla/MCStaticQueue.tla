---------------------------- MODULE MCStaticQueue ----------------------------
(* StaticQueue for TLC: the .cfg files give the constants their values. *)
EXTENDS StaticQueue
=============================================================================
