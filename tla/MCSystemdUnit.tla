---------------------------- MODULE MCSystemdUnit ----------------------------
(* SystemdUnit with a number small enough for TLC. *)
EXTENDS SystemdUnit
=============================================================================
