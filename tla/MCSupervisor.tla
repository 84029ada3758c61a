----------------------------- MODULE MCSupervisor -----------------------------
(* Supervisor with numbers small enough for TLC. *)
EXTENDS Supervisor
=============================================================================
