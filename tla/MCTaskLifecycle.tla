-------------------------- MODULE MCTaskLifecycle --------------------------
(* Instances of TaskLifecycle for TLC. *)
EXTENDS TaskLifecycle, TLC

\* Clients are interchangeable in every safety property.
ClientSymmetry == Permutations(Clients)
=============================================================================
