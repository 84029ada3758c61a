----------------------------- MODULE MCUninstall -----------------------------
(* Uninstall with numbers small enough for TLC. *)
EXTENDS Uninstall, TLC

Symmetry == Permutations(Clients)
=============================================================================
