----------------------------- MODULE MCDashboard -----------------------------
(* Dashboard with a few installations for TLC. *)
EXTENDS Dashboard, TLC

\* Every task has an id of its own, which nothing compares.
IdSymmetry == Permutations(Ids)
=============================================================================
