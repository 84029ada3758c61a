---------------------------- MODULE MCNetworkRules ----------------------------
(* One group that protects, two that capture, one downstream interface.    *)
EXTENDS NetworkRules, TLC

\* The groups of a kind, and the interfaces, differ in name only.
Sym == Permutations(Guards) \cup Permutations(Captures) \cup Permutations(Interfaces)
=============================================================================
