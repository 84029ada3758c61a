------------------------ MODULE MCConfigTransaction ------------------------
(* ConfigTransaction with numbers small enough for TLC. *)
EXTENDS ConfigTransaction
=============================================================================
