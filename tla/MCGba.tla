------------------------------- MODULE MCGba -------------------------------
(* Instances of GbaClients for TLC. *)
EXTENDS GbaClients, TLC

Symmetry == Permutations(Sessions) \union Permutations(Runs)
=============================================================================
