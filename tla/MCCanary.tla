------------------------------ MODULE MCCanary ------------------------------
(* Instances of Canary for TLC. *)
EXTENDS Canary, TLC

CONSTANTS p1, p2, v1, v2

Symmetry == Permutations(Procs) \cup Permutations(Releases)
=============================================================================
