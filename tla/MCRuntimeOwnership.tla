------------------------- MODULE MCRuntimeOwnership -------------------------
(* Constants for model-checking RuntimeOwnership.                          *)
EXTENDS RuntimeOwnership, TLC

Symmetry == Permutations(Starters) \cup Permutations(Ports)
=============================================================================
