--------------------------- MODULE MCHydrateSlot ---------------------------
(* Constants for model-checking HydrateSlot.                               *)
EXTENDS HydrateSlot, TLC

CONSTANTS v1, v2, old, new

(* Two releases that speak different protocols.                            *)
MCVersions == {v1, v2}
MCProtocols == {old, new}
MCSpeaks == v1 :> old @@ v2 :> new

Symmetry == Permutations(Procs)
=============================================================================
