------------------------------ MODULE MCRouter ------------------------------
(* Constants for model-checking Router.                                    *)
EXTENDS Router, TLC

CONSTANTS k1, k2, a1, a2, a3

(* Two controllers whose defaults differ from each other's.                *)
MCRegistrations ==
  {[controller |-> "guard", onTimeout |-> "allow", onUnavailable |-> "deny"],
   [controller |-> "tests", onTimeout |-> "deny", onUnavailable |-> "allow"]}

MCReplies ==
  {[controller |-> "guard", id |-> a1, outcome |-> "allow"],
   [controller |-> "tests", id |-> a1, outcome |-> "deny"]}

KindSymmetry == Permutations({k1, k2})
=============================================================================
