------------------------ MODULE MCControllerWorker -------------------------
(* Constants for model-checking ControllerWorker.                          *)
EXTENDS ControllerWorker, TLC

CONSTANTS c1, c2, c3, a1, a2, a3

(* The two defaults differ, so a swapped default shows.                    *)
MCRegistration ==
  [controller |-> "guard", onTimeout |-> "allow", onUnavailable |-> "deny"]

Reply(id, outcome) ==
  [controller |-> "guard", id |-> id, outcome |-> outcome]

(* The answer to a2, a reply to a1 in another name, and a line that does   *)
(* not decode: every call can meet a reply that is not its own.            *)
MCFrames ==
  {Malformed, Reply(a2, "allow"),
   [controller |-> "impostor", id |-> a1, outcome |-> "allow"]}

(* One reply only: stale for every call but its own.                        *)
MCLateFrames == {Reply(a1, "allow")}

(* Two calls for one action, or one each; the calls are interchangeable.   *)
MCSharedOrNot ==
  {w \in [Callers -> ActionIds] : \A c \in Callers : w[c] = a2}
    \cup {w \in [Callers -> ActionIds] : \E c, d \in Callers : w[c] # w[d]}

(* One action each.                                                        *)
MCDistinct ==
  {w \in [Callers -> ActionIds] : w[c1] = a1 /\ w[c2] = a2}

(* Calls are interchangeable.                                              *)
CallerSymmetry == Permutations(Callers)
=============================================================================
