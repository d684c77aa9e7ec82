----------------------------- MODULE Resolution -----------------------------
(***************************************************************************)
(* What the controller path promises its callers (bridge/bridge.go:1-9 and *)
(* docs/runtime.md "Controller guarantees"): calls ask for the resolution  *)
(* of an action, every action gets one terminal resolution, and a call     *)
(* that is not given it is refused because another call is.                *)
(***************************************************************************)
CONSTANTS Calls, Outcomes

VARIABLES
  action,   \* the action each call asks about
  status,   \* "new", "pending", "resolved" or "refused"
  outcome   \* what a resolved call was told, "empty" for the others

vars == <<action, status, outcome>>

Statuses == {"new", "pending", "resolved", "refused"}

Init ==
  /\ status = [c \in Calls |-> "new"]
  /\ outcome = [c \in Calls |-> "empty"]

(* Another call for the same action is in one of the given states.         *)
Rival(c, S) ==
  \E d \in Calls \ {c} : action[d] = action[c] /\ status[d] \in S

Open(c) ==
  /\ status[c] = "new"
  /\ ~Rival(c, {"pending"})
  /\ status' = [status EXCEPT ![c] = "pending"]
  /\ UNCHANGED <<action, outcome>>

Resolve(c) ==
  /\ status[c] = "pending"
  /\ ~Rival(c, {"resolved"})
  /\ status' = [status EXCEPT ![c] = "resolved"]
  /\ \E o \in Outcomes : outcome' = [outcome EXCEPT ![c] = o]
  /\ UNCHANGED action

Refuse(c) ==
  /\ status[c] \in {"new", "pending"}
  /\ Rival(c, {"pending", "resolved"})
  /\ status' = [status EXCEPT ![c] = "refused"]
  /\ UNCHANGED <<action, outcome>>

Next == \E c \in Calls : Open(c) \/ Resolve(c) \/ Refuse(c)

Spec == Init /\ [][Next]_vars

-----------------------------------------------------------------------------
TypeOK ==
  /\ status \in [Calls -> Statuses]
  /\ outcome \in [Calls -> Outcomes \cup {"empty"}]

(* No action is resolved for two calls.                                    *)
OneResolution ==
  \A c, d \in Calls :
    /\ status[c] = "resolved" /\ status[d] = "resolved"
    /\ action[c] = action[d]
    => c = d
=============================================================================
