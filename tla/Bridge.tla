------------------------------- MODULE Bridge -------------------------------
(***************************************************************************)
(* What bridge/bridge.go answers, as operators: the correlation check of a *)
(* controller's reply and the answer a pending action receives.  Router    *)
(* and ControllerWorker both build on these.                               *)
(*                                                                         *)
(* A reply frame is [controller, id, outcome]; decoding and the schema     *)
(* checks happen before it gets here, so a frame that does not decode is   *)
(* the model value Malformed of the worker and never a reply.              *)
(***************************************************************************)
EXTENDS Window

Outcomes == {"allow", "deny"}

(***************************************************************************)
(* Where an answer comes from.  The source returns only the outcome and an *)
(* error; "by" is kept so that properties can tell a controller's decision *)
(* from a default that happens to have the same outcome.                   *)
(***************************************************************************)
Sources == {"controller", "timeout", "unavailable", "none"}

(* err is "none", "duplicate" (bridge.ErrDuplicate is among the joined     *)
(* errors) or "cause" (any other error).                                   *)
Errors == {"none", "duplicate", "cause"}

Answers == [outcome : Outcomes \cup {"empty"}, by : Sources, err : Errors]

(* schema.ControlResponse{} with ErrDuplicate.                             *)
DuplicateAnswer == [outcome |-> "empty", by |-> "none", err |-> "duplicate"]

TimeoutAnswer_Swapped(reg, err) ==
  [outcome |-> reg.onUnavailable, by |-> "timeout", err |-> err]

TimeoutAnswer_Unset(reg, err) ==
  [outcome |-> "unset", by |-> "timeout", err |-> err]

TimeoutAnswer(reg, err) ==
  [outcome |-> reg.onTimeout, by |-> "timeout", err |-> err]

UnavailableAnswer(reg, err) ==
  [outcome |-> reg.onUnavailable, by |-> "unavailable", err |-> err]

(* validateResponse: the reply names this controller and this action.      *)
Correlated_NameOnly(reg, id, reply) == reply.controller = reg.controller

Correlated(reg, id, reply) ==
  /\ reply.controller = reg.controller
  /\ reply.id = id

(* Router.Resolve with a candidate, for an action not resolved before.     *)
CandidateAnswer(reg, id, reply) ==
  IF Correlated(reg, id, reply)
    THEN [outcome |-> reply.outcome, by |-> "controller", err |-> "none"]
    ELSE UnavailableAnswer(reg, "cause")
=============================================================================
