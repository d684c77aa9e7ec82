------------------------------ MODULE Exchange ------------------------------
(***************************************************************************)
(* One action between a client and its Controller: what the Manager        *)
(* returns for it (runtime/runtime.go), what the server writes and the     *)
(* client reads (runtime/transport.go), and what each client makes of it   *)
(* (cmd/pitot/main.go, deepseek_hook.go, internal/devinacp/client.go).     *)
(*                                                                         *)
(* A result is a response or none (some), with or without an error         *)
(* (fault).  mine: the response carries the action's id.  basis says where *)
(* the outcome comes from; nobody can read it off the wire.                *)
(***************************************************************************)

Result(some, fault, basis, outcome, mine) ==
  [some |-> some, fault |-> fault, basis |-> basis, outcome |-> outcome,
   mine |-> mine]

Doors == {"hook", "request", "devin", "deepseek"}

Results ==
  [some : BOOLEAN, fault : BOOLEAN,
   basis : {"none", "nobody", "reply", "default", "refused"},
   outcome : {"none", "allow", "deny"}, mine : BOOLEAN]

Failed == Result(FALSE, TRUE, "none", "none", FALSE)
Unseen == Result(FALSE, FALSE, "nobody", "none", FALSE)

(* What a worker resolves an action to: the Controller's reply, the        *)
(* declared default, or, for an action that is in flight or done, an empty *)
(* response.  The last two come with an error.                             *)
Resolutions(default) ==
  {Result(TRUE, FALSE, "reply", o, TRUE) : o \in {"allow", "deny"}}
    \cup {Result(TRUE, TRUE, "default", default, TRUE),
          Result(TRUE, TRUE, "refused", "none", FALSE)}

(* Without a Controller the action is only observed, unless one is         *)
(* required; a request has nobody to ask.                                  *)
Unrouted(door, strict) ==
  IF door \in {"deepseek", "request"} \/ strict THEN Failed ELSE Unseen

(* The explicit door takes a fault for an answer under no circumstances.   *)
Delivered(door, r) == IF door = "deepseek" /\ r.fault THEN Failed ELSE r

Written_Lenient(door, r) ==
  IF door = "deepseek" /\ r.fault THEN Failed ELSE IF r.some THEN r ELSE Unseen

(* The server: a response is written even with a fault, none with a fault  *)
(* is an HTTP error, none without one is 204.                              *)
Written(door, r) ==
  IF r.fault /\ (~r.some \/ door = "deepseek") THEN Failed ELSE r

(* The client: the explicit door takes no 204, and no incomplete envelope. *)
Received(door, r) == IF door = "deepseek" /\ ~r.some THEN Failed ELSE r

IsError(r) == ~r.some /\ r.fault

HookPasses(r) ==
  ~IsError(r) /\ (~r.some \/ (r.outcome = "allow" /\ r.mine))

DevinPasses(r) ==
  ~IsError(r) /\ (~r.some \/ r.outcome = "allow") /\ (r.some => r.mine)

RequestPasses(r) == r.some /\ r.outcome = "allow"

(* The decision the DeepSeek hook prints, with exit code 0 for an allow.   *)
DeepSeekPasses(r) == r.some /\ r.mine /\ r.outcome = "allow"

Passes(door, r) ==
  CASE door = "hook"     -> HookPasses(r)
    [] door = "devin"    -> DevinPasses(r)
    [] door = "request"  -> RequestPasses(r)
    [] door = "deepseek" -> DeepSeekPasses(r)
=============================================================================
