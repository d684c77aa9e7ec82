------------------------------- MODULE Router -------------------------------
(***************************************************************************)
(* bridge.Router: the static registrations, at most one controller per     *)
(* request kind, and the terminal resolutions given through Resolve and    *)
(* TimeoutResponse.  Both hold the router's mutex from beginning to end,   *)
(* so a call is one step.  A call that returns an error and no resolution  *)
(* (an invalid request or registration, ErrNoController, ErrDuplicate, a   *)
(* kind already bound) changes nothing and is no step.                     *)
(***************************************************************************)
EXTENDS Bridge

CONSTANTS
  Kinds,           \* request kinds
  ActionIds,
  Registrations,   \* valid registrations: [controller, onTimeout, onUnavailable]
  Unregistered,    \* a kind without a controller
  Replies,         \* candidate replies, [controller, id, outcome]
  ResolvedWindow,  \* resolvedWindow, 4096 in the source
  MaxResolutions   \* bound on the length of the history

ASSUME RouterAssumption ==
  /\ Registrations \subseteq [controller : STRING, onTimeout : Outcomes,
                              onUnavailable : Outcomes]
  /\ Unregistered \notin Registrations
  /\ Replies \subseteq [controller : STRING, id : ActionIds, outcome : Outcomes]
  /\ ResolvedWindow \in Nat \ {0}
  /\ MaxResolutions \in Nat

VARIABLES
  registrations,  \* kind -> its registration, or Unregistered
  window,         \* resolved and resolvedOrder
  log             \* the resolutions given so far, in order (history)

vars == <<registrations, window, log>>

Init ==
  /\ registrations = [k \in Kinds |-> Unregistered]
  /\ window = EmptyWindow
  /\ log = <<>>

Registered_Overwritten(k) == FALSE
Registered(k) == registrations[k] # Unregistered

Register(k) ==
  /\ ~Registered(k)
  /\ \E reg \in Registrations :
       registrations' = [registrations EXCEPT ![k] = reg]
  /\ UNCHANGED <<window, log>>

(* What Resolve and TimeoutResponse share: the action is marked resolved   *)
(* and the answer given.                                                   *)
Answer(k, id, ans) ==
  /\ registrations[k] # Unregistered
  /\ id \notin window.ids
  /\ Len(log) < MaxResolutions
  /\ window' = Push(window, id, ResolvedWindow)
  /\ log' = Append(log, [kind |-> k, id |-> id, answer |-> ans])
  /\ UNCHANGED registrations

ResolveUnavailable(k, id) ==
  Answer(k, id, UnavailableAnswer(registrations[k], "none"))

ResolveReply(k, id, reply) ==
  Answer(k, id, CandidateAnswer(registrations[k], id, reply))

TimeoutResponse(k, id) ==
  Answer(k, id, TimeoutAnswer(registrations[k], "none"))

Next ==
  \/ \E k \in Kinds : Register(k)
  \/ \E k \in Kinds, id \in ActionIds :
       \/ ResolveUnavailable(k, id)
       \/ TimeoutResponse(k, id)
       \/ \E reply \in Replies : ResolveReply(k, id, reply)

Spec == Init /\ [][Next]_vars

-----------------------------------------------------------------------------
Entry == [kind : Kinds, id : ActionIds, answer : Answers]

(* Every variable holds a value of its kind.                               *)
TypeOK ==
  /\ registrations \in [Kinds -> Registrations \cup {Unregistered}]
  /\ window \in [ids : SUBSET ActionIds, fifo : Seq(ActionIds)]
  /\ log \in Seq(Entry)

(* The duplicate-detection memory is exactly the latest resolutions, as    *)
(* many as the window holds: nothing recent is forgotten, nothing old is   *)
(* kept (bridge.go:50-80).                                                 *)
WindowIsLatest ==
  /\ Len(window.fifo) = IF Len(log) < ResolvedWindow THEN Len(log)
                                                     ELSE ResolvedWindow
  /\ \A i \in 1 .. Len(window.fifo) :
       window.fifo[i] = log[Len(log) - Len(window.fifo) + i].id
  /\ window.ids = {window.fifo[i] : i \in 1 .. Len(window.fifo)}

(* An action is resolved a second time only when at least a whole window   *)
(* of other actions was resolved in between (bridge.go:50-55, 133-137).    *)
DuplicateOnlyAfterWindow ==
  \A i, j \in 1 .. Len(log) :
    i < j /\ log[i].id = log[j].id => j - i > ResolvedWindow

(* A controller once bound to a kind stays bound: every resolution ever    *)
(* given under a kind is the declared default of, or a reply in the name   *)
(* of, the controller registered for it today (bridge.go:82-94).           *)
ResolutionsAreDeclared ==
  \A i \in 1 .. Len(log) :
    LET reg == registrations[log[i].kind]
        ans == log[i].answer
    IN  /\ reg # Unregistered
        /\ ans.by = "timeout" => ans.outcome = reg.onTimeout
        /\ ans.by = "unavailable" => ans.outcome = reg.onUnavailable
        /\ ans.by = "controller" =>
             \E reply \in Replies : /\ reply.controller = reg.controller
                                    /\ reply.id = log[i].id
                                    /\ reply.outcome = ans.outcome
=============================================================================
