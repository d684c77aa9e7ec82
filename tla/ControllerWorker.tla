-------------------------- MODULE ControllerWorker --------------------------
(***************************************************************************)
(* runtime/runtime.go: one controllerWorker, the callers that resolve      *)
(* control requests through it (Manager.Request, Manager.deliverEvent),    *)
(* its writer, reader and wait goroutines, and the controller child        *)
(* process at the other end of its two pipes.                              *)
(*                                                                         *)
(* Each step of a goroutine between two points where another one can see   *)
(* or change shared state is one action.  The child is external: it may    *)
(* emit any frame of ChildFrames at any time, so late, duplicate,          *)
(* unsolicited, mismatched and malformed replies all occur, and it may     *)
(* exit at any time.                                                       *)
(***************************************************************************)
EXTENDS Bridge

CONSTANTS
  Callers,         \* calls to Request/deliverEvent, one goroutine each
  ActionIds,       \* action IDs
  Workload,        \* the actions of the calls; two may carry the same one
  Registration,    \* [controller, onTimeout, onUnavailable]
  ChildFrames,     \* what the child may write: replies, and maybe Malformed
  Malformed,       \* a line of the child that does not decode, a read error
  Free,            \* the controller slot is not taken
  ResolvedWindow,  \* bridge.resolvedWindow, 4096 in the source
  RememberWindow,  \* the worker's window, 1024 in the source
  ResponseCap,     \* capacity of the responses channel, 16 in the source
  PipeCap          \* frames that fit in an operating-system pipe

ReplyFrame == [controller : {Registration.controller, "impostor"},
               id : ActionIds, outcome : Outcomes]

ASSUME WorkerAssumption ==
  /\ Registration \in [controller : STRING, onTimeout : Outcomes,
                       onUnavailable : Outcomes]
  /\ Registration.controller # "impostor"
  /\ Workload \subseteq [Callers -> ActionIds]
  /\ ChildFrames \subseteq ReplyFrame \cup {Malformed}
  /\ Malformed \notin ReplyFrame
  /\ Free \notin Callers
  /\ {ResolvedWindow, RememberWindow, ResponseCap, PipeCap} \subseteq Nat \ {0}

VARIABLES
  action,      \* the action ID of each call
  pc,          \* where each call is in resolveMode
  expired,     \* the deadline of the call has passed
  cancelled,   \* the context of the call is done
  answer,      \* what the call returned
  pending,     \* controllerWorker.pending
  slot,        \* the caller that holds controllerWorker.slot, or Free
  wctx,        \* controllerWorker.ctx is done
  stdinClosed, \* controllerWorker.stdin is closed, or was never opened
  startErr,    \* controllerWorker.startErr is set
  writer,      \* the goroutine that runs protocol.WriteLine
  stdin,       \* how many request frames the child has not read yet
  child,       \* the child process; deaf: it has closed its input
  stdout,      \* frames of the child in the pipe or in the scanner's buffer
  emitted,     \* every reply the child wrote so far (history)
  sent,        \* the action IDs whose frame was written whole (history)
  torn,        \* a write failed: its frame may be partial (history)
  reader,      \* the goroutine that runs readResponses
  responses,   \* controllerWorker.responses
  done,        \* controllerWorker.done
  remembered,  \* controllerWorker.resolved and resolvedFIFO
  router       \* Router.resolved and resolvedOrder

callerVars == <<pc, answer, pending, slot, router>>
clockVars == <<expired, cancelled>>
retireVars == <<wctx, stdinClosed, startErr>>
childVars == <<stdin, child, stdout, emitted, sent, torn>>
readVars  == <<reader, responses, done>>

vars == <<action, callerVars, clockVars, retireVars, writer, childVars,
          readVars, remembered>>

-----------------------------------------------------------------------------
(* The places of a call in resolveMode.  A call holds the slot in Critical.*)
Joining  == {"joinDeadline", "joinCancel", "joinShutdown"}
Critical == {"holding", "starting", "writing", "looping", "selecting"}
              \cup Joining
InFlight == {"admitted", "waiting"} \cup Critical
Places   == {"idle", "done"} \cup InFlight

NoAnswer == [outcome |-> "empty", by |-> "none", err |-> "none"]

(***************************************************************************)
(* newControllerWorker: either the child started, or one of StdoutPipe,    *)
(* StdinPipe and Start failed and the worker is unavailable from the       *)
(* beginning.  The calls and their action IDs are arbitrary.               *)
(***************************************************************************)
Init ==
  /\ action \in Workload
  /\ pc = [c \in Callers |-> "idle"]
  /\ expired = [c \in Callers |-> FALSE]
  /\ cancelled = [c \in Callers |-> FALSE]
  /\ answer = [c \in Callers |-> NoAnswer]
  /\ pending = {}
  /\ slot = Free
  /\ startErr \in BOOLEAN
  /\ wctx = startErr
  /\ stdinClosed = startErr
  /\ writer = "none"
  /\ stdin = 0
  /\ child = IF startErr THEN "exited" ELSE "running"
  /\ stdout = <<>>
  /\ emitted = {}
  /\ sent = {}
  /\ torn = FALSE
  /\ reader = IF startErr THEN "stopped" ELSE "scanning"
  /\ responses = <<>>
  /\ done = IF startErr THEN "taken" ELSE "open"
  /\ remembered = EmptyWindow
  /\ router = EmptyWindow

-----------------------------------------------------------------------------
(* Pieces of resolveMode                                                   *)

(***************************************************************************)
(* requireReply (DeliverControlledEvent) does not steer the call: the      *)
(* deferred check adds an error to an answer that is not the controller's  *)
(* own, and deliverEvent then hands on no response.  So answer keeps what  *)
(* resolveMode would return otherwise, and Granted tells whether a call    *)
(* made one way or the other is handed a response.                         *)
(***************************************************************************)
ExplicitReply(ans) == ans.by = "controller" /\ ans.err = "none"

Granted(ans, explicit) == explicit => ExplicitReply(ans)

(* Variants named X_Fault are X with a plausible mistake in it; a property *)
(* that no such variant can break would say nothing about the code.        *)

(* The router still remembers the call's action as resolved.               *)
Resolved_Ignored(c) == FALSE
Resolved(c) == action[c] \in router.ids

(***************************************************************************)
(* The call asks the router for its terminal answer and returns: the       *)
(* router answers ErrDuplicate for an action it remembers, and otherwise   *)
(* marks the action and gives ans; the deferred calls free the slot and    *)
(* delete the pending entry.                                               *)
(***************************************************************************)
Finish(c, ans) ==
  /\ answer' = [answer EXCEPT ![c] =
                  IF Resolved(c) THEN DuplicateAnswer ELSE ans]
  /\ router' = IF Resolved(c) THEN router
                 ELSE Push(router, action[c], ResolvedWindow)
  /\ pc' = [pc EXCEPT ![c] = "done"]
  /\ pending' = pending \ {action[c]}
  /\ slot' = IF slot = c THEN Free ELSE slot

Timeout(c, err)     == Finish(c, TimeoutAnswer(Registration, err))
Unavailable(c, err) == Finish(c, UnavailableAnswer(Registration, err))

Move(c, to) ==
  /\ pc' = [pc EXCEPT ![c] = to]
  /\ UNCHANGED <<answer, pending, router>>

(* controllerWorker.remember                                               *)
Remember_Skipped(c) == UNCHANGED remembered
Remember(c) == remembered' = Push(remembered, action[c], RememberWindow)

(* startErr is set and close() cancels the worker context and closes stdin.*)
Retire ==
  /\ startErr' = TRUE
  /\ wctx' = TRUE
  /\ stdinClosed' = TRUE

-----------------------------------------------------------------------------
(* Admission and the slot                                                  *)

(* pending.LoadOrStore finds the action of a call in flight.               *)
Duplicate_Unseen(c) == FALSE
Duplicate(c) == action[c] \in pending

(* Admission.  The deadline starts to run here.                            *)
Admit(c) ==
  /\ pc[c] = "idle"
  /\ \/ /\ Duplicate(c)
        /\ answer' = [answer EXCEPT ![c] = DuplicateAnswer]
        /\ pc' = [pc EXCEPT ![c] = "done"]
        /\ UNCHANGED pending
     \/ /\ ~Duplicate(c)
        /\ pending' = pending \cup {action[c]}
        /\ pc' = [pc EXCEPT ![c] = "admitted"]
        /\ UNCHANGED answer
  /\ UNCHANGED <<slot, router, action, clockVars, retireVars, writer,
                 childVars, readVars, remembered>>

SlotFree_Unchecked == TRUE
SlotFree == slot = Free

(* The context check after admission and the first attempt at the slot.    *)
Enter(c) ==
  /\ pc[c] = "admitted"
  /\ \/ /\ cancelled[c]
        /\ Timeout(c, "cause")
     \/ /\ ~cancelled[c]
        /\ SlotFree
        /\ slot' = c
        /\ Move(c, "holding")
     \/ /\ ~cancelled[c]
        /\ ~SlotFree
        /\ UNCHANGED slot
        /\ Move(c, "waiting")
  /\ UNCHANGED <<action, clockVars, retireVars, writer, childVars, readVars,
                 remembered>>

(* The select of a call that found the slot taken.                         *)
Wait(c) ==
  /\ pc[c] = "waiting"
  /\ \/ /\ SlotFree
        /\ slot' = c
        /\ Move(c, "holding")
     \/ expired[c] /\ Timeout(c, "none")
     \/ cancelled[c] /\ Timeout(c, "cause")
     \/ wctx /\ Unavailable(c, "cause")
  /\ UNCHANGED <<action, clockVars, retireVars, writer, childVars, readVars,
                 remembered>>

(* The child's input is usable: neither retired, nor never started, nor    *)
(* shut down.                                                              *)
Usable == ~startErr /\ ~wctx

(* The checks a call makes with the slot in hand.  None of the early       *)
(* returns remembers the action: it never reached the child.               *)
Dispatch(c) ==
  /\ pc[c] = "holding"
  /\ \/ cancelled[c] /\ Timeout(c, "cause")
     \/ ~cancelled[c] /\ expired[c] /\ Timeout(c, "none")
     \/ ~cancelled[c] /\ ~expired[c] /\ ~Usable /\ Unavailable(c, "cause")
     \/ /\ ~cancelled[c] /\ ~expired[c] /\ Usable
        /\ UNCHANGED slot
        /\ Move(c, "starting")
  /\ UNCHANGED <<action, clockVars, retireVars, writer, childVars, readVars,
                 remembered>>

(* The goroutine of the write starts, whatever became of the child, of the *)
(* context or of the runtime since the checks.                             *)
StartWrite(c) ==
  /\ pc[c] = "starting"
  /\ writer' = "active"
  /\ UNCHANGED slot
  /\ Move(c, "writing")
  /\ UNCHANGED <<action, clockVars, retireVars, childVars, readVars,
                 remembered>>

-----------------------------------------------------------------------------
(* The write                                                               *)

(* protocol.WriteLine succeeds: the frame is in the pipe.                  *)
WriteFrame ==
  /\ writer = "active"
  /\ ~stdinClosed
  /\ child = "running"
  /\ stdin < PipeCap
  /\ stdin' = stdin + 1
  /\ sent' = sent \cup {action[slot]}
  /\ writer' = "ok"
  /\ UNCHANGED <<action, callerVars, clockVars, retireVars, child, stdout,
                 emitted, torn, readVars, remembered>>

(* It fails once the pipe is closed at either end, whole or half written.  *)
WriteFail ==
  /\ writer = "active"
  /\ stdinClosed \/ child # "running"
  /\ writer' = "failed"
  /\ torn' = TRUE
  /\ UNCHANGED <<action, callerVars, clockVars, retireVars, stdin, child,
                 stdout, emitted, sent, readVars, remembered>>

(* The select takes the result of the write.                               *)
Written_KeepsTransport(c) ==
  /\ pc[c] = "writing"
  /\ writer' = "none"
  /\ UNCHANGED retireVars
  /\ \/ writer = "ok" /\ UNCHANGED <<slot, remembered>> /\ Move(c, "looping")
     \/ writer = "failed" /\ Remember(c) /\ Unavailable(c, "cause")
  /\ UNCHANGED <<action, clockVars, childVars, readVars>>
Written(c) ==
  /\ pc[c] = "writing"
  /\ writer' = "none"
  /\ \/ /\ writer = "ok"
        /\ UNCHANGED <<slot, retireVars, remembered>>
        /\ Move(c, "looping")
     \/ /\ writer = "failed"
        /\ Retire
        /\ Remember(c)
        /\ Unavailable(c, "cause")
  /\ UNCHANGED <<action, clockVars, childVars, readVars>>

(* The select takes the deadline, the caller or the shutdown instead:      *)
(* interruptWrite retires the transport and joins the writer.              *)
Interrupt(c) ==
  /\ pc[c] = "writing"
  /\ Retire
  /\ UNCHANGED slot
  /\ \/ expired[c] /\ Move(c, "joinDeadline")
     \/ cancelled[c] /\ Move(c, "joinCancel")
     \/ wctx /\ Move(c, "joinShutdown")
  /\ UNCHANGED <<action, clockVars, writer, childVars, readVars, remembered>>

(* <-written in interruptWrite, then the answer.                           *)
Join_Skipped(c) ==
  /\ Remember(c)
  /\ pc[c] \in Joining /\ Timeout(c, "none")
  /\ UNCHANGED <<action, clockVars, retireVars, writer, childVars, readVars>>
Join(c) ==
  /\ writer \in {"ok", "failed"}
  /\ writer' = "none"
  /\ Remember(c)
  /\ \/ pc[c] = "joinDeadline" /\ Timeout(c, "none")
     \/ pc[c] = "joinCancel" /\ Timeout(c, "cause")
     \/ pc[c] = "joinShutdown" /\ Unavailable(c, "cause")
  /\ UNCHANGED <<action, clockVars, retireVars, childVars, readVars>>

-----------------------------------------------------------------------------
(* The response loop                                                       *)

(* The checks at the head of every iteration.                              *)
Loop_Unchecked(c) ==
  /\ pc[c] = "looping"
  /\ UNCHANGED <<slot, remembered>>
  /\ Move(c, "selecting")
  /\ UNCHANGED <<action, clockVars, retireVars, writer, childVars, readVars>>
Loop(c) ==
  /\ pc[c] = "looping"
  /\ \/ /\ cancelled[c]
        /\ Remember(c)
        /\ Timeout(c, "cause")
     \/ /\ ~cancelled[c] /\ expired[c]
        /\ Remember(c)
        /\ Timeout(c, "none")
     \/ /\ ~cancelled[c] /\ ~expired[c]
        /\ UNCHANGED <<slot, remembered>>
        /\ Move(c, "selecting")
  /\ UNCHANGED <<action, clockVars, retireVars, writer, childVars, readVars>>

(* A reply to an action this worker remembers is dropped.                  *)
Stale(c, reply) == reply.id # action[c] /\ reply.id \in remembered.ids

(* The select takes a result from the responses channel.                   *)
Receive(c) ==
  /\ pc[c] = "selecting"
  /\ responses # <<>>
  /\ responses' = Tail(responses)
  /\ LET result == Head(responses) IN
       \/ /\ result = Malformed
          /\ Retire
          /\ Remember(c)
          /\ Unavailable(c, "cause")
       \/ /\ result # Malformed
          /\ Stale(c, result)
          /\ UNCHANGED <<slot, retireVars, remembered>>
          /\ Move(c, "looping")
       \/ /\ result # Malformed
          /\ ~Stale(c, result)
          /\ UNCHANGED retireVars
          /\ Remember(c)
          /\ Finish(c, CandidateAnswer(Registration, action[c], result))
  /\ UNCHANGED <<action, clockVars, writer, childVars, reader, done>>

(* The select takes one of its other cases.                                *)
Exited(c) ==
  /\ pc[c] = "selecting"
  /\ done = "ready"
  /\ done' = "taken"
  /\ Retire
  /\ Remember(c)
  /\ Unavailable(c, "cause")
  /\ UNCHANGED <<action, clockVars, writer, childVars, reader, responses>>

StopWaiting(c) ==
  /\ pc[c] = "selecting"
  /\ Remember(c)
  /\ \/ expired[c] /\ Timeout(c, "none")
     \/ cancelled[c] /\ Timeout(c, "cause")
     \/ wctx /\ Unavailable(c, "cause")
  /\ UNCHANGED <<action, clockVars, retireVars, writer, childVars, readVars>>

-----------------------------------------------------------------------------
(* The caller's clock and context                                          *)

Expire(c) ==
  /\ pc[c] \in InFlight
  /\ ~expired[c]
  /\ expired' = [expired EXCEPT ![c] = TRUE]
  /\ UNCHANGED <<action, callerVars, cancelled, retireVars, writer,
                 childVars, readVars, remembered>>

Cancel(c) ==
  /\ pc[c] \in InFlight
  /\ ~cancelled[c]
  /\ cancelled' = [cancelled EXCEPT ![c] = TRUE]
  /\ UNCHANGED <<action, callerVars, expired, retireVars, writer, childVars,
                 readVars, remembered>>

-----------------------------------------------------------------------------
(* The reader and wait goroutines                                          *)

(* readResponses forwards one line; it returns after one that does not     *)
(* decode.                                                                 *)
ReadResponse ==
  /\ reader = "scanning"
  /\ stdout # <<>>
  /\ Len(responses) < ResponseCap
  /\ responses' = Append(responses, Head(stdout))
  /\ stdout' = Tail(stdout)
  /\ reader' = IF Head(stdout) = Malformed THEN "stopped" ELSE "scanning"
  /\ UNCHANGED <<action, callerVars, clockVars, retireVars, writer, stdin,
                 child, emitted, sent, torn, done, remembered>>

(* The worker context is done while a line waits to be forwarded.          *)
ReaderQuits ==
  /\ reader = "scanning"
  /\ stdout # <<>>
  /\ wctx
  /\ stdout' = Tail(stdout)
  /\ reader' = "stopped"
  /\ UNCHANGED <<action, callerVars, clockVars, retireVars, writer, stdin,
                 child, emitted, sent, torn, responses, done, remembered>>

(* End of the child's output: a clean end of file is silent; a read that   *)
(* meets the pipe end cmd.Wait closed is reported like a malformed line,   *)
(* unless the worker context is done.                                      *)
ReaderEnds ==
  /\ reader = "scanning"
  /\ stdout = <<>>
  /\ child = "exited"
  /\ reader' = "stopped"
  /\ \/ UNCHANGED responses
     \/ /\ done # "open"
        /\ Len(responses) < ResponseCap
        /\ responses' = Append(responses, Malformed)
  /\ UNCHANGED <<action, callerVars, clockVars, retireVars, writer,
                 childVars, done, remembered>>

(* cmd.Wait returns: it closes the read end of the output pipe, and what   *)
(* the scanner has not read into its buffer yet is lost.                   *)
WaitReturns ==
  /\ child = "exited"
  /\ done = "open"
  /\ done' = "ready"
  /\ \E n \in 0 .. Len(stdout) : stdout' = SubSeq(stdout, 1, n)
  /\ UNCHANGED <<action, callerVars, clockVars, retireVars, writer, stdin,
                 child, emitted, sent, torn, reader, responses, remembered>>

-----------------------------------------------------------------------------
(* Manager.Close: the manager's context ends first, then the worker closes *)
(* the child's standard input.                                             *)

Shutdown ==
  /\ ~wctx
  /\ wctx' = TRUE
  /\ UNCHANGED <<action, callerVars, clockVars, stdinClosed, startErr,
                 writer, childVars, readVars, remembered>>

CloseStdin ==
  /\ wctx
  /\ ~stdinClosed
  /\ stdinClosed' = TRUE
  /\ UNCHANGED <<action, callerVars, clockVars, wctx, startErr, writer,
                 childVars, readVars, remembered>>

-----------------------------------------------------------------------------
(* The child process (external)                                            *)

ChildRead ==
  /\ child = "running"
  /\ stdin > 0
  /\ stdin' = stdin - 1
  /\ UNCHANGED <<action, callerVars, clockVars, retireVars, writer, child,
                 stdout, emitted, sent, torn, readVars, remembered>>

(* Bound: what it writes after the last call returned has no reader.       *)
ChildEmit(frame) ==
  /\ child # "exited"
  /\ \E c \in Callers : pc[c] # "done"
  /\ Len(stdout) < PipeCap
  /\ stdout' = Append(stdout, frame)
  /\ emitted' = emitted \cup ({frame} \ {Malformed})
  /\ UNCHANGED <<action, callerVars, clockVars, retireVars, writer, stdin,
                 child, sent, torn, readVars, remembered>>

(* It closes its end of the request pipe, unread frames and all, and goes  *)
(* on.                                                                     *)
ChildCloses ==
  /\ child = "running"
  /\ child' = "deaf"
  /\ stdin' = 0
  /\ UNCHANGED <<action, callerVars, clockVars, retireVars, writer, stdout,
                 emitted, sent, torn, readVars, remembered>>

(* It exits by itself, or exec.CommandContext kills it.                    *)
ChildExit ==
  /\ child # "exited"
  /\ child' = "exited"
  /\ stdin' = 0
  /\ UNCHANGED <<action, callerVars, clockVars, retireVars, writer, stdout,
                 emitted, sent, torn, readVars, remembered>>

-----------------------------------------------------------------------------
(* The bounded model stops when every call has returned and the child, its *)
(* reader and its wait goroutine are gone.                                 *)
Quiescent ==
  /\ \A c \in Callers : pc[c] = "done"
  /\ wctx /\ stdinClosed
  /\ child = "exited" /\ reader = "stopped" /\ done # "open"
  /\ UNCHANGED vars

CallerStep(c) ==
  \/ Admit(c) \/ Enter(c) \/ Wait(c) \/ Dispatch(c) \/ StartWrite(c)
  \/ Written(c) \/ Interrupt(c) \/ Join(c) \/ Loop(c) \/ Receive(c) \/ Exited(c)
  \/ StopWaiting(c)

Environment ==
  \/ \E c \in Callers : Expire(c) \/ Cancel(c)
  \/ \E frame \in ChildFrames : ChildEmit(frame)
  \/ ChildRead
  \/ ChildCloses
  \/ ChildExit
  \/ Shutdown
  \/ CloseStdin

Goroutines == WriteFrame \/ WriteFail \/ ReadResponse \/ ReaderQuits
                \/ ReaderEnds \/ WaitReturns

Next ==
  \/ \E c \in Callers : CallerStep(c)
  \/ Goroutines
  \/ Environment
  \/ Quiescent

(***************************************************************************)
(* Go schedules every runnable goroutine, timers fire, and Close finishes  *)
(* what it started.  Nothing is assumed of the child or of the callers'    *)
(* contexts, and no fairness between the cases of one select: a step of    *)
(* the call happens, whichever case it takes.                              *)
(***************************************************************************)
Fairness ==
  /\ \A c \in Callers : WF_vars(CallerStep(c) /\ pc[c] # "idle")
  /\ \A c \in Callers : WF_vars(Expire(c))
  /\ WF_vars(WriteFail)

Spec == Init /\ [][Next]_vars

FairSpec == Spec /\ Fairness

-----------------------------------------------------------------------------
(* Properties                                                              *)

(* Every variable holds a value of its kind, and the channels and pipes    *)
(* never hold more than their capacity (runtime.go:272-306).               *)
TypeOK ==
  /\ action \in [Callers -> ActionIds]
  /\ pc \in [Callers -> Places]
  /\ expired \in [Callers -> BOOLEAN]
  /\ cancelled \in [Callers -> BOOLEAN]
  /\ answer \in [Callers -> Answers]
  /\ pending \subseteq ActionIds
  /\ slot \in Callers \cup {Free}
  /\ wctx \in BOOLEAN /\ stdinClosed \in BOOLEAN /\ startErr \in BOOLEAN
  /\ writer \in {"none", "active", "ok", "failed"}
  /\ stdin \in 0 .. PipeCap
  /\ child \in {"running", "deaf", "exited"}
  /\ stdout \in Seq(ChildFrames) /\ Len(stdout) <= PipeCap
  /\ emitted \subseteq ChildFrames \ {Malformed}
  /\ sent \subseteq ActionIds
  /\ torn \in BOOLEAN
  /\ reader \in {"scanning", "stopped"}
  /\ responses \in Seq(ChildFrames \cup {Malformed})
  /\ Len(responses) <= ResponseCap
  /\ done \in {"open", "ready", "taken"}
  /\ remembered \in [ids : SUBSET ActionIds, fifo : Seq(ActionIds)]
  /\ router \in [ids : SUBSET ActionIds, fifo : Seq(ActionIds)]

(* The slot serialises the child's pipes: whoever is between acquiring the *)
(* slot and returning is the one holder, and a held slot has such a call.  *)
SlotExclusive == \A c \in Callers : pc[c] \in Critical <=> slot = c

(* No write outlives the call that started it: while a writer goroutine    *)
(* exists its call still holds the slot, and waits for that very write     *)
(* ("Join the writer before releasing the slot", runtime.go:408).          *)
NoOrphanWriter ==
  writer # "none" =>
    /\ slot # Free
    /\ pc[slot] \in {"writing"} \cup Joining

(* pending holds the IDs of the calls in flight and nothing else: a        *)
(* duplicate neither joins nor evicts the call that owns the action, so no *)
(* two calls in flight ever share an action (runtime.go:362-366).          *)
PendingIsInFlight ==
  /\ pending = {action[c] : c \in {d \in Callers : pc[d] \in InFlight}}
  /\ \A c, d \in Callers :
       /\ pc[c] \in InFlight /\ pc[d] \in InFlight
       /\ action[c] = action[d]
       => c = d

Terminal(c) == pc[c] = "done" /\ answer[c].by # "none"

(* "An admitted pending runtime request receives one terminal resolution": *)
(* of the calls that carry one action at most one gets an outcome, and a   *)
(* call is refused as a duplicate only when another call owns the outcome  *)
(* or is still on its way to it.  It needs no more actions than the        *)
(* router's window remembers (bridge.go:133-137, runtime.go:363).          *)
OneTerminalResolution ==
  /\ \A c, d \in Callers :
       Terminal(c) /\ Terminal(d) /\ action[c] = action[d] => c = d
  /\ \A c \in Callers :
       pc[c] = "done" /\ ~Terminal(c) =>
         \E d \in Callers : /\ action[d] = action[c]
                            /\ Terminal(d) \/ pc[d] \in InFlight

(* The reply answers the action of the call, in the controller's name.     *)
OwnReply(c, reply) ==
  reply.controller = Registration.controller /\ reply.id = action[c]

(* A controller's decision, and every success of an explicit call, is an   *)
(* answer the child gave to this very action under its own name; no        *)
(* default, and no reply to another action, can grant it                   *)
(* (runtime.go:355-361, bridge.go:194-205).                                *)
GrantIsOwnReply ==
  \A c \in Callers :
    /\ pc[c] = "done"
    /\ answer[c].by = "controller" \/ Granted(answer[c], TRUE)
    => \E reply \in emitted :
         /\ OwnReply(c, reply)
         /\ reply.outcome = answer[c].outcome

(* A default is applied for its declared reason only: the timeout default  *)
(* to a call whose deadline or context ended, the unavailable default when *)
(* the worker stopped or the child wrote something that is no answer to    *)
(* the action.                                                             *)
DefaultsEarned ==
  \A c \in Callers :
    pc[c] = "done" =>
      /\ answer[c].by = "timeout" =>
           /\ answer[c].outcome = Registration.onTimeout
           /\ expired[c] \/ cancelled[c]
      /\ answer[c].by = "unavailable" =>
           /\ answer[c].outcome = Registration.onUnavailable
           /\ \/ wctx
              \/ \E reply \in emitted :
                   ~OwnReply(c, reply)

(* "If a write is interrupted, Pitot stops that Controller because its     *)
(* input may contain a partial frame": once a write failed or was cut off, *)
(* no call begins another, neither one that waits for the slot nor one     *)
(* that comes later (docs/runtime.md:317-319, runtime.go:408-425).         *)
NothingAfterTorn == torn => writer # "active"

(* "Late replies cannot resolve a different action": when a reply to       *)
(* another action terminates a call, that action was never handed to the   *)
(* child and finished before.                                              *)
LateReplyHarmless ==
  [][\A c \in Callers :
       /\ pc[c] = "selecting" /\ pc'[c] = "done"
       /\ responses # <<>> /\ responses' = Tail(responses)
       /\ Head(responses) # Malformed
       => LET id == Head(responses).id
          IN  id = action[c] \/ id \notin sent \/ id \notin router.ids
    ]_vars

(* An admitted call returns: neither a busy slot, nor a child that stops   *)
(* reading, nor an endless stream of stale replies keeps it past its       *)
(* deadline (docs/runtime.md:314-316, runtime.go:439).                     *)
AdmittedReturns == \A c \in Callers : pc[c] = "admitted" ~> pc[c] = "done"

(* The calls as the promise sees them: one in flight is pending, one that  *)
(* got an outcome is resolved, any other that returned was refused.        *)
Status(c) ==
  CASE pc[c] = "idle"    -> "new"
    [] pc[c] \in InFlight -> "pending"
    [] Terminal(c)       -> "resolved"
    [] OTHER             -> "refused"

Promise == INSTANCE Resolution WITH
  Calls <- Callers,
  status <- [c \in Callers |-> Status(c)],
  outcome <- [c \in Callers |-> answer[c].outcome]

(* The worker with its pending map, slot, windows and pipes keeps the      *)
(* promise of one terminal resolution per action (bridge.go:1-9).          *)
KeepsPromise == Promise!Spec

(* docs/runtime.md:267-281: a controller that answers and exits has its    *)
(* answer carried back: an exit does not turn a call into the unavailable  *)
(* default when the child had already written the call's reply.            *)
ReplyBeforeExitCounts ==
  [][\A c \in Callers :
       pc[c] = "selecting" /\ done = "ready" /\ done' = "taken"
         /\ pc'[c] = "done" =>
           ~\E reply \in emitted :
              OwnReply(c, reply)
    ]_vars
=============================================================================
