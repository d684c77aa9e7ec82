------------------------------- MODULE Gates -------------------------------
(***************************************************************************)
(* A session of pitot dev (cmd/pitot/workbench.go): it starts a runtime,   *)
(* waits for its descriptor, runs one agent and cleans up.  Every tool     *)
(* call of the agent passes a gate: a hook command, a request command, a   *)
(* permission of the Devin client (internal/devinacp) or a native call of  *)
(* the DeepSeek plugin (integrations/deepseek/pitot.mjs), which runs a     *)
(* hook command of its own.  Or the runtime runs alone (pitot run), and    *)
(* hosts it knows nothing of run the hook and request commands.            *)
(*                                                                         *)
(* The runtime's worker is the resolution it gives (ControllerWorker is    *)
(* its detail); the descriptor is there while the server is (its detail is *)
(* RuntimeOwnership).                                                      *)
(***************************************************************************)
EXTENDS Naturals, Sequences, Functions, Exchange

CONSTANTS
  CallsOf,    \* agent -> its tool calls
  Nobody,     \* no permission is being answered
  MaxTold,    \* bound on Devin's announcements
  MaxPipe     \* bound on the messages under way from Devin

Calls == UNION {CallsOf[a] : a \in DOMAIN CallsOf}

ASSUME GatesAssumption ==
  /\ DOMAIN CallsOf \subseteq {"host", "shell", "devin", "deepseek"}
  /\ Nobody \notin Calls

VARIABLES
  setup,        \* [agent, controller, strict, default]
  dev,          \* where runDev is
  server,       \* where Server.Serve is
  interrupted,  \* the user's interrupt
  phase,        \* where the agent and its client are
  held,         \* Devin: a descendant of the agent holds its output
  pc,           \* call -> where its gate is
  door,         \* call -> through which command it goes
  answer,       \* call -> what the client received
  verdict,      \* call -> "none", "pass", "block" or "cancel"
  plug,         \* call -> the plugin's invoke: child, exit and flags
  told,         \* Devin: call -> its exec announcements so far
  pipe,         \* Devin: messages the client has not read
  cache,        \* Devin client: call -> announced command, 0 for none
  busy,         \* Devin client: the permission it is answering
  judged        \* call -> the announcements it had judged (history)

session == <<setup, dev, server, interrupted>>
client  == <<phase, held>>
gate    == <<pc, door, answer, verdict>>
devin   == <<told, pipe, cache, busy, judged>>
vars == <<session, client, gate, plug, devin>>

Messages == [call : Calls, what : {"tool_call", "ask"}, nth : Nat,
             once : BOOLEAN]

Plugs == [child : {"none", "running", "exited"}, aborted : BOOLEAN,
          cancelled : BOOLEAN, stopping : BOOLEAN, settled : BOOLEAN,
          exit : {"none", "printed", "died"}]

NewPlug == [child |-> "none", aborted |-> FALSE, cancelled |-> FALSE,
            stopping |-> FALSE, settled |-> FALSE, exit |-> "none"]

(* The agent is a plain command unless the host is devin or deepseek; the  *)
(* fragments say whether a Controller is there or demanded, and its        *)
(* default.  Another command line, or no configuration, starts nothing.    *)
Setups ==
  {s \in [agent : DOMAIN CallsOf, controller : BOOLEAN, strict : BOOLEAN,
          default : {"allow", "deny"}] :
     IF s.controller THEN ~s.strict ELSE s.default = "deny"}

Init ==
  /\ setup \in Setups
  /\ server = "starting"
  /\ interrupted = FALSE
  /\ IF setup.agent = "host" THEN dev = "alone" /\ phase = "session/prompt"
                             ELSE dev = "wait" /\ phase = "off"
  /\ held = FALSE
  /\ pc = [c \in Calls |-> "idle"]
  /\ door = [c \in Calls |-> "hook"]
  /\ answer = [c \in Calls |-> Failed]
  /\ verdict = [c \in Calls |-> "none"]
  /\ plug = [c \in Calls |-> NewPlug]
  /\ told = [c \in Calls |-> 0]
  /\ pipe = <<>>
  /\ cache = [c \in Calls |-> 0]
  /\ busy = Nobody
  /\ judged = [c \in Calls |-> {}]

-----------------------------------------------------------------------------
(* runDev and the server                                                   *)

Cancelled_OnInterrupt == interrupted

(* devCtx: the caller's context, or runDev's own cancel.                   *)
Cancelled == interrupted \/ dev \in {"stop", "clean"}

Interrupt ==
  /\ ~interrupted /\ dev # "removed"
  /\ interrupted' = TRUE
  /\ UNCHANGED <<setup, dev, server, client, gate, plug, devin>>

(* Serve owns the path, binds, publishes the descriptor, or fails.         *)
Serve ==
  /\ server = "starting"
  /\ server' \in {"live", "ended"}
  /\ UNCHANGED <<setup, dev, interrupted, client, gate, plug, devin>>

(* The listener fails.                                                     *)
ServeFails ==
  /\ server = "live"
  /\ server' = "ended"
  /\ UNCHANGED <<setup, dev, interrupted, client, gate, plug, devin>>

(* A cancelled server closes its listener and waits for its handlers, no   *)
(* longer than five seconds.                                               *)
Drain ==
  /\ server = "live" /\ Cancelled
  /\ server' = "draining"
  /\ UNCHANGED <<setup, dev, interrupted, client, gate, plug, devin>>

ServerEnds ==
  /\ server = "draining"
  /\ server' = "ended"
  /\ UNCHANGED <<setup, dev, interrupted, client, gate, plug, devin>>

(* A usable descriptor: the agent may start.                               *)
Ready ==
  /\ dev = "wait" /\ server = "live" /\ ~Cancelled
  /\ dev' = "run"
  /\ phase' = "start"
  /\ UNCHANGED <<setup, server, interrupted, held, gate, plug, devin>>

(* The server ended, the context did, or five seconds are over.            *)
NotReady ==
  /\ dev = "wait"
  /\ dev' = "clean"
  /\ UNCHANGED <<setup, server, interrupted, client, gate, plug, devin>>

(* After the agent: cancel, and wait for the server, but not for ever.     *)
Stop ==
  /\ \/ dev = "run" /\ phase = "done" /\ dev' = "stop"
     \/ dev = "stop" /\ dev' = "clean"
  /\ UNCHANGED <<setup, server, interrupted, client, gate, plug, devin>>

(* pitot run ends with its server.                                         *)
Return ==
  /\ dev = "alone" /\ server = "ended"
  /\ dev' = "removed"
  /\ UNCHANGED <<setup, server, interrupted, client, gate, plug, devin>>

(* The private directory goes when nothing writes in it any more.          *)
Remove ==
  /\ dev = "clean" /\ server = "ended"
  /\ dev' = "removed"
  /\ UNCHANGED <<setup, server, interrupted, client, gate, plug, devin>>

-----------------------------------------------------------------------------
(* The agent and its ACP client                                            *)

(* A client that cannot prepare its agent (the runtime's descriptor, the   *)
(* private session directory with plugin and patch, the process) returns.  *)
Start(agent, first) ==
  /\ phase = "start" /\ setup.agent = agent
  /\ phase' \in {first, "done"}
  /\ UNCHANGED <<session, held, gate, plug, devin>>

(* It waits for the plugin's readiness marker first.                       *)
StartDeepSeek == Start("deepseek", "boot")

StartDevin == Start("devin", "initialize")

(* A plain command has no client.                                          *)
StartShell == Start("shell", "session/prompt")

Phases == <<"boot", "initialize", "session/new", "session/prompt",
            "session/close", "closing">>

Follows(p) == CHOOSE q \in {Phases[i + 1] : i \in 1 .. 5} :
                \E i \in 1 .. 5 : Phases[i] = p /\ Phases[i + 1] = q

Running == phase \in {"boot", "initialize", "session/new", "session/prompt",
                      "session/close"}

(* The readiness marker, then one response after another; only DeepSeek's  *)
(* client closes its session.  The Devin client reads nothing while it     *)
(* answers a permission, and messages in order.                            *)
Advance ==
  /\ Running /\ busy = Nobody /\ pipe = <<>>
  /\ phase' = IF phase = "session/prompt" /\ setup.agent # "deepseek"
                THEN "closing" ELSE Follows(phase)
  /\ UNCHANGED <<session, held, gate, plug, devin>>

(* A timeout, a cancelled context, a stream that ends, an uncorrelated or  *)
(* malformed message, a permission without reject_once: the client closes  *)
(* its end.                                                                *)
Fail ==
  /\ Running /\ busy = Nobody
  /\ phase' = "closing"
  /\ UNCHANGED <<session, held, gate, plug, devin>>

(* The agent exits, or is killed after its grace period.                   *)
AgentEnds ==
  /\ phase = "closing"
  /\ phase' = "done"
  /\ UNCHANGED <<session, held, gate, plug, devin>>

(* What Devin starts inherits its output, and may outlive it (external).   *)
Inherit ==
  /\ setup.agent = "devin" /\ Running /\ ~held
  /\ held' = TRUE
  /\ UNCHANGED <<session, phase, gate, plug, devin>>

LetGo ==
  /\ held
  /\ held' = FALSE
  /\ UNCHANGED <<session, phase, gate, plug, devin>>

-----------------------------------------------------------------------------
(* One exchange with the runtime                                           *)

Commands == setup.agent \in {"shell", "host"}

(* No descriptor, or nobody listening: an error at once.                   *)
Posted == IF server = "live" THEN "posted" ELSE "answered"

Begin(c, d) ==
  /\ Commands /\ phase = "session/prompt" /\ pc[c] = "idle"
  /\ pc' = [pc EXCEPT ![c] = Posted]
  /\ door' = [door EXCEPT ![c] = d]
  /\ UNCHANGED <<session, client, answer, verdict, plug, devin>>

(* An action that cannot be decoded is blocked on the spot.                *)
Refuse(c, d) ==
  /\ Commands /\ phase = "session/prompt" /\ pc[c] = "idle"
  /\ pc' = [pc EXCEPT ![c] = "ruled"]
  /\ door' = [door EXCEPT ![c] = d]
  /\ verdict' = [verdict EXCEPT ![c] = "block"]
  /\ UNCHANGED <<session, client, answer, plug, devin>>

Serving == server \in {"live", "draining"}

Route(c) ==
  /\ pc[c] = "posted" /\ Serving
  /\ IF setup.controller
       THEN pc' = [pc EXCEPT ![c] = "resolving"] /\ UNCHANGED answer
       ELSE /\ pc' = [pc EXCEPT ![c] = "answered"]
            /\ answer' = [answer EXCEPT ![c] =
                 Received(door[c], Written(door[c],
                                           Unrouted(door[c], setup.strict)))]
  /\ UNCHANGED <<session, client, door, verdict, plug, devin>>

Resolve(c) ==
  /\ pc[c] = "resolving" /\ Serving
  /\ pc' = [pc EXCEPT ![c] = "answered"]
  /\ \E r \in Resolutions(setup.default) :
       answer' = [answer EXCEPT ![c] =
         Received(door[c], Written(door[c], Delivered(door[c], r)))]
  /\ UNCHANGED <<session, client, door, verdict, plug, devin>>

(* The server closes or cuts the response after 30 s, or the client stops  *)
(* waiting (30 s the DeepSeek hook, 35 s the others): nobody hears what    *)
(* the action is resolved to.                                              *)
GiveUp(c) ==
  /\ pc[c] \in {"posted", "resolving"}
  /\ pc' = [pc EXCEPT ![c] = "answered"]
  /\ answer' = [answer EXCEPT ![c] = Failed]
  /\ UNCHANGED <<session, client, door, verdict, plug, devin>>

(* A hook or request command exits.                                        *)
Rule(c) ==
  /\ pc[c] = "answered" /\ door[c] \in {"hook", "request"}
  /\ pc' = [pc EXCEPT ![c] = "ruled"]
  /\ verdict' = [verdict EXCEPT ![c] =
                   IF Passes(door[c], answer[c]) THEN "pass" ELSE "block"]
  /\ UNCHANGED <<session, client, door, answer, plug, devin>>

-----------------------------------------------------------------------------
(* The Devin client                                                        *)

(* The agent announces a call's command, and asks for permission (external) *)
Say(m) ==
  /\ setup.agent = "devin" /\ phase = "session/prompt"
  /\ Len(pipe) < MaxPipe
  /\ pipe' = Append(pipe, m)
  /\ UNCHANGED <<session, client, gate, plug, cache, busy, judged>>

Announcements == FoldFunction(+, 0, told)

Announce(c) ==
  /\ Announcements < MaxTold
  /\ told' = [told EXCEPT ![c] = @ + 1]
  /\ Say([call |-> c, what |-> "tool_call", nth |-> told[c] + 1,
          once |-> FALSE])

Ask(c, once) ==
  /\ UNCHANGED told
  /\ Say([call |-> c, what |-> "ask", nth |-> told[c], once |-> once])

Listening == setup.agent = "devin" /\ Running /\ busy = Nobody /\ pipe # <<>>

HandleUpdate ==
  /\ Listening /\ Head(pipe).what = "tool_call"
  /\ cache' = [cache EXCEPT ![Head(pipe).call] = Head(pipe).nth]
  /\ pipe' = Tail(pipe)
  /\ UNCHANGED <<session, client, gate, plug, told, busy, judged>>

(* A permission without a known command, or whose command is no valid      *)
(* event, is rejected and forgets nothing; any other one goes to the       *)
(* Controller with the command of the cache.                               *)
HandlePermission ==
  LET c == Head(pipe).call IN
  /\ Listening /\ Head(pipe).what = "ask"
  /\ door' = [door EXCEPT ![c] = "devin"]
  /\ answer' = [answer EXCEPT ![c] = Failed]
  /\ \/ /\ verdict' = [verdict EXCEPT ![c] = "block"]
        /\ pipe' = Tail(pipe)
        /\ UNCHANGED <<pc, busy, judged>>
     \/ /\ cache[c] # 0
        /\ pc' = [pc EXCEPT ![c] = Posted]
        /\ verdict' = [verdict EXCEPT ![c] = "none"]
        /\ busy' = c
        /\ judged' = [judged EXCEPT ![c] = @ \cup {cache[c]}]
        /\ UNCHANGED pipe
  /\ UNCHANGED <<session, client, plug, told, cache>>

Forget_OnAllow(c) == IF Passes("devin", answer[c]) THEN 0 ELSE cache[c]

(* An answered command is forgotten, whatever the answer.                  *)
Forget(c) == 0

(* An allow needs an option to say it with.                                *)
AnswerPermission(c) ==
  /\ busy = c /\ pc[c] = "answered"
  /\ verdict' = [verdict EXCEPT ![c] =
       IF Passes("devin", answer[c]) /\ Head(pipe).once THEN "pass"
                                                        ELSE "block"]
  /\ cache' = [cache EXCEPT ![c] = Forget(c)]
  /\ pc' = [pc EXCEPT ![c] = "idle"]
  /\ busy' = Nobody
  /\ pipe' = Tail(pipe)
  /\ UNCHANGED <<session, client, door, answer, plug, told, judged>>

-----------------------------------------------------------------------------
(* The DeepSeek plugin: handleToolCall and invoke.  It lives in the agent. *)

Native == setup.agent = "deepseek" /\ phase \in {"session/prompt",
                                                 "session/close", "closing"}

(* An invalid call, or a hook that cannot be run, is denied; a valid one   *)
(* that is aborted is cancelled before anything runs.                      *)
HandleToolCall(c) ==
  /\ Native /\ pc[c] = "idle"
  /\ door' = [door EXCEPT ![c] = "deepseek"]
  /\ \/ /\ ~plug[c].aborted
        /\ pc' = [pc EXCEPT ![c] = Posted]
        /\ plug' = [plug EXCEPT ![c].child = "running"]
        /\ UNCHANGED verdict
     \/ /\ pc' = [pc EXCEPT ![c] = "ruled"]
        /\ \E v \in {"cancel", "block"} :
             /\ v = "cancel" => plug[c].aborted
             /\ verdict' = [verdict EXCEPT ![c] = v]
        /\ UNCHANGED plug
  /\ UNCHANGED <<session, client, answer, devin>>

(* The agent aborts the call: whoever listens stops the child.             *)
Abort(c) ==
  LET listened == plug[c].child # "none" /\ ~plug[c].settled IN
  /\ Native /\ ~plug[c].aborted /\ verdict[c] = "none"
  /\ plug' = [plug EXCEPT ![c].aborted = TRUE,
                          ![c].cancelled = @ \/ listened,
                          ![c].stopping = @ \/ listened]
  /\ UNCHANGED <<session, client, gate, devin>>

Unsettled(c) == Native /\ plug[c].child # "none" /\ ~plug[c].settled

(* 35 s are over, or there is too much output.                             *)
StopChild(c) ==
  /\ Unsettled(c) /\ ~plug[c].stopping
  /\ plug' = [plug EXCEPT ![c].stopping = TRUE]
  /\ UNCHANGED <<session, client, gate, devin>>

(* The hook prints its decision and exits, or dies before it did.          *)
ChildExits(c) ==
  /\ Unsettled(c) /\ plug[c].child = "running"
  /\ \E e \in {"printed", "died"} :
       /\ e = "printed" => pc[c] = "answered"
       /\ plug' = [plug EXCEPT ![c].child = "exited", ![c].exit = e]
  /\ UNCHANGED <<session, client, gate, devin>>

(* Once its pipes are closed, too: a descendant may hold them.             *)
Close(c) ==
  /\ Unsettled(c) /\ plug[c].child = "exited"
  /\ plug' = [plug EXCEPT ![c].settled = TRUE]
  /\ UNCHANGED <<session, client, gate, devin>>

DrainTimer_AfterExit(c) ==
  /\ Unsettled(c) /\ plug[c].stopping /\ plug[c].child = "exited"
  /\ plug' = [plug EXCEPT ![c].settled = TRUE]
  /\ UNCHANGED <<session, client, gate, devin>>

(* 1.5 s after the stop it waits for neither.                              *)
DrainTimer(c) ==
  /\ Unsettled(c) /\ plug[c].stopping
  /\ plug' = [plug EXCEPT ![c].settled = TRUE, ![c].exit = "died"]
  /\ UNCHANGED <<session, client, gate, devin>>

Abandoned_WhileRunning(c) == plug[c].cancelled

(* The signal is looked at once more after the wait.                       *)
Abandoned(c) == plug[c].cancelled \/ plug[c].aborted

(* stop marks the run as failed, so does an exit by a signal.              *)
Decide(c) ==
  /\ Native /\ plug[c].settled /\ verdict[c] = "none"
  /\ pc' = [pc EXCEPT ![c] = "ruled"]
  /\ verdict' = [verdict EXCEPT ![c] =
       IF Abandoned(c) THEN "cancel"
       ELSE IF ~plug[c].stopping /\ plug[c].exit = "printed"
                 /\ Passes("deepseek", answer[c]) THEN "pass"
       ELSE "block"]
  /\ UNCHANGED <<session, client, door, answer, plug, devin>>

-----------------------------------------------------------------------------
Gate(c) ==
  \/ \E d \in {"hook", "request"} : Begin(c, d) \/ Refuse(c, d)
  \/ Route(c) \/ Resolve(c) \/ GiveUp(c) \/ Rule(c)
  \/ Announce(c) \/ (\E once \in BOOLEAN : Ask(c, once)) \/ AnswerPermission(c)
  \/ HandleToolCall(c) \/ Abort(c) \/ StopChild(c) \/ ChildExits(c)
  \/ Close(c) \/ DrainTimer(c) \/ Decide(c)

Next ==
  \/ Interrupt \/ Serve \/ ServeFails \/ Drain \/ ServerEnds
  \/ Ready \/ NotReady \/ Stop \/ Return \/ Remove
  \/ StartDeepSeek \/ StartDevin \/ StartShell
  \/ Advance \/ Fail \/ AgentEnds \/ Inherit \/ LetGo
  \/ HandleUpdate \/ HandlePermission
  \/ \E c \in CallsOf[setup.agent] : Gate(c)

(* Timers fire, the program's own goroutines run, and a cancelled context  *)
(* ends what waits for it.  The Devin client does not: it reads until the  *)
(* killed agent's output ends, which a descendant that holds it prevents   *)
(* (client.call, devinacp/client.go:213).  Nothing is assumed of the       *)
(* Controller, of a hook process, of an agent that is left alone or of its *)
(* descendants: none need ever answer, let go or exit.                     *)
Fairness ==
  /\ WF_vars(Serve) /\ WF_vars(Drain) /\ WF_vars(ServerEnds)
  /\ WF_vars(Ready \/ NotReady) /\ WF_vars(Stop) /\ WF_vars(Remove \/ Return)
  /\ WF_vars(StartDeepSeek \/ StartDevin \/ StartShell)
  /\ WF_vars(Cancelled /\ ~held /\ Fail) /\ WF_vars(AgentEnds)
  /\ \A c \in Calls :
       /\ WF_vars(GiveUp(c)) /\ WF_vars(Rule(c)) /\ WF_vars(AnswerPermission(c))
       /\ WF_vars(StopChild(c)) /\ WF_vars(DrainTimer(c)) /\ WF_vars(Decide(c))

Spec == Init /\ [][Next]_vars /\ Fairness

-----------------------------------------------------------------------------
(* Every variable holds a value of its kind.                               *)
SessionOK ==
  /\ setup \in Setups
  /\ dev \in {"wait", "run", "stop", "clean", "removed", "alone"}
  /\ server \in {"starting", "live", "draining", "ended"}
  /\ interrupted \in BOOLEAN
  /\ held \in BOOLEAN

GateOK ==
  /\ pc \in [Calls -> {"idle", "posted", "resolving", "answered", "ruled"}]
  /\ door \in [Calls -> Doors]
  /\ answer \in [Calls -> Results]
  /\ verdict \in [Calls -> {"none", "pass", "block", "cancel"}]

DevinOK ==
  /\ told \in [Calls -> Nat]
  /\ pipe \in Seq(Messages)
  /\ cache \in [Calls -> Nat]
  /\ busy \in Calls \cup {Nobody}
  /\ judged \in [Calls -> SUBSET Nat]

TypeOK == SessionOK /\ GateOK /\ plug \in [Calls -> Plugs] /\ DevinOK

(* What passes was let through: by an allow of the Controller or of its    *)
(* declared default, or, where none is required, by there being no         *)
(* Controller (deliverEvent, handleEventMode, runHook, handlePermission).  *)
(* The explicit door takes the Controller's own reply and nothing else     *)
(* (runDeepSeekHook: "Exit zero is reserved for an explicit correlated     *)
(* grant").                                                                *)
PassIsGranted ==
  \A c \in Calls : verdict[c] = "pass" =>
    LET a == answer[c] IN
    \/ a.basis = "reply" /\ a.outcome = "allow"
    \/ /\ a.basis = "default" /\ setup.default = "allow"
       /\ door[c] # "deepseek"
    \/ ~setup.controller /\ ~setup.strict /\ door[c] \in {"hook", "devin"}

(* A call that was aborted before it was decided is cancelled, whichever   *)
(* of exit, timer and abort came first (invoke, handleToolCall).           *)
AbortedNeverPasses ==
  [][\A c \in Calls : plug[c].aborted /\ verdict[c] = "none" =>
       verdict'[c] # "pass"]_vars

(* What the Devin client has judged is the latest exec command announced   *)
(* for that call before it was asked, and no announcement is judged twice: *)
(* an answer is never carried over to another command of the same call, or *)
(* to a second run of it (handleUpdate, handlePermission).                 *)
JudgedAsAsked ==
  [][\A c \in Calls : busy # c /\ busy' = c =>
       cache[c] = Head(pipe).nth /\ cache[c] \notin judged[c]]_vars

(* A gate never keeps its tool call waiting for ever, though neither the   *)
(* Controller, nor the runtime, nor the hook's process tree need end: the  *)
(* call is decided, or the agent is gone.                                  *)
EverySettles ==
  \A c \in Calls :
    pc[c] \in {"posted", "resolving", "answered"} ~>
      pc[c] \in {"ruled", "idle"} \/ phase = "done"

(* A session that is interrupted or over stops its server and removes its  *)
(* directory (runDev's deferred calls); a runtime alone stops, too.  Only  *)
(* a descendant that never lets go of Devin's output keeps a session from  *)
(* it: the agent's own refusal to end does not.                            *)
SessionEnds ==
  <>[]~held =>
    (interrupted \/ dev \in {"stop", "clean"} ~> dev = "removed")
=============================================================================
