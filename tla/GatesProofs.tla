---------------------------- MODULE GatesProofs ----------------------------
(***************************************************************************)
(* Theorems of Gates for any number of calls, announcements and messages   *)
(* under way.                                                              *)
(*                                                                         *)
(* That nothing passes without a grant is carried by the answers: whatever *)
(* a client can have received, what its door lets through is a grant.      *)
(* That a permission is judged on the right command is carried by the      *)
(* pipe: between a question and the announcement it is about stand only    *)
(* messages of other calls or older announcements, and once that is read,  *)
(* the cache holds it.                                                     *)
(***************************************************************************)
EXTENDS Gates, SequenceTheorems, TLAPS

Granted(c) ==
  LET a == answer[c] IN
  \/ a.basis = "reply" /\ a.outcome = "allow"
  \/ /\ a.basis = "default" /\ setup.default = "allow"
     /\ door[c] # "deepseek"
  \/ ~setup.controller /\ ~setup.strict /\ door[c] \in {"hook", "devin"}

Exchanging == {"posted", "resolving", "answered"}

(* An answer is good for what its door makes of it.                        *)
AnswerInv ==
  \A c \in Calls :
    /\ Passes(door[c], answer[c]) => Granted(c)
    /\ verdict[c] = "pass" => Passes(door[c], answer[c])
    /\ pc[c] \in Exchanging => verdict[c] = "none"
    /\ pc[c] = "idle" /\ setup.agent # "devin" =>
         answer[c] = Failed /\ verdict[c] = "none"

(* Who goes through which door.                                            *)
DoorInv ==
  /\ \A c \in Calls :
       /\ setup.agent = "deepseek" /\ pc[c] # "idle" => door[c] = "deepseek"
       /\ plug[c].child # "none" => setup.agent = "deepseek" /\ pc[c] # "idle"
       /\ plug[c].aborted => setup.agent = "deepseek"
       /\ plug[c].settled => plug[c].child # "none"
       /\ setup.agent = "devin" /\ pc[c] # "idle" =>
            busy = c /\ door[c] = "devin"
  /\ busy # Nobody => setup.agent = "devin"

Announces(i, c) == pipe[i].call = c /\ pipe[i].what = "tool_call"

(* The n-th announcement of c is the last one that is read before the j-th *)
(* message: it is in the pipe, or is read and not yet judged, or judged.   *)
Newest(c, j, n) ==
  \/ \E i \in 1 .. j - 1 : Announces(i, c) /\ pipe[i].nth = n
  \/ /\ \A i \in 1 .. j - 1 : ~Announces(i, c)
     /\ cache[c] \in {0, n}

PipeInv ==
  /\ \A i, j \in 1 .. Len(pipe) :
       i < j /\ Announces(i, pipe[j].call) =>
         IF pipe[j].what = "tool_call" THEN pipe[i].nth < pipe[j].nth
                                       ELSE pipe[i].nth <= pipe[j].nth
  /\ \A j \in 1 .. Len(pipe) :
       pipe[j].what = "ask" => Newest(pipe[j].call, j, pipe[j].nth)
  /\ \A c \in Calls : Newest(c, Len(pipe) + 1, told[c])

(* Numbers grow from what was judged over the cache and the pipe to what   *)
(* was announced last.                                                     *)
OrderInv ==
  \A c \in Calls :
    /\ cache[c] <= told[c]
    /\ \A n \in judged[c] : n <= told[c]
    /\ \A i \in 1 .. Len(pipe) : Announces(i, c) =>
         /\ pipe[i].nth <= told[c]
         /\ cache[c] < pipe[i].nth
         /\ \A n \in judged[c] : n < pipe[i].nth
    /\ busy # c /\ cache[c] # 0 => cache[c] \notin judged[c]

(* The permission that is being answered is the oldest message.            *)
BusyInv ==
  busy # Nobody => pipe # <<>> /\ Head(pipe).what = "ask" /\ Head(pipe).call = busy

Inv == TypeOK /\ AnswerInv /\ DoorInv /\ PipeInv /\ OrderInv /\ BusyInv

(* The steps of the session, of the agent and its client: they disturb no  *)
(* gate.                                                                   *)
SessionStep ==
  \/ Interrupt \/ Serve \/ ServeFails \/ Drain \/ ServerEnds
  \/ Ready \/ NotReady \/ Stop \/ Return \/ Remove
  \/ StartDeepSeek \/ StartDevin \/ StartShell
  \/ Advance \/ Fail \/ AgentEnds \/ Inherit \/ LetGo

LEMMA SessionLeaves ==
  ASSUME SessionStep
  PROVE  UNCHANGED <<setup, gate, plug, devin>>
BY DEF SessionStep, Interrupt, Serve, ServeFails, Drain, ServerEnds, Ready,
       NotReady, Stop, Return, Remove, StartDeepSeek, StartDevin, StartShell,
       Start, Advance, Fail, AgentEnds, Inherit, LetGo, session

LEMMA SetupStays == ASSUME [Next]_vars PROVE setup' = setup
<1>1. CASE SessionStep
  BY <1>1, SessionLeaves
<1>2. CASE HandleUpdate \/ HandlePermission
  BY <1>2 DEF HandleUpdate, HandlePermission, session
<1>3. ASSUME NEW c \in CallsOf[setup.agent], Gate(c) PROVE setup' = setup
  BY <1>3 DEF Gate, Begin, Refuse, Route, Resolve, GiveUp, Rule, Announce, Ask,
       Say, AnswerPermission, HandleToolCall, Abort, StopChild, ChildExits,
       Close, DrainTimer, Decide, session
<1>4. CASE UNCHANGED vars
  BY <1>4 DEF vars, session
<1> QED BY <1>1, <1>2, <1>3, <1>4 DEF Next, SessionStep

-----------------------------------------------------------------------------
(* The exchange                                                            *)

(* No door lets a failed exchange through.                                 *)
LEMMA FailedBlocks == ASSUME NEW d \in Doors PROVE ~Passes(d, Failed)
BY DEF Doors, Passes, HookPasses, DevinPasses, RequestPasses, DeepSeekPasses,
       IsError, Failed, Result

(* Without a Controller only the hook and the Devin client let an action   *)
(* through, and not where a Controller is demanded.                        *)
LEMMA UnroutedPasses ==
  ASSUME NEW d \in Doors, NEW strict \in BOOLEAN,
         Passes(d, Received(d, Written(d, Unrouted(d, strict))))
  PROVE  ~strict /\ d \in {"hook", "devin"}
<1>1. CASE strict \/ d \in {"deepseek", "request"}
  <2>1. Received(d, Written(d, Unrouted(d, strict))) = Failed
    BY <1>1 DEF Received, Written, Unrouted, Failed, Result
  <2> QED BY <2>1, FailedBlocks
<1>2. CASE ~strict /\ d \notin {"deepseek", "request"}
  BY <1>2 DEF Doors
<1> QED BY <1>1, <1>2

(* With one, an allow is its reply or its declared default, and the        *)
(* explicit door does not even take the default.                           *)
LEMMA ResolvedPasses ==
  ASSUME NEW d \in Doors, NEW default \in {"allow", "deny"},
         NEW r \in Resolutions(default),
         Passes(d, Received(d, Written(d, Delivered(d, r))))
  PROVE  LET a == Received(d, Written(d, Delivered(d, r))) IN
         /\ a.outcome = "allow"
         /\ \/ a.basis = "reply"
            \/ a.basis = "default" /\ default = "allow" /\ d # "deepseek"
<1> DEFINE a == Received(d, Written(d, Delivered(d, r)))
<1> SUFFICES /\ a.outcome = "allow"
             /\ \/ a.basis = "reply"
                \/ a.basis = "default" /\ default = "allow" /\ d # "deepseek"
  OBVIOUS
<1>1. a # Failed
  BY FailedBlocks
<1>2. r.some = TRUE
  BY DEF Resolutions, Result
<1>3. a = r /\ (d = "deepseek" => ~r.fault)
  BY <1>1, <1>2 DEF Received, Written, Delivered
<1>4. r.outcome = "allow"
  BY <1>2, <1>3
     DEF Doors, Passes, HookPasses, DevinPasses, RequestPasses, DeepSeekPasses,
         IsError
<1>5. CASE r.basis = "reply"
  BY <1>3, <1>4, <1>5
<1>6. CASE r = Result(TRUE, TRUE, "default", default, TRUE)
  BY <1>3, <1>4, <1>6 DEF Result
<1>7. CASE r = Result(TRUE, TRUE, "refused", "none", FALSE)
  BY <1>4, <1>7 DEF Result
<1> QED BY <1>5, <1>6, <1>7 DEF Resolutions, Result

LEMMA ResultTypes ==
  /\ Failed \in Results
  /\ \A d \in Doors, strict \in BOOLEAN :
       Received(d, Written(d, Unrouted(d, strict))) \in Results
  /\ \A d \in Doors, default \in {"allow", "deny"} :
       \A r \in Resolutions(default) :
         Received(d, Written(d, Delivered(d, r))) \in Results
<1>1. Failed \in Results /\ Unseen \in Results
  BY DEF Failed, Unseen, Result, Results
<1>2. \A d, r : r \in Results =>
        Received(d, r) \in Results /\ Written(d, r) \in Results
                                   /\ Delivered(d, r) \in Results
  BY <1>1 DEF Received, Written, Delivered
<1>3. \A d, strict : Unrouted(d, strict) \in Results
  BY <1>1 DEF Unrouted
<1>4. ASSUME NEW default \in {"allow", "deny"}
      PROVE  Resolutions(default) \subseteq Results
  <2>1. /\ \A o \in {"allow", "deny"} :
             Result(TRUE, FALSE, "reply", o, TRUE) \in Results
        /\ Result(TRUE, TRUE, "default", default, TRUE) \in Results
        /\ Result(TRUE, TRUE, "refused", "none", FALSE) \in Results
    BY DEF Result, Results
  <2> QED BY <2>1 DEF Resolutions
<1> QED BY <1>1, <1>2, <1>3, <1>4

LEMMA OwnCalls == TypeOK => CallsOf[setup.agent] \subseteq Calls
BY DEF TypeOK, SessionOK, Setups, Calls

LEMMA OldestMessage ==
  ASSUME pipe \in Seq(Messages), pipe # <<>>
  PROVE  /\ Head(pipe) \in Messages /\ Tail(pipe) \in Seq(Messages)
         /\ Head(pipe).call \in Calls /\ Head(pipe).nth \in Nat
<1>1. Head(pipe) \in Messages /\ Tail(pipe) \in Seq(Messages)
  BY HeadTailProperties
<1> QED BY <1>1 DEF Messages

LEMMA InitInv == Init => Inv
<1> SUFFICES ASSUME Init PROVE Inv
  OBVIOUS
<1> USE GatesAssumption DEF Init, GatesAssumption
<1>1. TypeOK
  <2>1. NewPlug \in Plugs
    BY DEF NewPlug, Plugs
  <2>2. SessionOK
    BY DEF SessionOK
  <2>3. GateOK
    BY ResultTypes DEF GateOK, Doors
  <2>4. DevinOK
    BY DEF DevinOK
  <2> QED BY <2>1, <2>2, <2>3, <2>4 DEF TypeOK
<1>2. AnswerInv
  BY FailedBlocks DEF AnswerInv, Doors, Exchanging
<1>3. DoorInv
  BY DEF DoorInv, NewPlug
<1>4. PipeInv
  BY DEF PipeInv, Newest, Announces
<1>5. OrderInv /\ BusyInv
  BY DEF OrderInv, BusyInv
<1> QED BY <1>1, <1>2, <1>3, <1>4, <1>5 DEF Inv

-----------------------------------------------------------------------------
(* Typing                                                                  *)

LEMMA SessionTypes == ASSUME TypeOK, [Next]_vars PROVE SessionOK'
<1> USE DEF TypeOK, SessionOK
<1>1. CASE SessionStep
  <2>1. dev' \in {"wait", "run", "stop", "clean", "removed", "alone"}
    BY <1>1 DEF SessionStep, Interrupt, Serve, ServeFails, Drain, ServerEnds,
                Ready, NotReady, Stop, Return, Remove, StartDeepSeek,
                StartDevin, StartShell, Start, Advance, Fail, AgentEnds,
                Inherit, LetGo, session
  <2>2. server' \in {"starting", "live", "draining", "ended"}
    BY <1>1 DEF SessionStep, Interrupt, Serve, ServeFails, Drain, ServerEnds,
                Ready, NotReady, Stop, Return, Remove, StartDeepSeek,
                StartDevin, StartShell, Start, Advance, Fail, AgentEnds,
                Inherit, LetGo, session
  <2>3. interrupted' \in BOOLEAN
    BY <1>1 DEF SessionStep, Interrupt, Serve, ServeFails, Drain, ServerEnds,
                Ready, NotReady, Stop, Return, Remove, StartDeepSeek,
                StartDevin, StartShell, Start, Advance, Fail, AgentEnds,
                Inherit, LetGo, session
  <2>4. held' \in BOOLEAN
    BY <1>1 DEF SessionStep, Interrupt, Serve, ServeFails, Drain, ServerEnds,
                Ready, NotReady, Stop, Return, Remove, StartDeepSeek,
                StartDevin, StartShell, Start, Advance, Fail, AgentEnds,
                Inherit, LetGo, client
  <2> QED BY <2>1, <2>2, <2>3, <2>4, SetupStays
<1>2. CASE UNCHANGED <<session, client>>
  BY <1>2 DEF session, client
<1>3. CASE HandleUpdate \/ HandlePermission
  BY <1>2, <1>3 DEF HandleUpdate, HandlePermission
<1>4. ASSUME NEW c \in Calls, Gate(c) PROVE SessionOK'
  BY <1>2, <1>4
     DEF Gate, Begin, Refuse, Route, Resolve, GiveUp, Rule, Announce, Ask,
       Say, AnswerPermission, HandleToolCall, Abort, StopChild, ChildExits,
       Close, DrainTimer, Decide
<1>5. CASE UNCHANGED vars
  BY <1>2, <1>5 DEF vars
<1> QED BY <1>1, <1>3, <1>4, <1>5, OwnCalls DEF Next, SessionStep

LEMMA GateTypes == ASSUME TypeOK, [Next]_vars PROVE GateOK'
<1> USE DEF TypeOK, GateOK, gate
<1>0. Posted \in {"posted", "answered"}
  BY DEF Posted
<1>1. CASE UNCHANGED gate
  BY <1>1
<1>2. CASE HandlePermission
  <2>1. Head(pipe).call \in Calls
    BY <1>2, OldestMessage DEF HandlePermission, Listening, DevinOK
  <2> QED BY <1>0, <1>2, <2>1, ResultTypes DEF HandlePermission, Doors
<1>3. ASSUME NEW c \in Calls, Gate(c) PROVE GateOK'
  <2>1. CASE \E d \in {"hook", "request"} : Begin(c, d) \/ Refuse(c, d)
    BY <1>0, <2>1 DEF Begin, Refuse, Doors
  <2>2. CASE Route(c)
    <3>1. setup.strict \in BOOLEAN /\ door[c] \in Doors
      BY DEF SessionOK, Setups
    <3> QED BY <2>2, <3>1, ResultTypes DEF Route
  <2>3. CASE Resolve(c)
    <3>1. setup.default \in {"allow", "deny"} /\ door[c] \in Doors
      BY DEF SessionOK, Setups
    <3>2. PICK a \in Results : answer' = [answer EXCEPT ![c] = a]
      BY <2>3, <3>1, ResultTypes DEF Resolve
    <3> QED BY <2>3, <3>2 DEF Resolve
  <2>4. CASE GiveUp(c)
    BY <2>4, ResultTypes DEF GiveUp
  <2>5. CASE Rule(c)
    BY <2>5 DEF Rule
  <2>6. CASE AnswerPermission(c)
    BY <2>6 DEF AnswerPermission
  <2>7. CASE HandleToolCall(c)
    BY <1>0, <2>7 DEF HandleToolCall, Doors
  <2>8. CASE Decide(c)
    BY <2>8 DEF Decide
  <2> QED BY <1>1, <1>3, <2>1, <2>2, <2>3, <2>4, <2>5, <2>6, <2>7, <2>8
          DEF Gate, Announce, Ask, Say, Abort, StopChild, ChildExits, Close,
              DrainTimer
<1>4. CASE SessionStep \/ HandleUpdate \/ UNCHANGED vars
  BY <1>1, <1>4, SessionLeaves DEF HandleUpdate, vars
<1> QED BY <1>2, <1>3, <1>4, OwnCalls DEF Next, SessionStep

LEMMA PlugForms ==
  ASSUME NEW q \in Plugs
  PROVE  /\ [q EXCEPT !.child = "running"] \in Plugs
         /\ [q EXCEPT !.stopping = TRUE] \in Plugs
         /\ \A e \in {"printed", "died"} :
              [q EXCEPT !.child = "exited", !.exit = e] \in Plugs
         /\ [q EXCEPT !.settled = TRUE] \in Plugs
         /\ [q EXCEPT !.settled = TRUE, !.exit = "died"] \in Plugs
BY DEF Plugs

LEMMA PlugTypes == ASSUME TypeOK, [Next]_vars PROVE plug' \in [Calls -> Plugs]
<1> USE DEF TypeOK
<1>1. CASE UNCHANGED plug
  BY <1>1
<1>2. ASSUME NEW c \in Calls, Gate(c) PROVE plug' \in [Calls -> Plugs]
  <2>1. plug[c] \in Plugs
    OBVIOUS
  <2>2. CASE HandleToolCall(c)
    BY <1>1, <2>2 DEF HandleToolCall, Plugs
  <2>3. CASE Abort(c)
    <3>1. PICK b1, b2 \in BOOLEAN :
            plug' = [plug EXCEPT ![c].aborted = TRUE, ![c].cancelled = b1,
                                 ![c].stopping = b2]
      BY <2>1, <2>3 DEF Abort, Plugs
    <3> QED BY <2>1, <3>1 DEF Plugs
  <2>4. CASE StopChild(c)
    <3>1. PICK q \in Plugs : plug' = [plug EXCEPT ![c] = q]
      BY <2>1, <2>4, PlugForms DEF StopChild
    <3> QED BY <3>1
  <2>5. CASE ChildExits(c)
    <3>1. PICK q \in Plugs : plug' = [plug EXCEPT ![c] = q]
      BY <2>1, <2>5, PlugForms DEF ChildExits
    <3> QED BY <3>1
  <2>6. CASE Close(c)
    <3>1. PICK q \in Plugs : plug' = [plug EXCEPT ![c] = q]
      BY <2>1, <2>6, PlugForms DEF Close
    <3> QED BY <3>1
  <2>7. CASE DrainTimer(c)
    <3>1. PICK q \in Plugs : plug' = [plug EXCEPT ![c] = q]
      BY <2>1, <2>7, PlugForms DEF DrainTimer
    <3> QED BY <3>1
  <2> QED BY <1>1, <1>2, <2>2, <2>3, <2>4, <2>5, <2>6, <2>7
          DEF Gate, Begin, Refuse, Route, Resolve, GiveUp, Rule, Announce, Ask,
              Say, AnswerPermission, Decide
<1>3. CASE SessionStep \/ HandleUpdate \/ HandlePermission \/ UNCHANGED vars
  BY <1>1, <1>3, SessionLeaves DEF HandleUpdate, HandlePermission, vars
<1> QED BY <1>2, <1>3, OwnCalls DEF Next, SessionStep

LEMMA DevinTypes == ASSUME TypeOK, BusyInv, [Next]_vars PROVE DevinOK'
<1> USE DEF TypeOK, DevinOK, devin
<1>1. CASE UNCHANGED devin
  BY <1>1
<1>2. ASSUME pipe # <<>>
      PROVE  /\ Head(pipe) \in Messages /\ Tail(pipe) \in Seq(Messages)
             /\ Head(pipe).call \in Calls /\ Head(pipe).nth \in Nat
  BY <1>2, OldestMessage
<1>3. CASE HandleUpdate
  BY <1>2, <1>3 DEF HandleUpdate, Listening
<1>4. CASE HandlePermission
  <2> DEFINE c == Head(pipe).call
  <2>1. c \in Calls /\ Tail(pipe) \in Seq(Messages)
    BY <1>2, <1>4 DEF HandlePermission, Listening
  <2>2. judged' = judged \/ judged' = [judged EXCEPT ![c] = @ \cup {cache[c]}]
    BY <1>4 DEF HandlePermission
  <2>3. judged' \in [Calls -> SUBSET Nat]
    <3>1. judged[c] \cup {cache[c]} \in SUBSET Nat
      BY <2>1
    <3> HIDE DEF c
    <3> QED BY <2>1, <2>2, <3>1
  <2>4. pipe' \in Seq(Messages) /\ busy' \in Calls \cup {Nobody}
    BY <1>4, <2>1 DEF HandlePermission
  <2> QED BY <1>4, <2>3, <2>4 DEF HandlePermission
<1>5. ASSUME NEW c \in Calls, Gate(c) PROVE DevinOK'
  <2>1. CASE Announce(c)
    <3>1. [call |-> c, what |-> "tool_call", nth |-> told[c] + 1,
           once |-> FALSE] \in Messages
      BY DEF Messages
    <3>2. pipe' \in Seq(Messages)
      BY <2>1, <3>1 DEF Announce, Say
    <3>3. told' \in [Calls -> Nat]
      BY <2>1 DEF Announce
    <3> QED BY <2>1, <3>2, <3>3 DEF Announce, Say
  <2>2. CASE \E once \in BOOLEAN : Ask(c, once)
    <3>1. \A once \in BOOLEAN :
            [call |-> c, what |-> "ask", nth |-> told[c], once |-> once]
              \in Messages
      BY DEF Messages
    <3> QED BY <2>2, <3>1 DEF Ask, Say
  <2>3. CASE AnswerPermission(c)
    <3>1. pipe # <<>> /\ cache' \in [Calls -> Nat]
      BY <2>3, GatesAssumption
         DEF AnswerPermission, Forget, BusyInv, GatesAssumption
    <3> QED BY <1>2, <2>3, <3>1 DEF AnswerPermission
  <2> QED BY <1>1, <1>5, <2>1, <2>2, <2>3
          DEF Gate, Begin, Refuse, Route, Resolve, GiveUp, Rule,
              HandleToolCall, Abort, StopChild, ChildExits, Close, DrainTimer,
              Decide
<1>6. CASE SessionStep \/ UNCHANGED vars
  BY <1>1, <1>6, SessionLeaves DEF vars
<1> QED BY <1>3, <1>4, <1>5, <1>6, OwnCalls DEF Next, SessionStep

LEMMA TypeStep == ASSUME Inv, [Next]_vars PROVE TypeOK'
BY SessionTypes, GateTypes, PlugTypes, DevinTypes DEF Inv, TypeOK

-----------------------------------------------------------------------------
(* Doors and permissions                                                   *)

LEMMA DoorStep == ASSUME Inv, [Next]_vars PROVE DoorInv'
<1> DEFINE Known(c) ==
      /\ setup.agent = "deepseek" /\ pc[c] # "idle" => door[c] = "deepseek"
      /\ plug[c].child # "none" => setup.agent = "deepseek" /\ pc[c] # "idle"
      /\ plug[c].aborted => setup.agent = "deepseek"
      /\ plug[c].settled => plug[c].child # "none"
      /\ setup.agent = "devin" /\ pc[c] # "idle" =>
           busy = c /\ door[c] = "devin"
<1> DEFINE Asked == busy # Nobody => setup.agent = "devin"
<1>0. /\ \A c \in Calls : Known(c)
      /\ Asked /\ setup' = setup
      /\ pc \in [Calls -> {"idle", "posted", "resolving", "answered", "ruled"}]
      /\ door \in [Calls -> Doors] /\ plug \in [Calls -> Plugs]
  BY SetupStays DEF Inv, DoorInv, TypeOK, GateOK
<1> SUFFICES (\A c \in Calls : Known(c)') /\ Asked'
  BY DEF DoorInv
<1>1. CASE UNCHANGED <<pc, door, plug, busy>>
  BY <1>0, <1>1
<1>2. CASE HandlePermission
  <2> DEFINE h == Head(pipe).call
  <2>1. /\ setup.agent = "devin" /\ busy = Nobody /\ h \in Calls
        /\ door' = [door EXCEPT ![h] = "devin"] /\ plug' = plug
    BY <1>2, OldestMessage
       DEF HandlePermission, Listening, Inv, TypeOK, DevinOK
  <2>2. \A c \in Calls : pc[c] = "idle"
    BY <1>0, <2>1, GatesAssumption DEF GatesAssumption
  <2>3. \/ pc' = pc
        \/ pc' = [pc EXCEPT ![h] = Posted] /\ busy' = h
    BY <1>2 DEF HandlePermission
  <2> HIDE DEF h
  <2> QED BY <1>0, <2>1, <2>2, <2>3
<1>3. ASSUME NEW c \in Calls, Gate(c)
      PROVE  (\A d \in Calls : Known(d)') /\ Asked'
  <2>1. CASE \E d \in {"hook", "request"} : Begin(c, d) \/ Refuse(c, d)
    BY <1>0, <2>1 DEF Begin, Refuse, Commands, devin
  <2>2. CASE Route(c) \/ Resolve(c) \/ GiveUp(c) \/ Rule(c)
    BY <1>0, <2>2 DEF Route, Resolve, GiveUp, Rule, devin
  <2>3. CASE AnswerPermission(c)
    <3>1. setup.agent = "devin"
      BY <1>0, <2>3, GatesAssumption DEF AnswerPermission, GatesAssumption
    <3> QED BY <1>0, <2>3, <3>1 DEF AnswerPermission
  <2>4. CASE HandleToolCall(c)
    <3>1. setup.agent = "deepseek" /\ door' = [door EXCEPT ![c] = "deepseek"]
      BY <2>4 DEF HandleToolCall, Native
    <3>2. UNCHANGED busy /\ \A d \in Calls \ {c} : pc'[d] = pc[d]
      BY <1>0, <2>4 DEF HandleToolCall, devin
    <3>3. pc'[c] # "idle"
      BY <1>0, <2>4 DEF HandleToolCall, Posted
    <3>4. /\ \A d \in Calls \ {c} : plug'[d] = plug[d]
          /\ plug'[c].settled = plug[c].settled
          /\ plug'[c].child \in {"running", plug[c].child}
      BY <1>0, <2>4 DEF HandleToolCall, Plugs
    <3> QED BY <1>0, <3>1, <3>2, <3>3, <3>4
  <2>5. CASE Abort(c) \/ StopChild(c) \/ ChildExits(c) \/ Close(c)
             \/ DrainTimer(c)
    <3>1. setup.agent = "deepseek" /\ UNCHANGED <<pc, door, busy>>
      BY <2>5 DEF Abort, StopChild, ChildExits, Close, DrainTimer, Unsettled,
                  Native, gate, devin
    <3>2. \A d \in Calls :
            /\ plug'[d].child # "none" <=> plug[d].child # "none"
            /\ plug'[d].settled => plug[d].settled \/ plug[d].child # "none"
      BY <1>0, <2>5 DEF Abort, StopChild, ChildExits, Close, DrainTimer,
                        Unsettled, Plugs
    <3> QED BY <1>0, <3>1, <3>2
  <2>6. CASE Decide(c)
    BY <1>0, <2>6 DEF Decide, devin
  <2>7. CASE Announce(c) \/ \E once \in BOOLEAN : Ask(c, once)
    BY <1>1, <2>7 DEF Announce, Ask, Say, gate
  <2> QED BY <1>3, <2>1, <2>2, <2>3, <2>4, <2>5, <2>6, <2>7 DEF Gate
<1>4. CASE SessionStep \/ HandleUpdate \/ UNCHANGED vars
  BY <1>1, <1>4, SessionLeaves DEF HandleUpdate, vars, gate, devin
<1> QED BY <1>2, <1>3, <1>4, OwnCalls DEF Next, SessionStep, Inv

LEMMA BusyStep == ASSUME Inv, [Next]_vars PROVE BusyInv'
<1>0. /\ pipe \in Seq(Messages) /\ BusyInv
      /\ Nobody \notin Calls
  BY GatesAssumption DEF GatesAssumption, Inv, TypeOK, DevinOK
<1>1. CASE UNCHANGED <<busy, pipe>>
  BY <1>0, <1>1 DEF BusyInv
<1>2. CASE HandlePermission
  BY <1>0, <1>2 DEF BusyInv, HandlePermission, Listening
<1>3. CASE HandleUpdate
  BY <1>0, <1>3 DEF BusyInv, HandleUpdate, Listening
<1>4. ASSUME NEW c \in Calls, Gate(c) PROVE BusyInv'
  <2>1. CASE Announce(c) \/ \E once \in BOOLEAN : Ask(c, once)
    <3>1. PICK m : Say(m)
      BY <2>1 DEF Announce, Ask
    <3>2. pipe # <<>> => pipe' # <<>> /\ Head(pipe') = Head(pipe)
      BY <1>0, <3>1 DEF Say
    <3> QED BY <1>0, <3>1, <3>2 DEF BusyInv, Say
  <2>2. CASE AnswerPermission(c)
    BY <2>2 DEF AnswerPermission, BusyInv
  <2> QED BY <1>1, <1>4, <2>1, <2>2
          DEF Gate, Begin, Refuse, Route, Resolve, GiveUp, Rule, HandleToolCall,
              Abort, StopChild, ChildExits, Close, DrainTimer, Decide, devin
<1>5. CASE SessionStep \/ UNCHANGED vars
  BY <1>1, <1>5, SessionLeaves DEF vars, devin
<1> QED BY <1>2, <1>3, <1>4, <1>5, OwnCalls DEF Next, SessionStep, Inv

-----------------------------------------------------------------------------
(* Answers                                                                 *)

LEMMA AnswerStep == ASSUME Inv, [Next]_vars PROVE AnswerInv'
<1> DEFINE Good(c) ==
      /\ Passes(door[c], answer[c]) => Granted(c)
      /\ verdict[c] = "pass" => Passes(door[c], answer[c])
      /\ pc[c] \in Exchanging => verdict[c] = "none"
      /\ pc[c] = "idle" /\ setup.agent # "devin" =>
           answer[c] = Failed /\ verdict[c] = "none"
<1>0. /\ \A c \in Calls : Good(c)
      /\ setup' = setup
      /\ pc \in [Calls -> {"idle", "posted", "resolving", "answered", "ruled"}]
      /\ door \in [Calls -> Doors] /\ answer \in [Calls -> Results]
      /\ verdict \in [Calls -> {"none", "pass", "block", "cancel"}]
      /\ setup.default \in {"allow", "deny"} /\ setup.strict \in BOOLEAN
      /\ setup.controller \in BOOLEAN
  BY SetupStays DEF Inv, AnswerInv, TypeOK, GateOK, SessionOK, Setups
<1> SUFFICES ASSUME NEW d \in Calls PROVE Good(d)'
  BY DEF AnswerInv
<1>1. CASE pc'[d] = pc[d] /\ door'[d] = door[d] /\ answer'[d] = answer[d]
           /\ verdict'[d] = verdict[d]
  BY <1>0, <1>1 DEF Granted
<1>2. CASE HandlePermission
  <2>1. CASE d # Head(pipe).call
    <3>1. Head(pipe).call \in Calls
      BY <1>2, OldestMessage DEF HandlePermission, Listening, Inv, TypeOK, DevinOK
    <3> QED BY <1>0, <1>1, <1>2, <2>1, <3>1 DEF HandlePermission
  <2>2. CASE d = Head(pipe).call
    <3>1. answer'[d] = Failed /\ door'[d] = "devin" /\ setup.agent = "devin"
      BY <1>0, <1>2, <2>2 DEF HandlePermission, Listening
    <3>2. ~Passes(door'[d], answer'[d])
      BY <3>1, FailedBlocks DEF Doors
    <3>3. pc[d] = "idle"
      BY <3>1, <2>2, <1>2, OldestMessage, GatesAssumption
         DEF HandlePermission, Listening, Inv, DoorInv, GatesAssumption
    <3>4. /\ verdict'[d] \in {"none", "block"}
          /\ pc'[d] \in Exchanging => verdict'[d] = "none"
      BY <1>0, <1>2, <2>2, <3>3 DEF HandlePermission, Exchanging
    <3> QED BY <1>0, <3>1, <3>2, <3>4
  <2> QED BY <2>1, <2>2
<1>3. CASE Gate(d)
  <2>1. CASE \E t \in {"hook", "request"} : Begin(d, t) \/ Refuse(d, t)
    <3>1. PICK t \in {"hook", "request"} : Begin(d, t) \/ Refuse(d, t)
      BY <2>1
    <3>2. /\ answer' = answer /\ answer[d] = Failed /\ door'[d] = t
          /\ verdict[d] = "none" /\ verdict'[d] \in {"none", "block"}
          /\ pc'[d] \in Exchanging => verdict'[d] = "none"
          /\ pc'[d] # "idle"
      BY <1>0, <3>1 DEF Begin, Refuse, Commands, Posted, Exchanging
    <3>3. ~Passes(door'[d], answer'[d])
      BY <3>2, FailedBlocks DEF Doors
    <3> QED BY <1>0, <3>2, <3>3
  <2>2. CASE Route(d)
    <3>1. verdict' = verdict /\ door' = door /\ pc[d] = "posted"
      BY <2>2 DEF Route
    <3>2. verdict[d] = "none"
      BY <1>0, <3>1 DEF Exchanging
    <3>3. CASE setup.controller
      BY <1>0, <2>2, <3>1, <3>2, <3>3 DEF Route, Granted
    <3>4. CASE ~setup.controller
      <4>1. /\ answer'[d] = Received(door[d], Written(door[d],
                                         Unrouted(door[d], setup.strict)))
            /\ pc'[d] = "answered"
        BY <1>0, <2>2, <3>4 DEF Route
      <4>2. Passes(door'[d], answer'[d]) =>
              ~setup.strict /\ door[d] \in {"hook", "devin"}
        BY <1>0, <3>1, <4>1, UnroutedPasses
      <4> QED BY <1>0, <3>1, <3>2, <3>4, <4>1, <4>2 DEF Granted
    <3> QED BY <3>3, <3>4
  <2>3. CASE Resolve(d)
    <3>1. /\ verdict' = verdict /\ door' = door /\ pc[d] = "resolving"
          /\ pc'[d] = "answered"
      BY <1>0, <2>3 DEF Resolve
    <3>2. verdict[d] = "none"
      BY <1>0, <3>1 DEF Exchanging
    <3>3. PICK r \in Resolutions(setup.default) :
            answer'[d] = Received(door[d], Written(door[d],
                                                   Delivered(door[d], r)))
      BY <1>0, <2>3 DEF Resolve
    <3>4. Passes(door'[d], answer'[d]) =>
            /\ answer'[d].outcome = "allow"
            /\ \/ answer'[d].basis = "reply"
               \/ /\ answer'[d].basis = "default" /\ setup.default = "allow"
                  /\ door[d] # "deepseek"
      BY <1>0, <3>1, <3>3, ResolvedPasses
    <3> QED BY <1>0, <3>1, <3>2, <3>4 DEF Granted
  <2>4. CASE GiveUp(d)
    <3>1. /\ verdict' = verdict /\ door' = door /\ answer'[d] = Failed
          /\ pc[d] \in Exchanging /\ pc'[d] = "answered"
      BY <1>0, <2>4 DEF GiveUp, Exchanging
    <3>2. ~Passes(door'[d], answer'[d])
      BY <1>0, <3>1, FailedBlocks
    <3> QED BY <1>0, <3>1, <3>2
  <2>5. CASE Rule(d)
    <3>1. /\ door' = door /\ answer' = answer /\ pc'[d] = "ruled"
          /\ verdict'[d] = "pass" => Passes(door[d], answer[d])
      BY <1>0, <2>5 DEF Rule
    <3> QED BY <1>0, <3>1 DEF Granted, Exchanging
  <2>6. CASE AnswerPermission(d)
    <3>1. setup.agent = "devin"
      BY <2>6, GatesAssumption
         DEF AnswerPermission, Inv, DoorInv, GatesAssumption
    <3>2. /\ door' = door /\ answer' = answer /\ pc'[d] = "idle"
      BY <1>0, <2>6 DEF AnswerPermission
    <3>3. verdict'[d] = "pass" => Passes("devin", answer[d])
      BY <1>0, <2>6 DEF AnswerPermission
    <3>4. door[d] = "devin"
      BY <2>6, <3>1 DEF AnswerPermission, Inv, DoorInv
    <3> QED BY <1>0, <3>1, <3>2, <3>3, <3>4 DEF Granted, Exchanging
  <2>7. CASE HandleToolCall(d)
    <3>1. /\ answer' = answer /\ answer[d] = Failed /\ door'[d] = "deepseek"
          /\ verdict[d] = "none" /\ verdict'[d] # "pass"
          /\ pc'[d] \in Exchanging => verdict'[d] = "none"
          /\ pc'[d] # "idle"
      BY <1>0, <2>7 DEF HandleToolCall, Native, Posted, Exchanging
    <3>2. ~Passes(door'[d], answer'[d])
      BY <3>1, FailedBlocks DEF Doors
    <3> QED BY <1>0, <3>1, <3>2
  <2>8. CASE Decide(d)
    <3>1. /\ door' = door /\ answer' = answer /\ pc'[d] = "ruled"
          /\ verdict'[d] = "pass" => Passes("deepseek", answer[d])
      BY <1>0, <2>8 DEF Decide
    <3>2. door[d] = "deepseek"
      BY <2>8 DEF Decide, Native, Inv, DoorInv
    <3> QED BY <1>0, <3>1, <3>2 DEF Granted, Exchanging
  <2> QED BY <1>1, <1>3, <2>1, <2>2, <2>3, <2>4, <2>5, <2>6, <2>7, <2>8
          DEF Gate, Announce, Ask, Say, Abort, StopChild, ChildExits, Close,
              DrainTimer, gate
<1>4. ASSUME NEW c \in Calls \ {d}, Gate(c) PROVE Good(d)'
  <2>1. /\ pc'[d] = pc[d] /\ door'[d] = door[d]
        /\ answer'[d] = answer[d] /\ verdict'[d] = verdict[d]
    BY <1>0, <1>4
       DEF Gate, Begin, Refuse, Route, Resolve, GiveUp, Rule, Announce, Ask,
           Say, AnswerPermission, HandleToolCall, Abort, StopChild, ChildExits,
           Close, DrainTimer, Decide, gate
  <2> QED BY <1>1, <2>1
<1>5. CASE SessionStep \/ HandleUpdate \/ UNCHANGED vars
  BY <1>1, <1>5, SessionLeaves DEF HandleUpdate, vars, gate
<1> QED BY <1>2, <1>3, <1>4, <1>5, OwnCalls DEF Next, SessionStep, Inv

-----------------------------------------------------------------------------
(* Announcements and questions                                             *)

(* A message that is said stands behind all others.                        *)
LEMMA Said ==
  ASSUME pipe \in Seq(Messages), NEW m \in Messages, pipe' = Append(pipe, m)
  PROVE  /\ Len(pipe') = Len(pipe) + 1
         /\ pipe'[Len(pipe) + 1] = m
         /\ \A i \in 1 .. Len(pipe) : pipe'[i] = pipe[i]
         /\ \A i \in 1 .. Len(pipe) : pipe[i] \in Messages
BY AppendProperties, ElementOfSeq

LEMMA Taken ==
  ASSUME pipe \in Seq(Messages), pipe # <<>>, pipe' = Tail(pipe)
  PROVE  /\ Len(pipe) \in Nat \ {0} /\ Len(pipe') = Len(pipe) - 1
         /\ Head(pipe) = pipe[1]
         /\ \A i \in 1 .. Len(pipe') : pipe'[i] = pipe[i + 1]
         /\ \A i \in 1 .. Len(pipe) : pipe[i] \in Messages
<1>1. Len(pipe) \in Nat \ {0} /\ \A i \in 1 .. Len(pipe) : pipe[i] \in Messages
  BY EmptySeq, ElementOfSeq, LenProperties
<1>2. /\ Len(Tail(pipe)) = Len(pipe) - 1
      /\ \A i \in 1 .. Len(Tail(pipe)) : Tail(pipe)[i] = pipe[i + 1]
  BY HeadTailProperties
<1> QED BY <1>1, <1>2

(* A message more leaves what was the newest as it is, unless it announces *)
(* a newer one.                                                            *)
LEMMA SayStep ==
  ASSUME Inv, NEW m \in Messages, pipe' = Append(pipe, m),
         UNCHANGED <<cache, busy, judged>>,
         told' \in [Calls -> Nat],
         \A d \in Calls \ {m.call} : told'[d] = told[d],
         IF m.what = "tool_call"
           THEN told'[m.call] = told[m.call] + 1 /\ m.nth = told'[m.call]
           ELSE told'[m.call] = told[m.call] /\ m.nth = told[m.call]
  PROVE  PipeInv' /\ OrderInv'
<1> PICK n \in Nat : n = Len(pipe)
  BY LenProperties DEF Inv, TypeOK, DevinOK
<1>0. /\ PipeInv /\ OrderInv /\ pipe \in Seq(Messages)
      /\ told \in [Calls -> Nat] /\ cache \in [Calls -> Nat]
      /\ judged \in [Calls -> SUBSET Nat]
      /\ n = Len(pipe) /\ m.call \in Calls /\ m.what \in {"tool_call", "ask"}
      /\ m.nth \in Nat
  BY DEF Inv, TypeOK, DevinOK, Messages
<1>1. /\ Len(pipe') = n + 1 /\ pipe'[n + 1] = m
      /\ \A i \in 1 .. n : pipe'[i] = pipe[i]
      /\ \A i \in 1 .. n : pipe[i].call \in Calls /\ pipe[i].nth \in Nat
                           /\ pipe[i].what \in {"tool_call", "ask"}
  BY <1>0, Said DEF Messages
<1>2. /\ \A c : \A i \in 1 .. n : Announces(i, c)' <=> Announces(i, c)
      /\ \A c : Announces(n + 1, c)' <=> m.call = c /\ m.what = "tool_call"
  BY <1>0, <1>1 DEF Announces
<1>3. \A c, k : \A j \in 1 .. n + 1 : Newest(c, j, k) => Newest(c, j, k)'
  BY <1>0, <1>1, <1>2 DEF Newest
<1>4. \A c \in Calls : \A i \in 1 .. n : Announces(i, c) =>
        /\ pipe[i].nth <= told[c] /\ cache[c] < pipe[i].nth
        /\ \A k \in judged[c] : k < pipe[i].nth
  BY <1>0 DEF OrderInv
<1>5. ASSUME NEW i \in 1 .. n + 1, NEW j \in 1 .. n + 1, i < j,
             Announces(i, pipe[j].call)'
      PROVE  IF pipe'[j].what = "tool_call" THEN pipe'[i].nth < pipe'[j].nth
                                            ELSE pipe'[i].nth <= pipe'[j].nth
  <2>1. i \in 1 .. n /\ pipe'[i] = pipe[i]
    BY <1>0, <1>1, <1>5
  <2>2. CASE j \in 1 .. n
    <3>1. pipe'[j] = pipe[j] /\ Announces(i, pipe[j].call)
      BY <1>1, <1>2, <1>5, <2>1, <2>2 DEF Announces
    <3> QED BY <1>0, <1>5, <2>1, <2>2, <3>1 DEF PipeInv
  <2>3. CASE j = n + 1
    <3>1. pipe'[j] = m /\ Announces(i, m.call)
      BY <1>1, <1>2, <1>5, <2>1, <2>3 DEF Announces
    <3>2. pipe[i].nth <= told[m.call] /\ pipe[i].nth \in Nat
      BY <1>0, <1>1, <1>4, <2>1, <3>1
    <3> QED BY <1>0, <2>1, <3>1, <3>2
  <2> QED BY <1>0, <2>2, <2>3
<1>6. ASSUME NEW j \in 1 .. n + 1, pipe'[j].what = "ask"
      PROVE  Newest(pipe[j].call, j, pipe[j].nth)'
  <2>1. CASE j \in 1 .. n
    BY <1>0, <1>1, <1>3, <1>6, <2>1 DEF PipeInv
  <2>2. CASE j = n + 1
    <3>1. Newest(m.call, n + 1, m.nth)
      BY <1>0, <1>1, <1>6, <2>2 DEF PipeInv
    <3> QED BY <1>0, <1>1, <1>3, <2>2, <3>1
  <2> QED BY <1>0, <2>1, <2>2
<1>7. ASSUME NEW c \in Calls PROVE Newest(c, Len(pipe) + 1, told[c])'
  <2>1. Newest(c, n + 1, told[c])
    BY <1>0 DEF PipeInv
  <2>2. CASE m.call = c /\ m.what = "tool_call"
    <3>1. Announces(n + 1, c)' /\ pipe'[n + 1].nth = told'[c]
      BY <1>1, <1>2, <2>2
    <3>2. n + 1 \in 1 .. (n + 2) - 1 /\ Len(pipe') + 1 = n + 2
      BY <1>0, <1>1
    <3> QED BY <3>1, <3>2 DEF Newest
  <2>3. CASE ~(m.call = c /\ m.what = "tool_call")
    <3>1. told'[c] = told[c] /\ ~Announces(n + 1, c)'
      BY <1>0, <1>2, <2>3
    <3> QED BY <1>0, <1>1, <1>2, <2>1, <3>1 DEF Newest
  <2> QED BY <2>2, <2>3
<1>8. ASSUME NEW c \in Calls, NEW i \in 1 .. n + 1, Announces(i, c)'
      PROVE  /\ pipe'[i].nth <= told'[c] /\ cache[c] < pipe'[i].nth
             /\ \A k \in judged[c] : k < pipe'[i].nth
  <2>1. cache[c] <= told[c] /\ \A k \in judged[c] : k \in Nat /\ k <= told[c]
    BY <1>0 DEF OrderInv
  <2>2. told'[c] \in {told[c], told[c] + 1}
    BY <1>0
  <2>3. CASE i \in 1 .. n
    BY <1>0, <1>1, <1>2, <1>4, <1>8, <2>2, <2>3
  <2>4. CASE i = n + 1
    BY <1>0, <1>1, <1>2, <1>8, <2>1, <2>4
  <2> QED BY <1>0, <2>3, <2>4
<1>9. \A c \in Calls :
        /\ cache[c] <= told'[c]
        /\ \A k \in judged[c] : k <= told'[c]
        /\ busy # c /\ cache[c] # 0 => cache[c] \notin judged[c]
  <2>1. SUFFICES ASSUME NEW c \in Calls
                 PROVE  /\ cache[c] <= told'[c]
                        /\ \A k \in judged[c] : k <= told'[c]
                        /\ busy # c /\ cache[c] # 0 => cache[c] \notin judged[c]
    OBVIOUS
  <2>2. told'[c] \in {told[c], told[c] + 1} /\ judged[c] \subseteq Nat
    BY <1>0
  <2> QED BY <1>0, <2>2 DEF OrderInv
<1>10. PipeInv'
  BY <1>1, <1>5, <1>6, <1>7 DEF PipeInv
<1> QED BY <1>1, <1>8, <1>9, <1>10 DEF OrderInv

(* The oldest message is read: an announcement goes to the cache, the      *)
(* answer to a question may clear it.                                      *)
LEMMA ReadStep ==
  ASSUME Inv, pipe # <<>>, pipe' = Tail(pipe), UNCHANGED <<told, judged>>,
         cache' \in [Calls -> Nat],
         \A c \in Calls :
           IF Announces(1, c) THEN cache'[c] = pipe[1].nth
           ELSE cache'[c] = 0 \/ (cache'[c] = cache[c] /\ busy # c)
  PROVE  PipeInv' /\ OrderInv'
<1>0. /\ PipeInv /\ OrderInv /\ pipe \in Seq(Messages)
      /\ told \in [Calls -> Nat] /\ cache \in [Calls -> Nat]
      /\ judged \in [Calls -> SUBSET Nat]
  BY DEF Inv, TypeOK, DevinOK
<1> PICK n \in Nat : n = Len(pipe')
  <2>1. Len(pipe) \in Nat \ {0} /\ Len(pipe') = Len(pipe) - 1
    BY <1>0, Taken
  <2>2. Len(pipe') \in Nat
    BY <2>1
  <2> QED BY <2>2
<1>1. /\ Len(pipe') = n /\ Len(pipe) = n + 1
      /\ \A i \in 1 .. n : i + 1 \in 1 .. n + 1 /\ pipe'[i] = pipe[i + 1]
      /\ \A i \in 1 .. n + 1 : pipe[i].call \in Calls /\ pipe[i].nth \in Nat
                               /\ pipe[i].what \in {"tool_call", "ask"}
  <2>1. Len(pipe) \in Nat \ {0} /\ n = Len(pipe) - 1
    BY <1>0, Taken
  <2>2. /\ \A i \in 1 .. n : pipe'[i] = pipe[i + 1]
        /\ \A i \in 1 .. Len(pipe) : pipe[i] \in Messages
    BY <1>0, Taken
  <2> QED BY <2>1, <2>2 DEF Messages
<1>2. \A c : \A i \in 1 .. n : Announces(i, c)' <=> Announces(i + 1, c)
  BY <1>1 DEF Announces
<1>3. ASSUME NEW c \in Calls, NEW i \in 1 .. n + 1, Announces(i, c)
      PROVE  /\ pipe[i].nth <= told[c] /\ cache[c] < pipe[i].nth
             /\ \A k \in judged[c] : k < pipe[i].nth
             /\ Announces(1, c) /\ 1 < i => pipe[1].nth < pipe[i].nth
  <2>1. 1 \in 1 .. Len(pipe) /\ i \in 1 .. Len(pipe)
    BY <1>1
  <2>2. /\ pipe[i].nth <= told[c] /\ cache[c] < pipe[i].nth
        /\ \A k \in judged[c] : k < pipe[i].nth
    BY <1>0, <1>3, <2>1 DEF OrderInv
  <2>3. Announces(1, c) /\ 1 < i => pipe[1].nth < pipe[i].nth
    BY <1>0, <1>3, <2>1 DEF PipeInv, Announces
  <2> QED BY <2>2, <2>3
<1>4. ASSUME NEW c \in Calls, NEW j \in 1 .. n + 1, NEW k \in Nat,
             Newest(c, j + 1, k),
             \A i \in 2 .. j : Announces(i, c) => pipe[i].nth <= k
      PROVE  Newest(c, j, k)'
  <2>1. \A i \in 1 .. j - 1 : Announces(i, c)' <=> Announces(i + 1, c)
    BY <1>1, <1>2
  <2>2. CASE \E i \in 2 .. j : Announces(i, c) /\ pipe[i].nth = k
    <3>1. PICK i \in 2 .. j : Announces(i, c) /\ pipe[i].nth = k
      BY <2>2
    <3>2. i - 1 \in 1 .. j - 1 /\ (i - 1) + 1 = i /\ i - 1 \in 1 .. n
      BY <1>1
    <3>3. Announces(i - 1, c)' /\ pipe'[i - 1].nth = k
      BY <1>1, <2>1, <3>1, <3>2
    <3> QED BY <3>2, <3>3 DEF Newest
  <2>3. CASE \A i \in 2 .. j : ~(Announces(i, c) /\ pipe[i].nth = k)
    <3>1. ASSUME Announces(1, c)
          PROVE  pipe[1].nth = k /\ \A i \in 2 .. j : ~Announces(i, c)
      <4>1. \E i \in 1 .. j : Announces(i, c)
        BY <1>1, <3>1
      <4>2. pipe[1].nth = k
        BY <1>1, <1>4, <2>3, <4>1 DEF Newest
      <4>3. ASSUME NEW i \in 2 .. j, Announces(i, c) PROVE FALSE
        <5>1. i \in 1 .. n + 1 /\ 1 < i
          BY <1>1
        <5>2. pipe[1].nth < pipe[i].nth /\ pipe[i].nth <= k
          BY <1>3, <1>4, <3>1, <4>3, <5>1
        <5>3. pipe[1].nth \in Nat /\ pipe[i].nth \in Nat
          BY <1>1, <5>1
        <5> QED BY <4>2, <5>2, <5>3
      <4> QED BY <4>2, <4>3
    <3>2. ASSUME ~Announces(1, c)
          PROVE  cache[c] \in {0, k} /\ \A i \in 2 .. j : ~Announces(i, c)
      <4>1. \A i \in 1 .. j : i = 1 \/ i \in 2 .. j
        BY <1>1
      <4>2. ~\E i \in 1 .. (j + 1) - 1 : Announces(i, c) /\ pipe[i].nth = k
        BY <1>1, <2>3, <3>2, <4>1
      <4>3. (\A i \in 1 .. (j + 1) - 1 : ~Announces(i, c)) /\ cache[c] \in {0, k}
        BY <1>4, <4>2 DEF Newest
      <4> QED BY <1>1, <4>3
    <3>3. cache'[c] \in {0, k} /\ \A i \in 2 .. j : ~Announces(i, c)
      BY <3>1, <3>2
    <3>4. \A i \in 1 .. j - 1 : i + 1 \in 2 .. j
      BY <1>1
    <3>5. \A i \in 1 .. j - 1 : ~Announces(i, c)'
      BY <2>1, <3>3, <3>4
    <3> QED BY <3>3, <3>5 DEF Newest
  <2> QED BY <2>2, <2>3
<1>5. PipeInv'
  <2>1. ASSUME NEW i \in 1 .. n, NEW j \in 1 .. n, i < j,
               Announces(i, pipe[j].call)'
        PROVE  IF pipe'[j].what = "tool_call" THEN pipe'[i].nth < pipe'[j].nth
                                              ELSE pipe'[i].nth <= pipe'[j].nth
    <3>1. /\ pipe'[i] = pipe[i + 1] /\ pipe'[j] = pipe[j + 1]
          /\ i + 1 \in 1 .. n + 1 /\ j + 1 \in 1 .. n + 1 /\ i + 1 < j + 1
          /\ Announces(i + 1, pipe[j + 1].call)
      BY <1>1, <2>1 DEF Announces
    <3> QED BY <1>0, <1>1, <3>1 DEF PipeInv
  <2>2. ASSUME NEW j \in 1 .. n, pipe'[j].what = "ask"
        PROVE  Newest(pipe[j].call, j, pipe[j].nth)'
    <3> PICK c \in Calls, k \in Nat :
               c = pipe[j + 1].call /\ k = pipe[j + 1].nth
      BY <1>1
    <3>1. /\ pipe'[j] = pipe[j + 1] /\ j + 1 \in 1 .. Len(pipe)
          /\ j \in 1 .. n + 1
      BY <1>1
    <3>2. Newest(c, j + 1, k)
      BY <1>0, <2>2, <3>1 DEF PipeInv
    <3>3. ASSUME NEW i \in 2 .. j, Announces(i, c) PROVE pipe[i].nth <= k
      <4>1. i \in 1 .. Len(pipe) /\ i < j + 1
        BY <1>1
      <4> QED BY <1>0, <2>2, <3>1, <3>3, <4>1 DEF PipeInv
    <3>4. Newest(c, j, k)'
      BY <1>4, <3>1, <3>2, <3>3
    <3> QED BY <3>1, <3>4 DEF Newest, Announces
  <2>3. ASSUME NEW c \in Calls PROVE Newest(c, n + 1, told[c])'
    <3>1. Newest(c, (n + 1) + 1, told[c]) /\ told[c] \in Nat
      BY <1>0, <1>1 DEF PipeInv
    <3>2. \A i \in 2 .. n + 1 : Announces(i, c) => pipe[i].nth <= told[c]
      BY <1>1, <1>3
    <3> PICK k \in Nat : k = told[c]
      BY <3>1
    <3>3. /\ n + 1 \in 1 .. n + 1 /\ Newest(c, (n + 1) + 1, k)
          /\ \A i \in 2 .. n + 1 : Announces(i, c) => pipe[i].nth <= k
      BY <3>1, <3>2
    <3>4. Newest(c, n + 1, k)'
      BY <1>4, <3>3, c \in Calls, k \in Nat
    <3> QED BY <3>4 DEF Newest
  <2> QED BY <1>1, <2>1, <2>2, <2>3 DEF PipeInv
<1>6. OrderInv'
  <2> SUFFICES ASSUME NEW c \in Calls
               PROVE  /\ cache'[c] <= told[c]
                      /\ \A k \in judged[c] : k <= told[c]
                      /\ \A i \in 1 .. n : Announces(i, c)' =>
                           /\ pipe'[i].nth <= told[c]
                           /\ cache'[c] < pipe'[i].nth
                           /\ \A k \in judged[c] : k < pipe'[i].nth
                      /\ cache'[c] # 0 => cache'[c] \notin judged[c]
    BY <1>1 DEF OrderInv
  <2>1. /\ cache[c] <= told[c] /\ \A k \in judged[c] : k <= told[c]
        /\ busy # c /\ cache[c] # 0 => cache[c] \notin judged[c]
        /\ judged[c] \subseteq Nat /\ cache[c] \in Nat /\ told[c] \in Nat
        /\ cache'[c] \in Nat
    BY <1>0 DEF OrderInv
  <2>2. ASSUME Announces(1, c)
        PROVE  cache'[c] <= told[c] /\ cache'[c] \notin judged[c]
    <3>1. pipe[1].nth <= told[c] /\ \A k \in judged[c] : k < pipe[1].nth
      BY <1>1, <1>3, <2>2
    <3> QED BY <1>1, <2>1, <2>2, <3>1
  <2>3. ASSUME NEW i \in 1 .. n, Announces(i, c)'
        PROVE  /\ pipe'[i].nth <= told[c] /\ cache'[c] < pipe'[i].nth
               /\ \A k \in judged[c] : k < pipe'[i].nth
    <3>1. /\ i + 1 \in 1 .. n + 1 /\ pipe'[i] = pipe[i + 1] /\ 1 < i + 1
          /\ Announces(i + 1, c) /\ pipe[i + 1].nth \in Nat
      BY <1>1, <1>2, <2>3
    <3>2. /\ pipe[i + 1].nth <= told[c] /\ cache[c] < pipe[i + 1].nth
          /\ \A k \in judged[c] : k < pipe[i + 1].nth
          /\ Announces(1, c) => pipe[1].nth < pipe[i + 1].nth
      BY <1>3, <3>1
    <3> QED BY <2>1, <3>1, <3>2
  <2> QED BY <2>1, <2>2, <2>3
<1> QED BY <1>5, <1>6

LEMMA PipeStep == ASSUME Inv, [Next]_vars PROVE PipeInv' /\ OrderInv'
<1>0. /\ PipeInv /\ OrderInv /\ BusyInv /\ pipe \in Seq(Messages)
      /\ told \in [Calls -> Nat] /\ cache \in [Calls -> Nat]
      /\ judged \in [Calls -> SUBSET Nat] /\ Nobody \notin Calls
      /\ cache' \in [Calls -> Nat] /\ told' \in [Calls -> Nat]
  BY TypeStep, GatesAssumption
     DEF Inv, TypeOK, DevinOK, GatesAssumption
<1>1. CASE UNCHANGED <<told, pipe, cache, busy, judged>>
  BY <1>0, <1>1 DEF PipeInv, OrderInv, Newest, Announces
<1>2. ASSUME pipe # <<>>
      PROVE  Head(pipe) = pipe[1] /\ Head(pipe) \in Messages
  BY <1>0, <1>2, OldestMessage, EmptySeq
<1>3. CASE HandleUpdate
  <2>1. /\ pipe # <<>> /\ pipe' = Tail(pipe) /\ busy = Nobody
        /\ pipe[1].what = "tool_call" /\ UNCHANGED <<told, judged>>
        /\ cache' = [cache EXCEPT ![pipe[1].call] = pipe[1].nth]
    BY <1>2, <1>3 DEF HandleUpdate, Listening
  <2>2. ASSUME NEW c \in Calls
        PROVE  IF Announces(1, c) THEN cache'[c] = pipe[1].nth
               ELSE cache'[c] = cache[c] /\ busy # c
    BY <1>0, <2>1 DEF Announces
  <2> QED BY <1>0, <2>1, <2>2, ReadStep
<1>4. CASE HandlePermission
  <2>1. /\ pipe # <<>> /\ busy = Nobody /\ pipe[1].what = "ask"
        /\ Head(pipe).call \in Calls /\ UNCHANGED <<told, cache>>
    BY <1>0, <1>2, <1>4, OldestMessage DEF HandlePermission, Listening
  <2>2. CASE pipe' = Tail(pipe) /\ UNCHANGED <<busy, judged>>
    <3>1. \A c \in Calls : ~Announces(1, c) /\ cache'[c] = cache[c] /\ busy # c
      BY <1>0, <2>1 DEF Announces
    <3> QED BY <1>0, <2>1, <2>2, <3>1, ReadStep
  <2>3. ASSUME NEW h \in Calls, UNCHANGED pipe, busy' = h,
               judged' = [judged EXCEPT ![h] = @ \cup {cache[h]}]
        PROVE  PipeInv' /\ OrderInv'
    <3>1. PipeInv'
      BY <1>0, <2>1, <2>3 DEF PipeInv, Newest, Announces
    <3>2. ASSUME NEW c \in Calls
          PROVE  /\ cache'[c] <= told'[c]
                 /\ \A n \in judged'[c] : n <= told'[c]
                 /\ \A i \in 1 .. Len(pipe') : Announces(i, c)' =>
                      /\ pipe'[i].nth <= told'[c]
                      /\ cache'[c] < pipe'[i].nth
                      /\ \A n \in judged'[c] : n < pipe'[i].nth
                 /\ busy' # c /\ cache'[c] # 0 => cache'[c] \notin judged'[c]
      <4>1. \A n \in judged'[c] : n \in judged[c] \/ n = cache[c]
        BY <1>0, <2>3
      <4>2. busy' # c => judged'[c] = judged[c] /\ busy # c
        BY <1>0, <2>1, <2>3
      <4> QED BY <1>0, <2>1, <2>3, <4>1, <4>2 DEF OrderInv, Announces
    <3> QED BY <3>1, <3>2 DEF OrderInv
  <2> QED BY <1>4, <2>1, <2>2, <2>3 DEF HandlePermission
<1>5. ASSUME NEW c \in Calls, Gate(c) PROVE PipeInv' /\ OrderInv'
  <2>1. CASE Announce(c)
    <3> DEFINE m == [call |-> c, what |-> "tool_call", nth |-> told[c] + 1,
                     once |-> FALSE]
    <3>1. m \in Messages
      BY <1>0 DEF Messages
    <3>2. /\ pipe' = Append(pipe, m) /\ UNCHANGED <<cache, busy, judged>>
          /\ told' = [told EXCEPT ![c] = @ + 1]
      BY <2>1 DEF Announce, Say
    <3>3. \E n \in Messages :
            /\ pipe' = Append(pipe, n) /\ n.call = c /\ n.what = "tool_call"
            /\ n.nth = told[c] + 1
      BY <3>1, <3>2
    <3> HIDE DEF m
    <3>4. PICK n \in Messages :
            /\ pipe' = Append(pipe, n) /\ n.call = c /\ n.what = "tool_call"
            /\ n.nth = told[c] + 1
      BY <3>3
    <3>5. /\ \A d \in Calls \ {n.call} : told'[d] = told[d]
          /\ told'[n.call] = told[n.call] + 1 /\ n.nth = told'[n.call]
      BY <1>0, <3>2, <3>4
    <3> QED BY <1>0, <3>2, <3>4, <3>5, SayStep
  <2>2. ASSUME NEW once \in BOOLEAN, Ask(c, once) PROVE PipeInv' /\ OrderInv'
    <3>1. [call |-> c, what |-> "ask", nth |-> told[c], once |-> once]
            \in Messages
      BY <1>0 DEF Messages
    <3>2. PICK n \in Messages :
            /\ pipe' = Append(pipe, n) /\ n.call = c /\ n.what = "ask"
            /\ n.nth = told[c]
      BY <2>2, <3>1 DEF Ask, Say
    <3>3. UNCHANGED <<cache, busy, judged, told>>
      BY <2>2 DEF Ask, Say
    <3> QED BY <1>0, <3>2, <3>3, SayStep
  <2>3. CASE AnswerPermission(c)
    <3>1. /\ pipe # <<>> /\ pipe' = Tail(pipe) /\ busy = c
          /\ pipe[1].what = "ask" /\ UNCHANGED <<told, judged>>
          /\ cache' = [cache EXCEPT ![c] = 0]
      BY <1>0, <1>2, <2>3 DEF AnswerPermission, BusyInv, Forget
    <3>2. ASSUME NEW d \in Calls
          PROVE  /\ ~Announces(1, d)
                 /\ cache'[d] = 0 \/ (cache'[d] = cache[d] /\ busy # d)
      BY <1>0, <3>1 DEF Announces
    <3> QED BY <1>0, <3>1, <3>2, ReadStep
  <2> QED BY <1>1, <1>5, <2>1, <2>2, <2>3
          DEF Gate, Begin, Refuse, Route, Resolve, GiveUp, Rule, HandleToolCall,
              Abort, StopChild, ChildExits, Close, DrainTimer, Decide, devin
<1>6. CASE SessionStep \/ UNCHANGED vars
  BY <1>1, <1>6, SessionLeaves DEF vars, devin
<1> QED BY <1>3, <1>4, <1>5, <1>6, OwnCalls DEF Next, SessionStep, Inv

LEMMA StepInv == ASSUME Inv, [Next]_vars PROVE Inv'
BY TypeStep, AnswerStep, DoorStep, BusyStep, PipeStep DEF Inv

LEMMA Invariance == Spec => []Inv
<1>1. Inv /\ [Next]_vars => Inv'
  BY StepInv
<1> QED BY InitInv, <1>1, PTL DEF Spec

-----------------------------------------------------------------------------
(* Every variable holds a value of its kind.                               *)
THEOREM GatesTyping == Spec => []TypeOK
<1>1. Inv => TypeOK
  BY DEF Inv
<1> QED BY Invariance, <1>1, PTL

(* No gate lets a call pass without a grant of the Controller, of its      *)
(* declared default or of a configuration that demands no Controller.      *)
THEOREM PassesAreGranted == Spec => []PassIsGranted
<1>1. Inv => PassIsGranted
  BY DEF Inv, AnswerInv, Granted, PassIsGranted
<1> QED BY Invariance, <1>1, PTL

(* A call that is aborted before it is decided does not pass, in whichever *)
(* order exit, timers and abort come.                                      *)
THEOREM AbortedBlocked == Spec => AbortedNeverPasses
<1> DEFINE Blocked == \A c \in Calls :
             plug[c].aborted /\ verdict[c] = "none" => verdict'[c] # "pass"
<1>1. ASSUME Inv, [Next]_vars PROVE Blocked
  <2> SUFFICES ASSUME NEW c \in Calls, plug[c].aborted, verdict[c] = "none"
               PROVE  verdict'[c] # "pass"
    OBVIOUS
  <2>1. /\ setup.agent = "deepseek" /\ busy = Nobody
        /\ pc[c] # "idle" => door[c] = "deepseek"
        /\ verdict \in [Calls -> {"none", "pass", "block", "cancel"}]
        /\ Nobody \notin Calls
    BY <1>1, GatesAssumption
       DEF Inv, DoorInv, TypeOK, GateOK, GatesAssumption
  <2>2. CASE verdict' = verdict
    BY <2>2
  <2>3. CASE HandlePermission
    BY <2>1, <2>3 DEF HandlePermission, Listening
  <2>4. ASSUME NEW d \in Calls, Gate(d) PROVE verdict'[c] # "pass"
    <3>1. CASE \E t \in {"hook", "request"} : Refuse(d, t)
      BY <2>1, <3>1 DEF Refuse
    <3>2. CASE Rule(d)
      BY <2>1, <3>2 DEF Rule
    <3>3. CASE AnswerPermission(d)
      BY <2>1, <3>3 DEF AnswerPermission
    <3>4. CASE HandleToolCall(d)
      BY <2>1, <3>4 DEF HandleToolCall
    <3>5. CASE Decide(d)
      BY <2>1, <3>5 DEF Decide, Abandoned
    <3> QED BY <2>2, <2>4, <3>1, <3>2, <3>3, <3>4, <3>5
            DEF Gate, Begin, Route, Resolve, GiveUp, Announce, Ask, Say, Abort,
                StopChild, ChildExits, Close, DrainTimer, gate
  <2>5. CASE SessionStep \/ HandleUpdate \/ UNCHANGED vars
    BY <2>2, <2>5, SessionLeaves DEF HandleUpdate, vars, gate
  <2> QED BY <1>1, <2>3, <2>4, <2>5, OwnCalls DEF Next, SessionStep, Inv
<1>2. Inv /\ [Next]_vars => [Blocked]_vars
  BY <1>1
<1> QED BY Invariance, <1>2, PTL DEF Spec, AbortedNeverPasses

(* A permission is judged on the newest command that was announced before  *)
(* it was asked for, and no announcement is judged twice.                  *)
THEOREM JudgedRight == Spec => JudgedAsAsked
<1> DEFINE Right == \A c \in Calls : busy # c /\ busy' = c =>
             cache[c] = Head(pipe).nth /\ cache[c] \notin judged[c]
<1>1. ASSUME Inv, [Next]_vars PROVE Right
  <2> SUFFICES ASSUME NEW c \in Calls, busy # c, busy' = c
               PROVE  cache[c] = Head(pipe).nth /\ cache[c] \notin judged[c]
    OBVIOUS
  <2>1. HandlePermission
    <3>1. ~UNCHANGED busy
      OBVIOUS
    <3>2. ASSUME NEW d \in Calls, Gate(d) PROVE FALSE
      <4>1. AnswerPermission(d)
        BY <3>1, <3>2
           DEF Gate, Begin, Refuse, Route, Resolve, GiveUp, Rule, Announce, Ask,
               Say, HandleToolCall, Abort, StopChild, ChildExits, Close,
               DrainTimer, Decide, devin
      <4> QED BY <4>1, GatesAssumption DEF AnswerPermission, GatesAssumption
    <3>3. ~(SessionStep \/ HandleUpdate \/ UNCHANGED vars)
      BY <3>1, SessionLeaves DEF HandleUpdate, vars, devin
    <3> QED BY <1>1, <3>2, <3>3, OwnCalls DEF Next, SessionStep, Inv
  <2>2. /\ pipe \in Seq(Messages) /\ pipe # <<>> /\ Head(pipe) = pipe[1]
        /\ 1 \in 1 .. Len(pipe) /\ busy = Nobody /\ Nobody \notin Calls
    BY <1>1, <2>1, EmptySeq, GatesAssumption
       DEF HandlePermission, Listening, Inv, TypeOK, DevinOK, GatesAssumption
  <2>3. /\ pipe[1].call = c /\ pipe[1].what = "ask" /\ cache[c] # 0
    BY <2>1, <2>2 DEF HandlePermission
  <2>4. Newest(c, 1, pipe[1].nth)
    BY <1>1, <2>2, <2>3 DEF Inv, PipeInv
  <2>5. cache[c] = pipe[1].nth
    BY <2>3, <2>4 DEF Newest
  <2> QED BY <1>1, <2>2, <2>3, <2>5 DEF Inv, OrderInv
<1>2. Inv /\ [Next]_vars => [Right]_vars
  BY <1>1
<1> QED BY Invariance, <1>2, PTL DEF Spec, JudgedAsAsked
=============================================================================
