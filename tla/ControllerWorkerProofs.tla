----------------------- MODULE ControllerWorkerProofs -----------------------
(***************************************************************************)
(* Theorems of ControllerWorker, for any callers, actions, windows and     *)
(* capacities.  Type correctness is not inductive by itself: WriteFrame    *)
(* reads the action of the slot's holder, so the proof carries SlotInv,    *)
(* the relation between the places of the calls, the slot and the writer.  *)
(* Then: why each call got its answer; and, where a window is not smaller  *)
(* than what a run puts into it, one terminal resolution per action, the   *)
(* refinement of Resolution and what late replies do.                      *)
(***************************************************************************)
EXTENDS ControllerWorker, FiniteSets, FiniteSetTheorems, TLAPS

(* What ties the slot, the writer goroutine and the calls together.        *)
SlotInv == SlotExclusive /\ NoOrphanWriter

Windows == [ids : SUBSET ActionIds, fifo : Seq(ActionIds)]

-----------------------------------------------------------------------------
(* The pieces of an action, and what they keep                             *)

(* markResolved and remember keep a window of IDs one.                     *)
LEMMA PushType ==
  ASSUME NEW S, NEW win \in [ids : SUBSET S, fifo : Seq(S)], NEW id \in S, NEW cap
  PROVE  Push(win, id, cap) \in [ids : SUBSET S, fifo : Seq(S)]
<1> DEFINE fifo == Append(win.fifo, id)
           ids  == win.ids \cup {id}
<1>1. fifo \in Seq(S) /\ fifo # <<>> /\ ids \in SUBSET S
  OBVIOUS
<1>2. Tail(fifo) \in Seq(S)
  BY <1>1
<1>3. CASE Len(fifo) > cap
  BY <1>1, <1>2, <1>3 DEF Push
<1>4. CASE ~(Len(fifo) > cap)
  BY <1>1, <1>4 DEF Push
<1> QED BY <1>3, <1>4

(* Every answer resolveMode gives is one of Answers: defaultResponse and   *)
(* Router.Resolve have no other outcome to give.                           *)
LEMMA AnswerTypes ==
  ASSUME NEW err \in Errors, NEW id \in ActionIds, NEW reply \in ReplyFrame
  PROVE  /\ TimeoutAnswer(Registration, err) \in Answers
         /\ UnavailableAnswer(Registration, err) \in Answers
         /\ CandidateAnswer(Registration, id, reply) \in Answers
         /\ DuplicateAnswer \in Answers
BY WorkerAssumption
   DEF WorkerAssumption, Errors, Answers, Sources, ReplyFrame, TimeoutAnswer,
       UnavailableAnswer, CandidateAnswer, DuplicateAnswer

(* A call that returns: its answer, the router's window, its pending entry *)
(* and the slot stay of their kinds.                                       *)
LEMMA FinishType ==
  ASSUME TypeOK, NEW c \in Callers, NEW ans \in Answers, Finish(c, ans)
  PROVE  /\ pc' \in [Callers -> Places]
         /\ answer' \in [Callers -> Answers]
         /\ pending' \subseteq ActionIds
         /\ slot' \in Callers \cup {Free}
         /\ router' \in Windows
<1>1. action[c] \in ActionIds /\ router \in Windows
  BY DEF TypeOK, Windows
<1>2. Push(router, action[c], ResolvedWindow) \in Windows
  BY <1>1, PushType DEF Windows
<1>3. DuplicateAnswer \in Answers
  BY DEF DuplicateAnswer, Answers, Sources, Errors
<1> QED BY <1>1, <1>2, <1>3 DEF Finish, TypeOK, Places

(* The default answers, likewise.                                          *)
LEMMA DefaultType ==
  ASSUME TypeOK, NEW c \in Callers, NEW err \in Errors,
         Timeout(c, err) \/ Unavailable(c, err)
  PROVE  /\ pc' \in [Callers -> Places]
         /\ answer' \in [Callers -> Answers]
         /\ pending' \subseteq ActionIds
         /\ slot' \in Callers \cup {Free}
         /\ router' \in Windows
<1>1. /\ TimeoutAnswer(Registration, err) \in Answers
      /\ UnavailableAnswer(Registration, err) \in Answers
  BY WorkerAssumption
     DEF WorkerAssumption, Errors, Answers, Sources, TimeoutAnswer,
         UnavailableAnswer
<1> QED BY <1>1, FinishType DEF Timeout, Unavailable

LEMMA MoveType ==
  ASSUME TypeOK, NEW c \in Callers, NEW to \in Places, Move(c, to)
  PROVE  /\ pc' \in [Callers -> Places]
         /\ answer' \in [Callers -> Answers]
         /\ pending' \subseteq ActionIds
         /\ router' \in Windows
BY DEF Move, TypeOK, Windows

LEMMA RememberType ==
  ASSUME TypeOK, NEW c \in Callers, Remember(c)
  PROVE  remembered' \in Windows
<1>1. action[c] \in ActionIds /\ remembered \in Windows
  BY DEF TypeOK, Windows
<1> QED BY <1>1, PushType DEF Remember, Windows

-----------------------------------------------------------------------------
(* Type correctness                                                        *)

LEMMA TypingInit == Init => TypeOK
<1> SUFFICES ASSUME Init PROVE TypeOK
  OBVIOUS
<1>1. NoAnswer \in Answers
  BY DEF NoAnswer, Answers, Sources, Errors
<1>2. action \in [Callers -> ActionIds]
  BY WorkerAssumption DEF Init, WorkerAssumption
<1>3. EmptyWindow \in Windows
  BY DEF EmptyWindow, Windows
<1>4. 0 \in 0 .. PipeCap /\ 0 <= PipeCap /\ 0 <= ResponseCap
  BY WorkerAssumption DEF WorkerAssumption
<1>5. "idle" \in Places
  BY DEF Places
<1>6. /\ pc \in [Callers -> Places]
      /\ answer \in [Callers -> Answers]
      /\ expired \in [Callers -> BOOLEAN]
      /\ cancelled \in [Callers -> BOOLEAN]
  BY <1>1, <1>5 DEF Init
<1>7. /\ pending \subseteq ActionIds /\ slot \in Callers \cup {Free}
      /\ wctx \in BOOLEAN /\ stdinClosed \in BOOLEAN /\ startErr \in BOOLEAN
      /\ writer \in {"none", "active", "ok", "failed"}
      /\ stdin \in 0 .. PipeCap
      /\ emitted \subseteq ChildFrames \ {Malformed}
      /\ sent \subseteq ActionIds /\ torn \in BOOLEAN
  BY <1>4 DEF Init
<1>8. /\ child \in {"running", "deaf", "exited"}
      /\ reader \in {"scanning", "stopped"}
      /\ done \in {"open", "ready", "taken"}
  BY DEF Init
<1>9. /\ stdout \in Seq(ChildFrames) /\ Len(stdout) <= PipeCap
      /\ responses \in Seq(ChildFrames \cup {Malformed})
      /\ Len(responses) <= ResponseCap
  BY <1>4 DEF Init
<1>10. /\ remembered \in [ids : SUBSET ActionIds, fifo : Seq(ActionIds)]
       /\ router \in [ids : SUBSET ActionIds, fifo : Seq(ActionIds)]
  BY <1>3 DEF Init, Windows
<1> QED BY <1>2, <1>6, <1>7, <1>8, <1>9, <1>10 DEF TypeOK

LEMMA TypingStep == TypeOK /\ SlotInv /\ [Next]_vars => TypeOK'
<1> SUFFICES ASSUME TypeOK, SlotInv, [Next]_vars PROVE TypeOK'
  OBVIOUS
<1> USE DEF callerVars, clockVars, retireVars, childVars, readVars
<1> DEFINE CallerTypes == /\ pc' \in [Callers -> Places]
                          /\ answer' \in [Callers -> Answers]
                          /\ pending' \subseteq ActionIds
                          /\ slot' \in Callers \cup {Free}
                          /\ router' \in Windows
<1> "none" \in Errors /\ "cause" \in Errors
  BY DEF Errors
<1> {"idle", "done", "admitted", "waiting", "holding", "writing", "looping",
     "selecting", "starting", "joinDeadline", "joinCancel", "joinShutdown"}
      \subseteq Places
  BY DEF Places, InFlight, Critical, Joining
<1>1. ASSUME NEW c \in Callers, Admit(c) PROVE TypeOK'
  <2>1. DuplicateAnswer \in Answers
    BY DEF DuplicateAnswer, Answers, Sources, Errors
  <2>2. action[c] \in ActionIds /\ "done" \in Places /\ "admitted" \in Places
    BY DEF TypeOK
  <2>3. /\ pc \in [Callers -> Places] /\ answer \in [Callers -> Answers]
        /\ pc' \in {[pc EXCEPT ![c] = "done"], [pc EXCEPT ![c] = "admitted"]}
        /\ answer' \in {answer, [answer EXCEPT ![c] = DuplicateAnswer]}
    BY <1>1 DEF Admit, TypeOK
  <2>5. pc' \in [Callers -> Places]
    BY <2>2, <2>3
  <2>6. answer' \in [Callers -> Answers]
    BY <2>1, <2>3
  <2>4. pending' \subseteq ActionIds
    BY <1>1, <2>2 DEF Admit, TypeOK
  <2> QED BY <1>1, <2>4, <2>5, <2>6 DEF Admit, TypeOK, Windows
<1>2. ASSUME NEW c \in Callers, Enter(c) PROVE TypeOK'
  <2>1. CallerTypes
    BY <1>2, DefaultType, MoveType DEF Enter, TypeOK
  <2> QED BY <1>2, <2>1 DEF Enter, TypeOK, Windows
<1>3. ASSUME NEW c \in Callers, Wait(c) PROVE TypeOK'
  <2>1. CallerTypes
    BY <1>3, DefaultType, MoveType DEF Wait, TypeOK
  <2> QED BY <1>3, <2>1 DEF Wait, TypeOK, Windows
<1>4. ASSUME NEW c \in Callers, Dispatch(c) PROVE TypeOK'
  <2>1. CallerTypes
    BY <1>4, DefaultType, MoveType DEF Dispatch, TypeOK
  <2> QED BY <1>4, <2>1 DEF Dispatch, TypeOK, Windows
<1>21. ASSUME NEW c \in Callers, StartWrite(c) PROVE TypeOK'
  <2>1. CallerTypes
    BY <1>21, MoveType DEF StartWrite, TypeOK
  <2> QED BY <1>21, <2>1 DEF StartWrite, TypeOK, Windows
<1>5. ASSUME NEW c \in Callers, Written(c) PROVE TypeOK'
  <2>1. CallerTypes
    BY <1>5, DefaultType, MoveType DEF Written, TypeOK
  <2>2. remembered' \in Windows
    BY <1>5, RememberType DEF Written, TypeOK, Windows
  <2> QED BY <1>5, <2>1, <2>2 DEF Written, Retire, TypeOK, Windows
<1>6. ASSUME NEW c \in Callers, Interrupt(c) PROVE TypeOK'
  <2>1. CallerTypes
    BY <1>6, MoveType DEF Interrupt, TypeOK
  <2> QED BY <1>6, <2>1 DEF Interrupt, Retire, TypeOK, Windows
<1>7. ASSUME NEW c \in Callers, Join(c) PROVE TypeOK'
  <2>1. CallerTypes
    BY <1>7, DefaultType DEF Join
  <2>2. remembered' \in Windows
    BY <1>7, RememberType DEF Join
  <2> QED BY <1>7, <2>1, <2>2 DEF Join, TypeOK, Windows
<1>8. ASSUME NEW c \in Callers, Loop(c) PROVE TypeOK'
  <2>1. CallerTypes
    BY <1>8, DefaultType, MoveType DEF Loop, TypeOK
  <2>2. remembered' \in Windows
    BY <1>8, RememberType DEF Loop, TypeOK, Windows
  <2> QED BY <1>8, <2>1, <2>2 DEF Loop, TypeOK, Windows
<1>9. ASSUME NEW c \in Callers, Receive(c) PROVE TypeOK'
  <2>1. /\ Head(responses) \in ChildFrames \cup {Malformed}
        /\ responses' \in Seq(ChildFrames \cup {Malformed})
        /\ Len(responses') <= ResponseCap
    BY <1>9, WorkerAssumption DEF Receive, TypeOK, WorkerAssumption
  <2>2. CASE Head(responses) = Malformed /\ Retire /\ Remember(c)
               /\ Unavailable(c, "cause")
    <3>1. CallerTypes /\ remembered' \in Windows
      BY <2>2, DefaultType, RememberType
    <3> QED BY <1>9, <2>1, <2>2, <3>1 DEF Receive, Retire, TypeOK, Windows
  <2>3. CASE /\ UNCHANGED <<slot, retireVars, remembered>>
             /\ Move(c, "looping")
    <3>1. CallerTypes
      BY <2>3, MoveType DEF TypeOK
    <3> QED BY <1>9, <2>1, <2>3, <3>1 DEF Receive, TypeOK, Windows
  <2>4. CASE /\ Head(responses) # Malformed
             /\ UNCHANGED retireVars
             /\ Remember(c)
             /\ Finish(c, CandidateAnswer(Registration, action[c],
                                          Head(responses)))
    <3>1. Head(responses) \in ReplyFrame /\ action[c] \in ActionIds
      BY <2>1, <2>4, WorkerAssumption DEF WorkerAssumption, TypeOK
    <3>2. CandidateAnswer(Registration, action[c], Head(responses)) \in Answers
      BY <3>1, AnswerTypes
    <3>3. CallerTypes /\ remembered' \in Windows
      BY <2>4, <3>2, FinishType, RememberType
    <3> QED BY <1>9, <2>1, <2>4, <3>3 DEF Receive, TypeOK, Windows
  <2> QED BY <1>9, <2>2, <2>3, <2>4 DEF Receive
<1>10. ASSUME NEW c \in Callers, Exited(c) PROVE TypeOK'
  <2>1. CallerTypes /\ remembered' \in Windows
    BY <1>10, DefaultType, RememberType DEF Exited
  <2> QED BY <1>10, <2>1 DEF Exited, Retire, TypeOK, Windows
<1>11. ASSUME NEW c \in Callers, StopWaiting(c) PROVE TypeOK'
  <2>1. CallerTypes /\ remembered' \in Windows
    BY <1>11, DefaultType, RememberType DEF StopWaiting
  <2> QED BY <1>11, <2>1 DEF StopWaiting, TypeOK, Windows
<1>12. ASSUME WriteFrame PROVE TypeOK'
  <2>1. slot \in Callers
    BY <1>12 DEF WriteFrame, SlotInv, NoOrphanWriter, TypeOK
  <2>2. sent' \subseteq ActionIds /\ stdin' \in 0 .. PipeCap
    BY <1>12, <2>1, WorkerAssumption DEF WriteFrame, TypeOK, WorkerAssumption
  <2> QED BY <1>12, <2>2 DEF WriteFrame, TypeOK
<1>13. ASSUME WriteFail \/ Shutdown \/ CloseStdin \/ ChildExit \/ ChildCloses
       PROVE  TypeOK'
  <2>0. 0 \in 0 .. PipeCap
    BY WorkerAssumption DEF WorkerAssumption
  <2>1. CASE WriteFail
    BY <2>1 DEF WriteFail, TypeOK
  <2>2. CASE Shutdown
    BY <2>2 DEF Shutdown, TypeOK
  <2>3. CASE CloseStdin
    BY <2>3 DEF CloseStdin, TypeOK
  <2>4. CASE ChildExit
    BY <2>0, <2>4 DEF ChildExit, TypeOK
  <2>5. CASE ChildCloses
    BY <2>0, <2>5 DEF ChildCloses, TypeOK
  <2> QED BY <1>13, <2>1, <2>2, <2>3, <2>4, <2>5
<1>14. ASSUME ReadResponse \/ ReaderQuits PROVE TypeOK'
  <2>1. /\ Head(stdout) \in ChildFrames
        /\ Tail(stdout) \in Seq(ChildFrames) /\ Len(Tail(stdout)) <= PipeCap
    BY <1>14, WorkerAssumption
       DEF ReadResponse, ReaderQuits, TypeOK, WorkerAssumption
  <2>2. ASSUME Len(responses) < ResponseCap
        PROVE  /\ Append(responses, Head(stdout))
                     \in Seq(ChildFrames \cup {Malformed})
               /\ Len(Append(responses, Head(stdout))) <= ResponseCap
    BY <2>1, <2>2, WorkerAssumption DEF TypeOK, WorkerAssumption
  <2>3. CASE ReadResponse
    <3>1. /\ stdout' = Tail(stdout)
          /\ responses' \in Seq(ChildFrames \cup {Malformed})
          /\ Len(responses') <= ResponseCap
          /\ reader' \in {"scanning", "stopped"}
      BY <2>2, <2>3 DEF ReadResponse
    <3> QED BY <2>1, <2>3, <3>1 DEF ReadResponse, TypeOK
  <2>4. CASE ReaderQuits
    <3>1. stdout' = Tail(stdout) /\ reader' = "stopped"
      BY <2>4 DEF ReaderQuits
    <3> QED BY <2>1, <2>4, <3>1 DEF ReaderQuits, TypeOK
  <2> QED BY <1>14, <2>3, <2>4
<1>15. ASSUME ReaderEnds PROVE TypeOK'
  <2>1. ASSUME Len(responses) < ResponseCap
        PROVE  /\ Append(responses, Malformed)
                     \in Seq(ChildFrames \cup {Malformed})
               /\ Len(Append(responses, Malformed)) <= ResponseCap
    BY <2>1, WorkerAssumption DEF TypeOK, WorkerAssumption
  <2> QED BY <1>15, <2>1 DEF ReaderEnds, TypeOK
<1>16. ASSUME WaitReturns PROVE TypeOK'
  <2>1. PICK n \in 0 .. Len(stdout) : stdout' = SubSeq(stdout, 1, n)
    BY <1>16 DEF WaitReturns
  <2>2. stdout' \in Seq(ChildFrames) /\ Len(stdout') <= PipeCap
    BY <2>1, WorkerAssumption DEF TypeOK, WorkerAssumption
  <2> QED BY <1>16, <2>2 DEF WaitReturns, TypeOK
<1>17. ASSUME ChildRead PROVE TypeOK'
  BY <1>17, WorkerAssumption DEF ChildRead, TypeOK, WorkerAssumption
<1>18. ASSUME NEW frame \in ChildFrames, ChildEmit(frame) PROVE TypeOK'
  <2>1. /\ stdout' \in Seq(ChildFrames) /\ Len(stdout') <= PipeCap
        /\ emitted' \subseteq ChildFrames \ {Malformed}
    BY <1>18, WorkerAssumption DEF ChildEmit, TypeOK, WorkerAssumption
  <2> QED BY <1>18, <2>1 DEF ChildEmit, TypeOK
<1>19. ASSUME NEW c \in Callers, Expire(c) \/ Cancel(c) PROVE TypeOK'
  <2>1. CASE Expire(c)
    <3>1. expired' \in [Callers -> BOOLEAN]
      BY <2>1 DEF Expire, TypeOK
    <3> QED BY <2>1, <3>1 DEF Expire, TypeOK
  <2>2. CASE Cancel(c)
    <3>1. cancelled' \in [Callers -> BOOLEAN]
      BY <2>2 DEF Cancel, TypeOK
    <3> QED BY <2>2, <3>1 DEF Cancel, TypeOK
  <2> QED BY <1>19, <2>1, <2>2
<1>20. CASE UNCHANGED vars
  BY <1>20 DEF vars, TypeOK
<1> QED BY <1>1, <1>2, <1>3, <1>4, <1>5, <1>6, <1>7, <1>8, <1>9, <1>10,
           <1>11, <1>12, <1>13, <1>14, <1>15, <1>16, <1>17, <1>18, <1>19,
           <1>20, <1>21
        DEF Next, CallerStep, Goroutines, Environment, Quiescent

-----------------------------------------------------------------------------
(* The slot and the writer                                                 *)

(* A call that returns leaves the slot behind and, when nothing it started *)
(* still runs, the relation intact.                                        *)
LEMMA FinishSlot ==
  ASSUME TypeOK, SlotInv, NEW c \in Callers, NEW ans, Finish(c, ans),
         \/ writer' = writer /\ (writer # "none" => slot # c)
         \/ writer' = "none"
  PROVE  SlotInv'
<1>1. Free \notin Callers
  BY WorkerAssumption DEF WorkerAssumption
<1>2. /\ pc' = [pc EXCEPT ![c] = "done"]
      /\ slot' = IF slot = c THEN Free ELSE slot
  BY DEF Finish
<1> QED BY <1>1, <1>2
        DEF TypeOK, SlotInv, SlotExclusive, NoOrphanWriter, Critical, Joining

(* A call that stays in or out of the critical section, the slot and the   *)
(* writer as they were.                                                    *)
LEMMA MoveSlot ==
  ASSUME TypeOK, SlotInv, NEW c \in Callers, NEW to, Move(c, to),
         slot' = slot, writer' = writer, pc[c] \in Critical <=> to \in Critical,
         writer # "none" => slot # c
  PROVE  SlotInv'
<1>1. pc' = [pc EXCEPT ![c] = to]
  BY DEF Move
<1> QED BY <1>1 DEF TypeOK, SlotInv, SlotExclusive, NoOrphanWriter

(* A call that takes the free slot.                                        *)
LEMMA TakeSlot ==
  ASSUME TypeOK, SlotInv, NEW c \in Callers, pc[c] \notin Critical, SlotFree,
         slot' = c, Move(c, "holding"), writer' = writer
  PROVE  SlotInv'
<1>1. Free \notin Callers
  BY WorkerAssumption DEF WorkerAssumption
<1>2. pc' = [pc EXCEPT ![c] = "holding"]
  BY DEF Move
<1> QED BY <1>1, <1>2
        DEF TypeOK, SlotInv, SlotExclusive, NoOrphanWriter, SlotFree, Critical,
            Joining

LEMMA SlotInit == Init => SlotInv
BY WorkerAssumption
   DEF Init, SlotInv, SlotExclusive, NoOrphanWriter, Critical, Joining,
       WorkerAssumption

LEMMA SlotStep == TypeOK /\ SlotInv /\ [Next]_vars => SlotInv'
<1> SUFFICES ASSUME TypeOK, SlotInv, [Next]_vars PROVE SlotInv'
  OBVIOUS
<1> USE DEF callerVars, clockVars, retireVars, childVars, readVars
(* A step that moves no call and leaves the slot and the writer alone.     *)
<1>0. ASSUME UNCHANGED <<pc, slot, writer>> PROVE SlotInv'
  BY <1>0 DEF SlotInv, SlotExclusive, NoOrphanWriter
(* While a call is past its write, or not at it yet, nothing is written.   *)
<1>idle. ASSUME NEW c \in Callers, pc[c] \notin {"writing"} \cup Joining
         PROVE  writer # "none" => slot # c
  BY <1>idle DEF SlotInv, NoOrphanWriter
<1>1. ASSUME NEW c \in Callers, Admit(c) PROVE SlotInv'
  BY <1>1 DEF Admit, TypeOK, SlotInv, SlotExclusive, NoOrphanWriter, Critical,
              Joining
<1>2. ASSUME NEW c \in Callers, Enter(c) PROVE SlotInv'
  <2>1. pc[c] \notin Critical /\ "waiting" \notin Critical
    BY <1>2 DEF Enter, Critical, Joining
  <2>2. writer' = writer /\ (writer # "none" => slot # c)
    BY <1>2, <2>1, <1>idle DEF Enter, Critical
  <2>3. CASE Timeout(c, "cause")
    BY <2>2, <2>3, FinishSlot DEF Timeout
  <2>4. CASE SlotFree /\ slot' = c /\ Move(c, "holding")
    BY <2>1, <2>2, <2>4, TakeSlot
  <2>5. CASE slot' = slot /\ Move(c, "waiting")
    BY <2>1, <2>2, <2>5, MoveSlot
  <2> QED BY <1>2, <2>3, <2>4, <2>5 DEF Enter
<1>3. ASSUME NEW c \in Callers, Wait(c) PROVE SlotInv'
  <2>1. pc[c] \notin Critical
    BY <1>3 DEF Wait, Critical, Joining
  <2>2. writer' = writer /\ (writer # "none" => slot # c)
    BY <1>3, <2>1, <1>idle DEF Wait, Critical
  <2>3. CASE \E err : Timeout(c, err) \/ Unavailable(c, err)
    BY <2>2, <2>3, FinishSlot DEF Timeout, Unavailable
  <2>4. CASE SlotFree /\ slot' = c /\ Move(c, "holding")
    BY <2>1, <2>2, <2>4, TakeSlot
  <2> QED BY <1>3, <2>3, <2>4 DEF Wait
<1>4. ASSUME NEW c \in Callers, Dispatch(c) PROVE SlotInv'
  <2>1. pc[c] = "holding" /\ (writer # "none" => slot # c)
    BY <1>4, <1>idle DEF Dispatch, Joining
  <2>2. CASE /\ \E err : Timeout(c, err) \/ Unavailable(c, err)
             /\ UNCHANGED writer
    BY <2>1, <2>2, FinishSlot DEF Timeout, Unavailable
  <2>3. CASE UNCHANGED <<writer, slot>> /\ Move(c, "starting")
    BY <2>1, <2>3, MoveSlot DEF Critical
  <2> QED BY <1>4, <2>2, <2>3 DEF Dispatch
<1>15. ASSUME NEW c \in Callers, StartWrite(c) PROVE SlotInv'
  BY <1>15, WorkerAssumption
     DEF StartWrite, Move, TypeOK, SlotInv, SlotExclusive, NoOrphanWriter,
         Critical, Joining, WorkerAssumption
<1>5. ASSUME NEW c \in Callers, Written(c) PROVE SlotInv'
  <2>1. pc[c] = "writing" /\ writer' = "none"
    BY <1>5 DEF Written
  <2>2. CASE Unavailable(c, "cause")
    BY <2>1, <2>2, FinishSlot DEF Unavailable
  <2>3. CASE UNCHANGED slot /\ Move(c, "looping")
    BY <2>1, <2>3
       DEF Move, TypeOK, SlotInv, SlotExclusive, NoOrphanWriter, Critical,
           Joining
  <2> QED BY <1>5, <2>2, <2>3 DEF Written
<1>6. ASSUME NEW c \in Callers, Interrupt(c) PROVE SlotInv'
  <2>1. PICK to \in Joining : Move(c, to)
    BY <1>6 DEF Interrupt, Joining
  <2>2. pc' = [pc EXCEPT ![c] = to] /\ slot' = slot /\ writer' = writer
    BY <1>6, <2>1 DEF Interrupt, Move
  <2> QED BY <1>6, <2>2
          DEF Interrupt, TypeOK, SlotInv, SlotExclusive, NoOrphanWriter,
              Critical
<1>7. ASSUME NEW c \in Callers, Join(c) PROVE SlotInv'
  BY <1>7, FinishSlot DEF Join, Timeout, Unavailable
<1>8. ASSUME NEW c \in Callers, Loop(c) PROVE SlotInv'
  <2>1. /\ writer' = writer /\ (writer # "none" => slot # c)
        /\ pc[c] \in Critical /\ "selecting" \in Critical
    BY <1>8, <1>idle DEF Loop, Critical, Joining
  <2> QED BY <1>8, <2>1, FinishSlot, MoveSlot DEF Loop, Timeout
<1>9. ASSUME NEW c \in Callers, Receive(c) PROVE SlotInv'
  <2>1. /\ writer' = writer /\ (writer # "none" => slot # c)
        /\ pc[c] \in Critical /\ "looping" \in Critical
    BY <1>9, <1>idle DEF Receive, Critical, Joining
  <2>2. CASE \E ans : Finish(c, ans)
    BY <2>1, <2>2, FinishSlot
  <2>3. CASE slot' = slot /\ Move(c, "looping")
    BY <2>1, <2>3, MoveSlot
  <2> QED BY <1>9, <2>2, <2>3 DEF Receive, Unavailable
<1>10. ASSUME NEW c \in Callers, Exited(c) \/ StopWaiting(c) PROVE SlotInv'
  <2>1. writer' = writer /\ (writer # "none" => slot # c)
    BY <1>10, <1>idle DEF Exited, StopWaiting, Joining
  <2> QED BY <1>10, <2>1, FinishSlot
          DEF Exited, StopWaiting, Timeout, Unavailable
<1>11. ASSUME WriteFrame \/ WriteFail PROVE SlotInv'
  BY <1>11 DEF WriteFrame, WriteFail, SlotInv, SlotExclusive, NoOrphanWriter
<1>12. ASSUME ReadResponse \/ ReaderQuits \/ ReaderEnds \/ WaitReturns
       PROVE  SlotInv'
  BY <1>12, <1>0 DEF ReadResponse, ReaderQuits, ReaderEnds, WaitReturns
<1>13. ASSUME Environment PROVE SlotInv'
  BY <1>13, <1>0 DEF Environment, Expire, Cancel, ChildEmit, ChildRead, ChildCloses,
                     ChildExit, Shutdown, CloseStdin
<1>14. CASE UNCHANGED vars
  BY <1>14, <1>0 DEF vars
<1> QED BY <1>1, <1>2, <1>3, <1>4, <1>5, <1>6, <1>7, <1>8, <1>9, <1>10,
           <1>11, <1>12, <1>13, <1>14, <1>15
        DEF Next, CallerStep, Goroutines, Quiescent

-----------------------------------------------------------------------------
(* The pending map                                                         *)

(* A call in flight that returns takes its entry along, and nobody else's. *)
LEMMA FinishPending ==
  ASSUME TypeOK, PendingIsInFlight, action' = action, NEW c \in Callers,
         pc[c] \in InFlight, NEW ans, Finish(c, ans)
  PROVE  PendingIsInFlight'
<1>1. /\ pc' = [pc EXCEPT ![c] = "done"] /\ "done" \notin InFlight
      /\ pending' = pending \ {action[c]}
  BY DEF Finish, InFlight, Critical, Joining
<1> QED BY <1>1 DEF TypeOK, PendingIsInFlight

(* A call in flight that moves on keeps its entry.                         *)
LEMMA MovePending ==
  ASSUME TypeOK, PendingIsInFlight, action' = action, NEW c \in Callers,
         pc[c] \in InFlight, NEW to \in InFlight, Move(c, to)
  PROVE  PendingIsInFlight'
<1>1. pc' = [pc EXCEPT ![c] = to] /\ pending' = pending
  BY DEF Move
<1> QED BY <1>1 DEF TypeOK, PendingIsInFlight

(* An admitted call gets the one entry of its action.                      *)
LEMMA AdmitPending ==
  ASSUME TypeOK, PendingIsInFlight, NEW c \in Callers, Admit(c)
  PROVE  PendingIsInFlight'
<1>1. /\ "idle" \notin InFlight /\ "done" \notin InFlight
      /\ "admitted" \in InFlight
  BY DEF InFlight, Critical, Joining
<1>2. action' = action /\ pc[c] = "idle"
  BY DEF Admit
<1>3. CASE Duplicate(c)
  <2>1. pc' = [pc EXCEPT ![c] = "done"] /\ pending' = pending
    BY <1>3 DEF Admit
  <2> QED BY <1>1, <1>2, <2>1 DEF TypeOK, PendingIsInFlight
<1>4. CASE ~Duplicate(c)
  <2>1. /\ pc' = [pc EXCEPT ![c] = "admitted"]
        /\ pending' = pending \cup {action[c]}
    BY <1>4 DEF Admit
  <2>2. \A d \in Callers : pc[d] \in InFlight => action[d] # action[c]
    BY <1>4 DEF Duplicate, PendingIsInFlight
  <2>3. \A d \in Callers : pc'[d] \in InFlight <=> pc[d] \in InFlight \/ d = c
    BY <1>1, <1>2, <2>1 DEF TypeOK
  <2> QED BY <1>2, <2>1, <2>2, <2>3 DEF PendingIsInFlight
<1> QED BY <1>3, <1>4

LEMMA PendingInit == Init => PendingIsInFlight
BY DEF Init, PendingIsInFlight, InFlight, Critical, Joining

LEMMA PendingStep == TypeOK /\ PendingIsInFlight /\ [Next]_vars => PendingIsInFlight'
<1> SUFFICES ASSUME TypeOK, PendingIsInFlight, [Next]_vars
             PROVE  PendingIsInFlight'
  OBVIOUS
<1> USE DEF callerVars, clockVars, retireVars, childVars, readVars
<1>0. ASSUME UNCHANGED <<action, pc, pending>> PROVE PendingIsInFlight'
  BY <1>0 DEF PendingIsInFlight
<1>1. ASSUME NEW c \in Callers, Admit(c) PROVE PendingIsInFlight'
  BY <1>1, AdmitPending
(* Every other step of a call moves it on or lets it return.               *)
<1>2. ASSUME NEW c \in Callers, action' = action, pc[c] \in InFlight,
             \/ \E ans : Finish(c, ans)
             \/ \E err : Timeout(c, err) \/ Unavailable(c, err)
             \/ \E to \in InFlight : Move(c, to)
      PROVE  PendingIsInFlight'
  BY <1>2, FinishPending, MovePending DEF Timeout, Unavailable
<1>3. {"admitted", "waiting", "holding", "starting", "writing", "looping",
       "selecting", "joinDeadline", "joinCancel", "joinShutdown"} \subseteq InFlight
  BY DEF InFlight, Critical, Joining
<1>4. ASSUME NEW c \in Callers,
             Enter(c) \/ Wait(c) \/ Dispatch(c) \/ StartWrite(c)
      PROVE  PendingIsInFlight'
  BY <1>2, <1>3, <1>4 DEF Enter, Wait, Dispatch, StartWrite
<1>5. ASSUME NEW c \in Callers, Written(c) \/ Interrupt(c)
      PROVE  PendingIsInFlight'
  BY <1>2, <1>3, <1>5 DEF Written, Interrupt
<1>6. ASSUME NEW c \in Callers, Join(c) PROVE PendingIsInFlight'
  <2>1. action' = action /\ pc[c] \in InFlight
    BY <1>3, <1>6 DEF Join
  <2> QED BY <1>2, <1>6, <2>1 DEF Join
<1>7. ASSUME NEW c \in Callers, Loop(c) \/ Receive(c)
      PROVE  PendingIsInFlight'
  BY <1>2, <1>3, <1>7 DEF Loop, Receive
<1>8. ASSUME NEW c \in Callers, Exited(c) \/ StopWaiting(c)
      PROVE  PendingIsInFlight'
  BY <1>2, <1>3, <1>8 DEF Exited, StopWaiting
<1>9. ASSUME Goroutines PROVE PendingIsInFlight'
  BY <1>0, <1>9 DEF Goroutines, WriteFrame, WriteFail, ReadResponse,
                    ReaderQuits, ReaderEnds, WaitReturns
<1>10. ASSUME Environment PROVE PendingIsInFlight'
  BY <1>0, <1>10 DEF Environment, Expire, Cancel, ChildEmit, ChildRead, ChildCloses,
                     ChildExit, Shutdown, CloseStdin
<1>11. CASE UNCHANGED vars
  BY <1>0, <1>11 DEF vars
<1> QED BY <1>1, <1>4, <1>5, <1>6, <1>7, <1>8, <1>9, <1>10, <1>11
        DEF Next, CallerStep, Quiescent

-----------------------------------------------------------------------------
(* Answers and their reasons                                               *)

(* Whatever decodes and is on its way to a call was written by the child.  *)
Emitted(frames) ==
  \A i \in 1 .. Len(frames) : frames[i] # Malformed => frames[i] \in emitted

(* What a call can tell that gives up its write or finds the input closed. *)
ReasonInv ==
  /\ Emitted(stdout) /\ Emitted(responses)
  /\ startErr => wctx
  /\ \A c \in Callers : /\ pc[c] = "joinDeadline" => expired[c]
                        /\ pc[c] = "joinCancel" => cancelled[c]
                        /\ pc[c] = "joinShutdown" => wctx

(* An answer has the reason its kind needs.                                *)
Reason(c, ans) ==
  /\ ans.by = "controller" =>
       \E reply \in emitted : OwnReply(c, reply) /\ reply.outcome = ans.outcome
  /\ ans.by = "timeout" => /\ ans.outcome = Registration.onTimeout
                           /\ expired[c] \/ cancelled[c]
  /\ ans.by = "unavailable" =>
       /\ ans.outcome = Registration.onUnavailable
       /\ wctx \/ \E reply \in emitted : ~OwnReply(c, reply)

EarnedInv == \A c \in Callers : Reason(c, answer[c])

(* No reason goes away: replies stay written, contexts stay done.          *)
LEMMA Lasting ==
  ASSUME TypeOK, [Next]_vars
  PROVE  /\ action' = action /\ emitted \subseteq emitted' /\ (wctx => wctx')
         /\ \A c \in Callers : /\ expired[c] => expired'[c]
                               /\ cancelled[c] => cancelled'[c]
<1> USE DEF callerVars, clockVars, retireVars, childVars, readVars, TypeOK
<1>1. ASSUME NEW c \in Callers, CallerStep(c)
      PROVE  UNCHANGED <<action, emitted, expired, cancelled>> /\ (wctx => wctx')
  BY <1>1 DEF CallerStep, Admit, Enter, Wait, Dispatch, StartWrite, Written, Interrupt,
              Join, Loop, Receive, Exited, StopWaiting, Retire
<1>2. ASSUME Goroutines
      PROVE  UNCHANGED <<action, emitted, expired, cancelled, wctx>>
  BY <1>2 DEF Goroutines, WriteFrame, WriteFail, ReadResponse, ReaderQuits,
              ReaderEnds, WaitReturns
<1>3. CASE Environment
  <2>1. CASE \E c \in Callers : Expire(c) \/ Cancel(c)
    <3>1. UNCHANGED <<action, emitted, wctx>>
      BY <2>1 DEF Expire, Cancel
    <3>2. ASSUME NEW c \in Callers, Expire(c) \/ Cancel(c), NEW d \in Callers
          PROVE  (expired[d] => expired'[d]) /\ (cancelled[d] => cancelled'[d])
      BY <3>2 DEF Expire, Cancel
    <3> QED BY <2>1, <3>1, <3>2
  <2>2. CASE ~\E c \in Callers : Expire(c) \/ Cancel(c)
    BY <1>3, <2>2 DEF Environment, ChildEmit, ChildRead, ChildCloses, ChildExit, Shutdown,
                      CloseStdin
  <2> QED BY <2>1, <2>2
<1>4. CASE UNCHANGED vars
  BY <1>4 DEF vars
<1> QED BY <1>1, <1>2, <1>3, <1>4 DEF Next, Quiescent

LEMMA ReasonInit == Init => ReasonInv /\ EarnedInv
BY DEF Init, ReasonInv, Emitted, EarnedInv, Reason, NoAnswer

(* Frames move from the child over the pipe to the channel.                *)
LEMMA FramesStep ==
  ASSUME TypeOK, ReasonInv, [Next]_vars
  PROVE  Emitted(stdout)' /\ Emitted(responses)'
<1> USE DEF callerVars, clockVars, retireVars, childVars, readVars
<1>0. /\ emitted \subseteq emitted' /\ Emitted(stdout) /\ Emitted(responses)
      /\ stdout \in Seq(ChildFrames)
      /\ responses \in Seq(ChildFrames \cup {Malformed})
  BY Lasting DEF ReasonInv, TypeOK
<1>1. ASSUME NEW S, NEW s \in Seq(S), s # <<>>, Emitted(s)
      PROVE  /\ Emitted(Tail(s))
             /\ Head(s) # Malformed => Head(s) \in emitted
  <2>1. /\ Len(s) \in Nat \ {0} /\ Head(s) = s[1] /\ 1 \in 1 .. Len(s)
        /\ Len(Tail(s)) = Len(s) - 1
        /\ \A i \in 1 .. Len(Tail(s)) : Tail(s)[i] = s[i + 1]
    BY <1>1
  <2>2. \A i \in 1 .. Len(Tail(s)) : i + 1 \in 1 .. Len(s)
    BY <2>1
  <2> QED BY <1>1, <2>1, <2>2 DEF Emitted
<1>2. ASSUME NEW S, NEW s \in Seq(S), NEW f \in S, Emitted(s),
             f # Malformed => f \in emitted'
      PROVE  \A i \in 1 .. Len(Append(s, f)) :
               Append(s, f)[i] # Malformed => Append(s, f)[i] \in emitted'
  <2>1. /\ Len(s) \in Nat /\ Len(Append(s, f)) = Len(s) + 1
        /\ Append(s, f)[Len(s) + 1] = f
        /\ \A i \in 1 .. Len(s) : Append(s, f)[i] = s[i]
    BY <1>2
  <2>2. \A i \in 1 .. Len(s) + 1 : i \in 1 .. Len(s) \/ i = Len(s) + 1
    BY <2>1
  <2> QED BY <1>0, <1>2, <2>1, <2>2 DEF Emitted
<1>3. CASE UNCHANGED <<stdout, responses>>
  BY <1>0, <1>3 DEF Emitted
<1>4. ASSUME NEW c \in Callers, Receive(c)
      PROVE  Emitted(stdout)' /\ Emitted(responses)'
  <2>1. responses # <<>> /\ responses' = Tail(responses) /\ stdout' = stdout
    BY <1>4 DEF Receive
  <2>2. Emitted(Tail(responses))
    BY <1>0, <1>1, <2>1
  <2> QED BY <1>0, <2>1, <2>2 DEF Emitted
<1>5. CASE ReadResponse
  <2>1. /\ stdout # <<>> /\ stdout' = Tail(stdout)
        /\ responses' = Append(responses, Head(stdout))
    BY <1>5 DEF ReadResponse
  <2>2. /\ Emitted(Tail(stdout)) /\ Head(stdout) \in ChildFrames
        /\ Head(stdout) # Malformed => Head(stdout) \in emitted
    BY <1>0, <1>1, <2>1
  <2>3. Emitted(responses)'
    BY <1>0, <1>2, <2>1, <2>2 DEF Emitted
  <2> QED BY <1>0, <2>1, <2>2, <2>3 DEF Emitted
<1>6. CASE ReaderQuits
  <2>1. stdout # <<>> /\ stdout' = Tail(stdout) /\ responses' = responses
    BY <1>6 DEF ReaderQuits
  <2>2. Emitted(Tail(stdout))
    BY <1>0, <1>1, <2>1
  <2> QED BY <1>0, <2>1, <2>2 DEF Emitted
<1>7. CASE ReaderEnds
  <2>1. /\ stdout' = stdout
        /\ responses' = responses \/ responses' = Append(responses, Malformed)
    BY <1>7 DEF ReaderEnds
  <2>2. \A i \in 1 .. Len(Append(responses, Malformed)) :
          Append(responses, Malformed)[i] # Malformed =>
            Append(responses, Malformed)[i] \in emitted'
    BY <1>0, <1>2
  <2> QED BY <1>0, <2>1, <2>2 DEF Emitted
<1>8. CASE WaitReturns
  <2>1. PICK n \in 0 .. Len(stdout) : stdout' = SubSeq(stdout, 1, n)
    BY <1>8 DEF WaitReturns
  <2>2. /\ Len(stdout') = n /\ n \in Nat /\ n <= Len(stdout)
        /\ \A i \in 1 .. n : stdout'[i] = stdout[i] /\ i \in 1 .. Len(stdout)
    BY <1>0, <2>1
  <2> QED BY <1>0, <1>8, <2>2 DEF WaitReturns, Emitted
<1>9. ASSUME NEW f \in ChildFrames, ChildEmit(f)
      PROVE  Emitted(stdout)' /\ Emitted(responses)'
  <2>1. /\ stdout' = Append(stdout, f) /\ responses' = responses
        /\ f # Malformed => f \in emitted'
    BY <1>9 DEF ChildEmit
  <2>2. Emitted(stdout)'
    BY <1>0, <1>2, <2>1 DEF Emitted
  <2> QED BY <1>0, <2>1, <2>2 DEF Emitted
<1>10. ASSUME NEW c \in Callers, CallerStep(c), ~Receive(c)
       PROVE  UNCHANGED <<stdout, responses>>
  BY <1>10 DEF CallerStep, Admit, Enter, Wait, Dispatch, StartWrite, Written, Interrupt,
               Join, Loop, Exited, StopWaiting
<1>11. ASSUME Goroutines, ~ReadResponse, ~ReaderQuits, ~ReaderEnds,
              ~WaitReturns
       PROVE  UNCHANGED <<stdout, responses>>
  BY <1>11 DEF Goroutines, WriteFrame, WriteFail
<1>12. ASSUME Environment, ~\E f \in ChildFrames : ChildEmit(f)
       PROVE  UNCHANGED <<stdout, responses>>
  BY <1>12 DEF Environment, Expire, Cancel, ChildRead, ChildCloses, ChildExit, Shutdown,
               CloseStdin
<1>13. CASE UNCHANGED vars
  BY <1>3, <1>13 DEF vars
<1> QED BY <1>3, <1>4, <1>5, <1>6, <1>7, <1>8, <1>9, <1>10, <1>11, <1>12,
           <1>13
        DEF Next, Quiescent

LEMMA ReasonStep ==
  ASSUME TypeOK, ReasonInv, [Next]_vars
  PROVE  ReasonInv'
<1> USE DEF callerVars, clockVars, retireVars, childVars, readVars
<1>1. startErr' => wctx'
  <2>1. ASSUME NEW c \in Callers, CallerStep(c)
        PROVE  UNCHANGED <<startErr, wctx>> \/ (startErr' /\ wctx')
    BY <2>1 DEF CallerStep, Admit, Enter, Wait, Dispatch, StartWrite, Written, Interrupt,
                Join, Loop, Receive, Exited, StopWaiting, Retire
  <2>2. ASSUME Goroutines PROVE UNCHANGED <<startErr, wctx>>
    BY <2>2 DEF Goroutines, WriteFrame, WriteFail, ReadResponse, ReaderQuits,
                ReaderEnds, WaitReturns
  <2>3. ASSUME Environment PROVE startErr' = startErr /\ (wctx => wctx')
    BY <2>3, Lasting DEF Environment, Expire, Cancel, ChildEmit, ChildRead, ChildCloses,
                ChildExit, Shutdown, CloseStdin
  <2> QED BY <2>1, <2>2, <2>3 DEF Next, Quiescent, vars, ReasonInv
<1>2. ASSUME NEW d \in Callers
      PROVE  /\ pc'[d] = "joinDeadline" => expired'[d]
             /\ pc'[d] = "joinCancel" => cancelled'[d]
             /\ pc'[d] = "joinShutdown" => wctx'
  <2>1. CASE pc'[d] = pc[d] \/ pc'[d] \notin Joining
    BY <2>1, Lasting DEF ReasonInv, Joining
  <2>2. ASSUME NEW c \in Callers, Interrupt(c)
        PROVE  \/ pc'[d] = pc[d]
               \/ /\ pc'[d] = "joinDeadline" => expired'[d]
                  /\ pc'[d] = "joinCancel" => cancelled'[d]
                  /\ pc'[d] = "joinShutdown" => wctx'
    BY <2>2 DEF Interrupt, Retire, Move, TypeOK
  <2>3. ASSUME NEW c \in Callers, CallerStep(c), ~Interrupt(c)
        PROVE  pc'[d] = pc[d] \/ pc'[d] \notin Joining
    BY <2>3 DEF CallerStep, Admit, Enter, Wait, Dispatch, StartWrite, Written, Join, Loop,
                Receive, Exited, StopWaiting, Timeout, Unavailable, Finish,
                Move, Joining, TypeOK
  <2>4. CASE Goroutines \/ Environment \/ UNCHANGED vars
    <3>1. pc' = pc
      BY <2>4 DEF Goroutines, WriteFrame, WriteFail, ReadResponse, ReaderQuits,
                  ReaderEnds, WaitReturns, Environment, Expire, Cancel,
                  ChildEmit, ChildRead, ChildCloses, ChildExit, Shutdown, CloseStdin, vars
    <3> QED BY <2>1, <3>1
  <2> QED BY <2>1, <2>2, <2>3, <2>4 DEF Next, Quiescent
<1> QED BY <1>1, <1>2, FramesStep DEF ReasonInv

(* A call that returns with a good reason.                                 *)
LEMMA FinishEarned ==
  ASSUME TypeOK, EarnedInv, [Next]_vars, NEW c \in Callers, NEW ans,
         Finish(c, ans), Reason(c, ans)'
  PROVE  EarnedInv'
<1>1. \A a : \A d \in Callers : Reason(d, a) => Reason(d, a)'
  BY Lasting DEF Reason, OwnReply
<1>2. answer'[c] = DuplicateAnswer \/ answer'[c] = ans
  BY DEF Finish, TypeOK
<1>3. Reason(c, answer[c])'
  BY <1>2 DEF Reason, DuplicateAnswer
<1>4. ASSUME NEW d \in Callers, d # c PROVE Reason(d, answer[d])'
  <2> PICK a : a = answer[d]
    OBVIOUS
  <2>1. answer'[d] = a
    BY <1>4 DEF Finish, TypeOK
  <2>2. Reason(d, a)'
    BY <1>1 DEF EarnedInv
  <2> QED BY <2>1, <2>2 DEF Reason
<1> QED BY <1>3, <1>4 DEF EarnedInv

LEMMA EarnedStep ==
  ASSUME TypeOK, ReasonInv, EarnedInv, [Next]_vars
  PROVE  EarnedInv'
<1> USE DEF callerVars, clockVars, retireVars, childVars, readVars
<1>0. CASE answer' = answer
  BY <1>0, Lasting DEF EarnedInv, Reason, OwnReply
<1>1. ASSUME NEW c \in Callers, NEW err, Timeout(c, err),
             expired[c] \/ cancelled[c]
      PROVE  EarnedInv'
  <2>1. Reason(c, TimeoutAnswer(Registration, err))'
    BY <1>1, Lasting DEF Reason, TimeoutAnswer
  <2> QED BY <1>1, <2>1, FinishEarned DEF Timeout
<1>2. ASSUME NEW c \in Callers, NEW err, Unavailable(c, err), wctx'
      PROVE  EarnedInv'
  <2>1. Reason(c, UnavailableAnswer(Registration, err))'
    BY <1>2 DEF Reason, UnavailableAnswer
  <2> QED BY <1>2, <2>1, FinishEarned DEF Unavailable
<1>3. ASSUME NEW c \in Callers, NEW to, Move(c, to) PROVE EarnedInv'
  BY <1>0, <1>3 DEF Move
<1>4. ASSUME NEW c \in Callers, Admit(c) PROVE EarnedInv'
  <2>1. \A d \in Callers :
          answer'[d] = answer[d] \/ answer'[d] = DuplicateAnswer
    BY <1>4 DEF Admit, TypeOK
  <2> QED BY <2>1, Lasting DEF EarnedInv, Reason, OwnReply, DuplicateAnswer
<1>5. ASSUME NEW c \in Callers, Enter(c) \/ Wait(c) PROVE EarnedInv'
  BY <1>1, <1>2, <1>3, <1>5, Lasting DEF Enter, Wait
<1>6. ASSUME NEW c \in Callers, Dispatch(c) \/ StartWrite(c) PROVE EarnedInv'
  BY <1>1, <1>2, <1>3, <1>6, Lasting DEF Dispatch, StartWrite, Usable, ReasonInv
<1>7. ASSUME NEW c \in Callers, Written(c) \/ Interrupt(c) \/ Loop(c)
      PROVE  EarnedInv'
  BY <1>1, <1>2, <1>3, <1>7 DEF Written, Interrupt, Loop, Retire
<1>8. ASSUME NEW c \in Callers, Join(c) PROVE EarnedInv'
  BY <1>1, <1>2, <1>8, Lasting DEF Join, ReasonInv
<1>9. ASSUME NEW c \in Callers, Exited(c) \/ StopWaiting(c) PROVE EarnedInv'
  BY <1>1, <1>2, <1>9, Lasting DEF Exited, StopWaiting, Retire
<1>10. ASSUME NEW c \in Callers, Receive(c) PROVE EarnedInv'
  <2> PICK f, a : f = Head(responses) /\ a = CandidateAnswer(Registration,
                                                  action[c], Head(responses))
    OBVIOUS
  <2>1. responses # <<>> /\ responses \in Seq(ChildFrames \cup {Malformed})
    BY <1>10 DEF Receive, TypeOK
  <2>2. CASE Unavailable(c, "cause") /\ Retire
    BY <1>2, <2>2 DEF Retire
  <2>3. CASE Move(c, "looping")
    BY <1>3, <2>3
  <2>4. CASE f # Malformed /\ Finish(c, a)
    <3>1. f \in emitted
      <4>1. 1 \in 1 .. Len(responses) /\ Head(responses) = responses[1]
        BY <2>1
      <4> QED BY <2>4, <4>1 DEF ReasonInv, Emitted
    <3>2. f \in emitted' /\ action' = action
      BY <3>1, Lasting
    <3>3. CASE Correlated(Registration, action[c], f)
      <4>1. a = [outcome |-> f.outcome, by |-> "controller", err |-> "none"]
        BY <3>3 DEF CandidateAnswer
      <4>2. OwnReply(c, f)' /\ f.outcome = a.outcome
        BY <3>2, <3>3, <4>1 DEF Correlated, OwnReply
      <4>3. Reason(c, a)'
        BY <3>2, <4>1, <4>2 DEF Reason
      <4> QED BY <2>4, <4>3, FinishEarned
    <3>4. CASE ~Correlated(Registration, action[c], f)
      <4>1. a = UnavailableAnswer(Registration, "cause")
        BY <3>4 DEF CandidateAnswer
      <4>2. ~OwnReply(c, f)'
        BY <3>2, <3>4 DEF Correlated, OwnReply
      <4>3. Reason(c, a)'
        BY <3>2, <4>1, <4>2 DEF Reason, UnavailableAnswer
      <4> QED BY <2>4, <4>3, FinishEarned
    <3> QED BY <3>3, <3>4
  <2> QED BY <1>10, <2>2, <2>3, <2>4 DEF Receive
<1>11. CASE Goroutines \/ Environment \/ UNCHANGED vars
  <2>1. answer' = answer
    BY <1>11 DEF Goroutines, WriteFrame, WriteFail, ReadResponse, ReaderQuits,
                 ReaderEnds, WaitReturns, Environment, Expire, Cancel,
                 ChildEmit, ChildRead, ChildCloses, ChildExit, Shutdown, CloseStdin, vars
  <2> QED BY <1>0, <2>1
<1> QED BY <1>4, <1>5, <1>6, <1>7, <1>8, <1>9, <1>10, <1>11
        DEF Next, CallerStep, Quiescent

-----------------------------------------------------------------------------
(* The theorems                                                            *)

(* Every variable holds a value of its kind, and no channel or pipe holds  *)
(* more than its capacity, whatever calls, child and shutdown do.          *)
THEOREM Typing == Spec => []TypeOK
<1>1. Init => TypeOK /\ SlotInv
  BY TypingInit, SlotInit
<1>2. (TypeOK /\ SlotInv) /\ [Next]_vars => (TypeOK /\ SlotInv)'
  BY TypingStep, SlotStep
<1> QED BY <1>1, <1>2, PTL DEF Spec

(* The slot serialises the child's pipes for any number of callers.        *)
THEOREM MutualExclusion == Spec => []SlotExclusive
<1>1. Init => TypeOK /\ SlotInv
  BY TypingInit, SlotInit
<1>2. (TypeOK /\ SlotInv) /\ [Next]_vars => (TypeOK /\ SlotInv)'
  BY TypingStep, SlotStep
<1>3. SlotInv => SlotExclusive
  BY DEF SlotInv
<1> QED BY <1>1, <1>2, <1>3, PTL DEF Spec

(* No write to the child outlives the call that started it.                *)
THEOREM WriterIsJoined == Spec => []NoOrphanWriter
<1>1. Init => TypeOK /\ SlotInv
  BY TypingInit, SlotInit
<1>2. (TypeOK /\ SlotInv) /\ [Next]_vars => (TypeOK /\ SlotInv)'
  BY TypingStep, SlotStep
<1>3. SlotInv => NoOrphanWriter
  BY DEF SlotInv
<1> QED BY <1>1, <1>2, <1>3, PTL DEF Spec

(* pending is the set of actions in flight, and no two calls in flight     *)
(* share one, for any number of calls and actions.                         *)
THEOREM OneCallPerAction == Spec => []PendingIsInFlight
<1>1. Init => TypeOK /\ PendingIsInFlight
  BY TypingInit, PendingInit
<1>2. TypeOK /\ PendingIsInFlight /\ [Next]_vars => PendingIsInFlight'
  BY PendingStep
<1> QED BY <1>1, <1>2, Typing, PTL DEF Spec

LEMMA AnswersAreEarned == Spec => [](TypeOK /\ ReasonInv /\ EarnedInv)
<1>1. Init => ReasonInv /\ EarnedInv
  BY ReasonInit
<1>2. TypeOK /\ ReasonInv /\ EarnedInv /\ [Next]_vars => ReasonInv' /\ EarnedInv'
  BY ReasonStep, EarnedStep
<1> QED BY <1>1, <1>2, Typing, PTL DEF Spec

(* Only an answer that the child wrote to this very action, under its own  *)
(* name, is a controller's decision or the success of an explicit call.    *)
THEOREM GrantsAreReplies == Spec => []GrantIsOwnReply
<1>1. EarnedInv => GrantIsOwnReply
  BY DEF EarnedInv, Reason, GrantIsOwnReply, Granted, ExplicitReply
<1> QED BY AnswersAreEarned, <1>1, PTL

(* A default is applied for its declared reason only.                      *)
THEOREM DefaultsHaveReasons == Spec => []DefaultsEarned
<1>1. EarnedInv => DefaultsEarned
  BY DEF EarnedInv, Reason, DefaultsEarned
<1> QED BY AnswersAreEarned, <1>1, PTL

(* A transport with a torn frame is retired, or its failed write is about  *)
(* to be noticed by the call that holds the slot; and whoever passed the   *)
(* checks found a transport without one.                                   *)
TornInv ==
  /\ torn => startErr \/ writer = "failed"
  /\ \A c \in Callers : /\ pc[c] = "starting" => ~torn
                        /\ pc[c] \in Joining => startErr
  /\ writer = "active" => ~torn

LEMMA TornInit == Init => TornInv
BY DEF Init, TornInv, Joining

LEMMA TornStep ==
  ASSUME TypeOK, SlotInv, TornInv, [Next]_vars
  PROVE  TornInv'
<1> USE DEF callerVars, clockVars, retireVars, childVars, readVars
(* A step that starts and ends no write, and takes nothing back.           *)
<1>0. ASSUME UNCHANGED <<torn, writer>>, startErr => startErr',
             \A c \in Callers :
               /\ pc'[c] = "starting" => pc[c] = "starting"
               /\ pc'[c] \in Joining => pc[c] \in Joining \/ startErr'
      PROVE  TornInv'
  BY <1>0 DEF TornInv
<1>1. ASSUME NEW c \in Callers,
             Admit(c) \/ Enter(c) \/ Wait(c) \/ Loop(c) \/ Receive(c)
               \/ Exited(c) \/ StopWaiting(c)
      PROVE  TornInv'
  <2>1. UNCHANGED <<torn, writer>> /\ (startErr => startErr')
    BY <1>1 DEF Admit, Enter, Wait, Loop, Receive, Exited, StopWaiting, Retire
  <2>2. \E to \in Places \ ({"starting"} \cup Joining) :
          pc' = [pc EXCEPT ![c] = to]
    BY <1>1 DEF Admit, Enter, Wait, Loop, Receive, Exited, StopWaiting,
                Timeout, Unavailable, Finish, Move, Places, InFlight,
                Critical, Joining
  <2> QED BY <1>0, <2>1, <2>2 DEF TypeOK
<1>6. ASSUME NEW c \in Callers, Interrupt(c) PROVE TornInv'
  <2>1. UNCHANGED <<torn, writer>> /\ startErr'
    BY <1>6 DEF Interrupt, Retire
  <2>2. \A d \in Callers : pc'[d] = "starting" => pc[d] = "starting"
    BY <1>6 DEF Interrupt, Move, TypeOK
  <2> QED BY <1>0, <2>1, <2>2
(* The holder of the slot finds the transport usable: nobody has retired   *)
(* it, and nobody else has a write that might fail.                        *)
<1>2. ASSUME NEW c \in Callers, Dispatch(c) PROVE TornInv'
  <2>1. UNCHANGED <<torn, writer, startErr>> /\ pc[c] = "holding"
    BY <1>2 DEF Dispatch
  <2>2. CASE pc' = [pc EXCEPT ![c] = "done"]
    BY <1>0, <2>1, <2>2 DEF TypeOK, Joining
  <2>3. CASE pc' = [pc EXCEPT ![c] = "starting"] /\ Usable
    <3>1. writer = "none"
      BY <2>1 DEF SlotInv, SlotExclusive, NoOrphanWriter, Critical, Joining
    <3>2. ~torn
      BY <2>3, <3>1 DEF TornInv, Usable
    <3>3. \A d \in Callers : pc'[d] \in Joining => pc[d] \in Joining
      BY <2>3 DEF TypeOK, Joining
    <3> QED BY <2>1, <3>1, <3>2, <3>3 DEF TornInv
  <2> QED BY <1>2, <2>2, <2>3
          DEF Dispatch, Timeout, Unavailable, Finish, Move
<1>3. ASSUME NEW c \in Callers, StartWrite(c) PROVE TornInv'
  <2>1. /\ pc[c] = "starting" /\ pc' = [pc EXCEPT ![c] = "writing"]
        /\ writer' = "active" /\ UNCHANGED <<torn, startErr>>
    BY <1>3 DEF StartWrite, Move
  <2> QED BY <2>1 DEF TornInv, TypeOK, Joining
(* A failed write retires the transport before its call returns.           *)
<1>4. ASSUME NEW c \in Callers, Written(c) PROVE TornInv'
  <2>1. /\ writer' = "none" /\ torn' = torn /\ pc[c] = "writing"
        /\ \/ writer = "ok" /\ startErr' = startErr
           \/ startErr'
    BY <1>4 DEF Written, Retire
  <2>2. \A d \in Callers : /\ pc'[d] = "starting" => pc[d] = "starting"
                           /\ pc'[d] \in Joining => pc[d] \in Joining
    BY <1>4 DEF Written, Unavailable, Finish, Move, TypeOK, Joining
  <2> QED BY <2>1, <2>2 DEF TornInv
(* So does an interrupted one, before it is joined.                        *)
<1>5. ASSUME NEW c \in Callers, Join(c) PROVE TornInv'
  <2>1. writer' = "none" /\ UNCHANGED <<torn, startErr>> /\ pc[c] \in Joining
    BY <1>5 DEF Join, Joining
  <2>2. startErr
    BY <2>1 DEF TornInv
  <2>3. \A d \in Callers : /\ pc'[d] = "starting" => pc[d] = "starting"
                           /\ pc'[d] \in Joining => pc[d] \in Joining
    BY <1>5 DEF Join, Timeout, Unavailable, Finish, TypeOK, Joining
  <2> QED BY <2>1, <2>2, <2>3 DEF TornInv
<1>7. CASE WriteFrame
  BY <1>7 DEF WriteFrame, TornInv
(* While one writes nobody else has the slot, so nobody is about to.       *)
<1>8. CASE WriteFail
  <2>1. \A c \in Callers : pc[c] # "starting"
    BY <1>8 DEF WriteFail, SlotInv, SlotExclusive, NoOrphanWriter, Critical,
                Joining
  <2> QED BY <1>8, <2>1 DEF WriteFail, TornInv
<1>9. ASSUME \/ Goroutines /\ ~WriteFrame /\ ~WriteFail
             \/ Environment \/ UNCHANGED vars
      PROVE  TornInv'
  <2>1. UNCHANGED <<pc, torn, writer, startErr>>
    BY <1>9 DEF Goroutines, ReadResponse, ReaderQuits, ReaderEnds, WaitReturns,
                Environment, Expire, Cancel, ChildEmit, ChildRead, ChildCloses,
                ChildExit, Shutdown, CloseStdin, vars
  <2> QED BY <1>0, <2>1
<1> QED BY <1>1, <1>2, <1>3, <1>4, <1>5, <1>6, <1>7, <1>8, <1>9
        DEF Next, CallerStep, Quiescent

(* Once a frame may be partial, no call begins another one: for any number *)
(* of calls, whichever deadline, context, exit or shutdown ended the write.*)
THEOREM NoFrameAfterTorn == Spec => []NothingAfterTorn
<1>1. Init => TypeOK /\ SlotInv /\ TornInv
  BY TypingInit, SlotInit, TornInit
<1>2. (TypeOK /\ SlotInv /\ TornInv) /\ [Next]_vars
        => (TypeOK /\ SlotInv /\ TornInv)'
  BY TypingStep, SlotStep, TornStep
<1>3. TornInv => NothingAfterTorn
  BY DEF TornInv, NothingAfterTorn
<1> QED BY <1>1, <1>2, <1>3, PTL DEF Spec
-----------------------------------------------------------------------------
(* One terminal resolution per action, and the refinement of Resolution,   *)
(* as long as the router's window is not smaller than the number of        *)
(* actions: a longer run forgets its oldest action, and the promise is     *)
(* limited to the window (bridge.go:50-55).                                *)

(* The bound under which the router forgets nothing.                       *)
WindowSuffices ==
  IsFiniteSet(ActionIds) /\ Cardinality(ActionIds) <= ResolvedWindow

(* The router remembers exactly the actions that have an outcome, and one  *)
(* call has it.                                                            *)
RouterInv ==
  /\ Len(router.fifo) = Cardinality(router.ids)
  /\ \A c \in Callers : Terminal(c) => action[c] \in router.ids
  /\ \A id \in router.ids : \E c \in Callers : Terminal(c) /\ action[c] = id
  /\ \A c, d \in Callers :
       Terminal(c) /\ Terminal(d) /\ action[c] = action[d] => c = d

(* A call that has not returned has no answer.                             *)
Unanswered == \A c \in Callers : pc[c] # "done" => answer[c] = NoAnswer

(* A call refused as a duplicate has a rival: one that is on its way, or   *)
(* one the router remembers.                                               *)
RefusedInv ==
  \A c \in Callers :
    pc[c] = "done" /\ ~Terminal(c) => action[c] \in pending \cup router.ids

Inv == TypeOK /\ SlotInv /\ PendingIsInFlight /\ Unanswered /\ RouterInv
         /\ RefusedInv

(* The answers that are resolutions.                                       *)
Decides(ans) == ans \in Answers /\ ans.by # "none" /\ ans.outcome \in Outcomes

LEMMA DecidingAnswers ==
  ASSUME NEW err \in Errors, NEW id \in ActionIds, NEW reply \in ReplyFrame
  PROVE  /\ Decides(TimeoutAnswer(Registration, err))
         /\ Decides(UnavailableAnswer(Registration, err))
         /\ Decides(CandidateAnswer(Registration, id, reply))
BY WorkerAssumption
   DEF WorkerAssumption, Decides, Errors, Answers, Sources, ReplyFrame,
       TimeoutAnswer, UnavailableAnswer, CandidateAnswer

(* A window with room for every action takes one more without forgetting.  *)
LEMMA PushKeepsAll ==
  ASSUME WindowSuffices, NEW win \in Windows, NEW id \in ActionIds,
         id \notin win.ids, Len(win.fifo) = Cardinality(win.ids)
  PROVE  /\ Push(win, id, ResolvedWindow).ids = win.ids \cup {id}
         /\ Len(Push(win, id, ResolvedWindow).fifo)
              = Cardinality(win.ids \cup {id})
<1>1. IsFiniteSet(win.ids) /\ win.ids \cup {id} \subseteq ActionIds
  BY FS_Subset DEF WindowSuffices, Windows
<1>2. Cardinality(win.ids \cup {id}) = Cardinality(win.ids) + 1
  BY <1>1, FS_AddElement
<1>3. /\ Cardinality(win.ids \cup {id}) <= Cardinality(ActionIds)
      /\ Cardinality(ActionIds) \in Nat /\ Cardinality(win.ids) \in Nat
  BY <1>1, FS_Subset, FS_CardinalityType DEF WindowSuffices
<1>4. Len(Append(win.fifo, id)) = Len(win.fifo) + 1
  BY DEF Windows
<1>5. Len(Append(win.fifo, id)) <= ResolvedWindow /\ ResolvedWindow \in Nat
  BY <1>2, <1>3, <1>4, WorkerAssumption DEF WindowSuffices, WorkerAssumption
<1>6. Push(win, id, ResolvedWindow)
        = [ids |-> win.ids \cup {id}, fifo |-> Append(win.fifo, id)]
  BY <1>3, <1>4, <1>5 DEF Push
<1> QED BY <1>2, <1>4, <1>6

-----------------------------------------------------------------------------
(* A call in flight that returns                                           *)

(* What the others see of it: nothing.                                     *)
LEMMA OthersUnchanged ==
  ASSUME TypeOK, action' = action, NEW c \in Callers, NEW ans, Finish(c, ans),
         NEW d \in Callers, d # c
  PROVE  ((Terminal(d))' <=> Terminal(d)) /\ (Status(d))' = Status(d) /\ answer'[d] = answer[d]
BY DEF Finish, TypeOK, Terminal, Status

LEMMA FinishRouter ==
  ASSUME WindowSuffices, TypeOK, RouterInv, action' = action, NEW c \in Callers,
         pc[c] \in InFlight, NEW ans, Decides(ans), Finish(c, ans)
  PROVE  RouterInv'
<1>1. /\ router \in Windows /\ action[c] \in ActionIds
      /\ pc'[c] = "done" /\ pc[c] # "done"
  BY DEF TypeOK, Windows, Finish, InFlight, Critical, Joining
<1>2. ~Terminal(c)
  BY <1>1 DEF Terminal
<1>3. \A d \in Callers : d # c => ((Terminal(d))' <=> Terminal(d))
  BY OthersUnchanged
<1>4. CASE Resolved(c)
  <2>1. router' = router /\ answer'[c] = DuplicateAnswer
    BY <1>4 DEF Finish, TypeOK
  <2>2. ~(Terminal(c))'
    BY <2>1 DEF Terminal, DuplicateAnswer
  <2>3. \A d \in Callers : ((Terminal(d))' <=> Terminal(d))
    BY <1>2, <1>3, <2>2
  <2> QED BY <2>1, <2>3 DEF RouterInv
<1>5. CASE ~Resolved(c)
  <2>1. router' = Push(router, action[c], ResolvedWindow) /\ answer'[c] = ans
    BY <1>5 DEF Finish, TypeOK
  <2>2. action[c] \notin router.ids /\ Len(router.fifo) = Cardinality(router.ids)
    BY <1>5 DEF Resolved, RouterInv
  <2>3. /\ router'.ids = router.ids \cup {action[c]}
        /\ Len(router'.fifo) = Cardinality(router'.ids)
    BY <1>1, <2>1, <2>2, PushKeepsAll
  <2>4. (Terminal(c))'
    BY <1>1, <2>1 DEF Terminal, Decides
  <2> QED BY <1>3, <2>2, <2>3, <2>4 DEF RouterInv
<1> QED BY <1>4, <1>5

(* It resolves its action, or is refused because another call has.         *)
LEMMA FinishPromise ==
  ASSUME TypeOK, Unanswered, RouterInv, action' = action, NEW c \in Callers,
         pc[c] \in InFlight, NEW ans, Decides(ans), Finish(c, ans)
  PROVE  Promise!Next
<1>0. pc[c] # "idle" /\ pc[c] # "done" /\ pc'[c] = "done" /\ "done" \notin InFlight
  BY DEF TypeOK, Finish, InFlight, Critical, Joining
<1>1. Status(c) = "pending"
  BY <1>0 DEF Status, Terminal
<1>2. \A d \in Callers : d # c => (Status(d))' = Status(d) /\ answer'[d] = answer[d]
  BY OthersUnchanged
<1>3. \A d \in Callers : Terminal(d) <=> Status(d) = "resolved"
  BY DEF Terminal, Status, InFlight, Critical, Joining
<1>4. CASE Resolved(c)
  <2>1. answer'[c] = DuplicateAnswer
    BY <1>4 DEF Finish, TypeOK
  <2>2. (Status(c))' = "refused"
    BY <1>0, <2>1 DEF Status, Terminal, DuplicateAnswer
  <2>3. PICK d \in Callers : Terminal(d) /\ action[d] = action[c]
    BY <1>4 DEF Resolved, RouterInv
  <2>4. d \in Callers \ {c} /\ Status(d) = "resolved"
    BY <1>0, <1>3, <2>3 DEF Terminal
  <2>5. answer'[c].outcome = "empty" /\ answer[c].outcome = "empty"
    BY <1>0, <2>1 DEF DuplicateAnswer, NoAnswer, Unanswered
  <2>6. Promise!Refuse(c)
    BY <1>1, <1>2, <2>2, <2>3, <2>4, <2>5 DEF Promise!Refuse, Promise!Rival
  <2> QED BY <2>6 DEF Promise!Next
<1>5. CASE ~Resolved(c)
  <2>1. answer'[c] = ans
    BY <1>5 DEF Finish, TypeOK
  <2>2. (Status(c))' = "resolved"
    BY <1>0, <2>1 DEF Status, Terminal, Decides
  <2>3. \A d \in Callers : action[d] = action[c] => Status(d) # "resolved"
    BY <1>3, <1>5 DEF Resolved, RouterInv
  <2>4. Promise!Resolve(c)
    BY <1>1, <1>2, <2>1, <2>2, <2>3
       DEF Promise!Resolve, Promise!Rival, Decides
  <2> QED BY <2>4 DEF Promise!Next
<1> QED BY <1>4, <1>5

-----------------------------------------------------------------------------
(* All steps                                                               *)

Returns(c) ==
  /\ action' = action
  /\ pc[c] \in InFlight
  /\ \E ans : Decides(ans) /\ Finish(c, ans)

Advances(c) ==
  /\ action' = action
  /\ pc[c] \in InFlight
  /\ \E to \in InFlight : Move(c, to)

(* As far as callers can tell, a step admits a call, lets one in flight    *)
(* return or move on, or is none of their business.                        *)
LEMMA StepKinds ==
  ASSUME TypeOK, [Next]_vars
  PROVE  \/ \E c \in Callers : Admit(c) \/ Returns(c) \/ Advances(c)
         \/ UNCHANGED <<action, pc, answer, pending, router>>
<1> USE DEF callerVars, clockVars, retireVars, childVars, readVars
<1>1. {"admitted", "waiting", "holding", "starting", "writing", "looping",
       "selecting", "joinDeadline", "joinCancel", "joinShutdown"} \subseteq InFlight
  BY DEF InFlight, Critical, Joining
<1>2. ASSUME NEW c \in Callers, action' = action, pc[c] \in InFlight,
             NEW err \in Errors, Timeout(c, err) \/ Unavailable(c, err)
      PROVE  Returns(c)
  <2>1. /\ Decides(TimeoutAnswer(Registration, err))
        /\ Decides(UnavailableAnswer(Registration, err))
    BY WorkerAssumption
       DEF WorkerAssumption, Decides, Errors, Answers, Sources,
           TimeoutAnswer, UnavailableAnswer
  <2> QED BY <1>2, <2>1 DEF Returns, Timeout, Unavailable
<1>3. "none" \in Errors /\ "cause" \in Errors
  BY DEF Errors
<1>4. ASSUME NEW c \in Callers,
             Enter(c) \/ Wait(c) \/ Dispatch(c) \/ StartWrite(c) \/ Written(c)
               \/ Interrupt(c) \/ Loop(c) \/ Exited(c) \/ StopWaiting(c)
      PROVE  Returns(c) \/ Advances(c)
  <2>1. action' = action /\ pc[c] \in InFlight
    BY <1>1, <1>4 DEF Enter, Wait, Dispatch, StartWrite, Written, Interrupt,
                      Loop, Exited, StopWaiting
  <2>2. \/ \E err \in Errors : Timeout(c, err) \/ Unavailable(c, err)
        \/ \E to \in InFlight : Move(c, to)
    BY <1>1, <1>3, <1>4 DEF Enter, Wait, Dispatch, StartWrite, Written,
                            Interrupt, Loop, Exited, StopWaiting
  <2> QED BY <1>2, <2>1, <2>2 DEF Advances
<1>5. ASSUME NEW c \in Callers, Join(c) PROVE Returns(c)
  <2>1. action' = action /\ pc[c] \in InFlight
    BY <1>1, <1>5 DEF Join
  <2> QED BY <1>2, <1>3, <1>5, <2>1 DEF Join
<1>6. ASSUME NEW c \in Callers, Receive(c) PROVE Returns(c) \/ Advances(c)
  <2>1. action' = action /\ pc[c] \in InFlight /\ action[c] \in ActionIds
    BY <1>1, <1>6 DEF Receive, TypeOK
  <2>2. CASE Unavailable(c, "cause")
    BY <1>2, <1>3, <2>1, <2>2
  <2>3. CASE Move(c, "looping")
    BY <1>1, <2>1, <2>3 DEF Advances
  <2>4. CASE /\ Head(responses) # Malformed /\ responses # <<>>
             /\ Finish(c, CandidateAnswer(Registration, action[c],
                                          Head(responses)))
    <3>1. Head(responses) \in ChildFrames \cup {Malformed}
      BY <2>4 DEF TypeOK
    <3>2. Head(responses) \in ReplyFrame
      BY <2>4, <3>1, WorkerAssumption DEF WorkerAssumption
    <3>3. Decides(CandidateAnswer(Registration, action[c], Head(responses)))
      BY <1>3, <2>1, <3>2, DecidingAnswers
    <3> QED BY <2>1, <2>4, <3>3 DEF Returns
  <2> QED BY <1>6, <2>2, <2>3, <2>4 DEF Receive
<1>7. ASSUME Goroutines PROVE UNCHANGED <<action, pc, answer, pending, router>>
  BY <1>7 DEF Goroutines, WriteFrame, WriteFail, ReadResponse, ReaderQuits,
              ReaderEnds, WaitReturns
<1>8. ASSUME Environment PROVE UNCHANGED <<action, pc, answer, pending, router>>
  BY <1>8 DEF Environment, Expire, Cancel, ChildEmit, ChildRead, ChildCloses, ChildExit,
              Shutdown, CloseStdin
<1>9. CASE UNCHANGED vars
  BY <1>9 DEF vars
<1> QED BY <1>4, <1>5, <1>6, <1>7, <1>8, <1>9
        DEF Next, CallerStep, Quiescent

(* A call that moves on is still pending and still has no answer.          *)
LEMMA AdvanceHidden ==
  ASSUME TypeOK, NEW c \in Callers, Advances(c)
  PROVE  /\ UNCHANGED <<action, answer, router, pending>>
         /\ \A d \in Callers : /\ pc'[d] = "done" <=> pc[d] = "done"
                               /\ (Terminal(d))' <=> Terminal(d)
                               /\ (Status(d))' = Status(d)
<1>1. /\ "idle" \notin InFlight /\ "done" \notin InFlight
  BY DEF InFlight, Critical, Joining
<1>2. PICK to \in InFlight : pc' = [pc EXCEPT ![c] = to]
  BY DEF Advances, Move
<1>3. UNCHANGED <<action, answer, router, pending>> /\ pc[c] \in InFlight
  BY DEF Advances, Move
<1> QED BY <1>1, <1>2, <1>3 DEF TypeOK, Terminal, Status

(* A call that is not admitted, or now is, resolves nothing.               *)
LEMMA AdmitHidden ==
  ASSUME TypeOK, NEW c \in Callers, Admit(c)
  PROVE  /\ UNCHANGED <<action, router>>
         /\ \A d \in Callers : d # c => /\ pc'[d] = pc[d]
                                        /\ answer'[d] = answer[d]
                                        /\ (Status(d))' = Status(d)
         /\ \A d \in Callers : (Terminal(d))' <=> Terminal(d)
         /\ pc[c] = "idle"
BY DEF Admit, TypeOK, Terminal, Status, DuplicateAnswer

(* Whoever returns leaves its action with the router.                      *)
LEMMA ReturnRefused ==
  ASSUME WindowSuffices, TypeOK, RouterInv, RefusedInv, NEW c \in Callers,
         Returns(c)
  PROVE  RefusedInv'
<1>1. PICK ans : Decides(ans) /\ Finish(c, ans)
  BY DEF Returns
<1>2. action' = action /\ router \in Windows /\ action[c] \in ActionIds
  BY DEF Returns, TypeOK, Windows
<1>3. router.ids \subseteq router'.ids /\ action[c] \in router'.ids
  <2>1. CASE Resolved(c)
    BY <1>1, <2>1 DEF Finish, Resolved
  <2>2. CASE ~Resolved(c)
    <3>1. router' = Push(router, action[c], ResolvedWindow)
      BY <1>1, <2>2 DEF Finish
    <3>2. router'.ids = router.ids \cup {action[c]}
      BY <1>2, <2>2, <3>1, PushKeepsAll DEF Resolved, RouterInv
    <3> QED BY <3>2
  <2> QED BY <2>1, <2>2
<1>4. pending' = pending \ {action[c]} /\ pc' = [pc EXCEPT ![c] = "done"]
  BY <1>1 DEF Finish
<1>5. \A d \in Callers : d # c => ((Terminal(d))' <=> Terminal(d))
  BY <1>1, <1>2, OthersUnchanged
<1> QED BY <1>2, <1>3, <1>4, <1>5 DEF RefusedInv, TypeOK

(* A call refused on admission found its action pending.                   *)
LEMMA AdmitRefused ==
  ASSUME TypeOK, RefusedInv, NEW c \in Callers, Admit(c)
  PROVE  RefusedInv'
<1>1. /\ UNCHANGED <<action, router>> /\ pc[c] = "idle"
      /\ \A d \in Callers : d # c => pc'[d] = pc[d]
      /\ \A d \in Callers : (Terminal(d))' <=> Terminal(d)
  BY AdmitHidden
<1>2. pending \subseteq pending'
  BY DEF Admit
<1>3. pc'[c] = "done" => action[c] \in pending'
  BY DEF Admit, Duplicate, TypeOK
<1> QED BY <1>1, <1>2, <1>3 DEF RefusedInv

LEMMA InvInit == Init => Inv
<1> SUFFICES ASSUME Init PROVE Inv
  OBVIOUS
<1>1. TypeOK /\ SlotInv /\ PendingIsInFlight /\ Unanswered
  BY TypingInit, SlotInit, PendingInit DEF Init, Unanswered
<1>2. RouterInv /\ RefusedInv
  BY FS_EmptySet DEF Init, RouterInv, RefusedInv, Terminal, EmptyWindow
<1> QED BY <1>1, <1>2 DEF Inv

LEMMA InvStep ==
  ASSUME WindowSuffices, Inv, [Next]_vars
  PROVE  Inv'
<1>1. TypeOK' /\ SlotInv' /\ PendingIsInFlight'
  BY TypingStep, SlotStep, PendingStep DEF Inv
<1>2. CASE \E c \in Callers : Admit(c)
  <2>1. PICK c \in Callers : Admit(c)
    BY <1>2
  <2>2. RouterInv' /\ RefusedInv'
    BY <2>1, AdmitHidden, AdmitRefused DEF Inv, RouterInv
  <2>3. Unanswered'
    BY <2>1 DEF Inv, TypeOK, Unanswered, Admit
  <2> QED BY <1>1, <2>2, <2>3 DEF Inv
<1>3. CASE \E c \in Callers : Returns(c)
  <2>1. PICK c \in Callers : Returns(c)
    BY <1>3
  <2>2. RouterInv' /\ RefusedInv'
    BY <2>1, FinishRouter, ReturnRefused DEF Inv, Returns
  <2>3. Unanswered'
    BY <2>1 DEF Inv, TypeOK, Unanswered, Returns, Finish
  <2> QED BY <1>1, <2>2, <2>3 DEF Inv
<1>4. CASE \E c \in Callers : Advances(c)
  <2>1. RouterInv' /\ Unanswered' /\ RefusedInv'
    BY <1>4, AdvanceHidden DEF Inv, RouterInv, Unanswered, RefusedInv
  <2> QED BY <1>1, <2>1 DEF Inv
<1>5. CASE UNCHANGED <<action, pc, answer, pending, router>>
  <2>1. RouterInv' /\ Unanswered' /\ RefusedInv'
    BY <1>5 DEF Inv, RouterInv, Unanswered, RefusedInv, Terminal
  <2> QED BY <1>1, <2>1 DEF Inv
<1> QED BY <1>2, <1>3, <1>4, <1>5, StepKinds DEF Inv

-----------------------------------------------------------------------------
(* The refinement                                                          *)

LEMMA PromiseInit == Init => Promise!Init
BY DEF Init, Promise!Init, Status, Terminal, NoAnswer, InFlight, Critical, Joining

LEMMA AdmitPromise ==
  ASSUME TypeOK, PendingIsInFlight, Unanswered, NEW c \in Callers, Admit(c)
  PROVE  Promise!Next
<1>1. /\ Status(c) = "new"
      /\ \A d \in Callers : pc[d] \in InFlight => Status(d) = "pending"
  BY DEF Admit, Status, Terminal, InFlight, Critical, Joining
<1>2. /\ UNCHANGED action
      /\ \A d \in Callers : d # c => /\ answer'[d] = answer[d]
                                     /\ (Status(d))' = Status(d)
      /\ pc[c] = "idle" /\ "idle" \notin InFlight
  BY AdmitHidden DEF InFlight, Critical, Joining
<1>3. CASE Duplicate(c)
  <2>1. PICK d \in Callers : pc[d] \in InFlight /\ action[d] = action[c]
    BY <1>3 DEF Duplicate, PendingIsInFlight
  <2>2. d \in Callers \ {c} /\ Status(d) = "pending"
    BY <1>1, <1>2, <2>1
  <2>3. pc'[c] = "done" /\ answer'[c] = DuplicateAnswer /\ answer[c] = NoAnswer
    BY <1>2, <1>3 DEF Admit, TypeOK, Unanswered
  <2>4. (Status(c))' = "refused" /\ answer'[c].outcome = answer[c].outcome
    BY <2>3 DEF Status, Terminal, DuplicateAnswer, NoAnswer, InFlight, Critical,
                Joining
  <2>5. Promise!Refuse(c)
    BY <1>1, <1>2, <2>1, <2>2, <2>4 DEF Promise!Refuse, Promise!Rival
  <2> QED BY <2>5 DEF Promise!Next
<1>4. CASE ~Duplicate(c)
  <2>1. \A d \in Callers : action[d] = action[c] => Status(d) # "pending"
    <3>1. \A d \in Callers : action[d] = action[c] => pc[d] \notin InFlight
      BY <1>4 DEF Duplicate, PendingIsInFlight
    <3> QED BY <3>1 DEF Status
  <2>2. pc'[c] = "admitted" /\ answer' = answer
    BY <1>4 DEF Admit, TypeOK
  <2>3. (Status(c))' = "pending"
    BY <2>2 DEF Status, Terminal, InFlight, Critical, Joining
  <2>4. Promise!Open(c)
    BY <1>1, <1>2, <2>1, <2>2, <2>3 DEF Promise!Open, Promise!Rival
  <2> QED BY <2>4 DEF Promise!Next
<1> QED BY <1>3, <1>4

LEMMA PromiseStep ==
  ASSUME Inv, [Next]_vars
  PROVE  [Promise!Next]_(Promise!vars)
<1>1. CASE \E c \in Callers : Admit(c)
  BY <1>1, AdmitPromise DEF Inv
<1>2. CASE \E c \in Callers : Returns(c)
  BY <1>2, FinishPromise DEF Inv, Returns
<1>3. CASE \E c \in Callers : Advances(c)
  <2>1. UNCHANGED <<action, answer>> /\ \A d \in Callers : (Status(d))' = Status(d)
    BY <1>3, AdvanceHidden DEF Inv
  <2> QED BY <2>1 DEF Promise!vars
<1>4. CASE UNCHANGED <<action, pc, answer, pending, router>>
  BY <1>4 DEF Promise!vars, Status, Terminal
<1> QED BY <1>1, <1>2, <1>3, <1>4, StepKinds DEF Inv

(* With pending map, slot, windows and pipes the worker keeps the promise  *)
(* of one terminal resolution per action.                                  *)
THEOREM WorkerKeepsPromise ==
  ASSUME WindowSuffices
  PROVE  Spec => KeepsPromise
<1>1. Init => Inv /\ Promise!Init
  BY InvInit, PromiseInit
<1>2. Inv /\ [Next]_vars => Inv'
  BY InvStep
<1>3. Inv /\ [Next]_vars => [Promise!Next]_(Promise!vars)
  BY PromiseStep
<1> QED BY <1>1, <1>2, <1>3, PTL DEF Spec, KeepsPromise, Promise!Spec

(* No action gets two outcomes, and a call that is refused has a rival     *)
(* that owns the outcome or is on its way to it.                           *)
THEOREM OneResolutionPerAction ==
  ASSUME WindowSuffices
  PROVE  Spec => []OneTerminalResolution
<1>1. Init => Inv
  BY InvInit
<1>2. Inv /\ [Next]_vars => Inv'
  BY InvStep
<1>3. Inv => OneTerminalResolution
  <2> SUFFICES ASSUME Inv PROVE OneTerminalResolution
    OBVIOUS
  <2>1. ASSUME NEW c \in Callers, pc[c] = "done", ~Terminal(c)
        PROVE  \E d \in Callers : /\ action[d] = action[c]
                                  /\ Terminal(d) \/ pc[d] \in InFlight
    <3>1. action[c] \in pending \cup router.ids
      BY <2>1 DEF Inv, RefusedInv
    <3>2. CASE action[c] \in pending
      BY <3>2 DEF Inv, PendingIsInFlight
    <3>3. CASE action[c] \in router.ids
      BY <3>3 DEF Inv, RouterInv
    <3> QED BY <3>1, <3>2, <3>3
  <2> QED BY <2>1 DEF Inv, RouterInv, OneTerminalResolution
<1> QED BY <1>1, <1>2, <1>3, PTL DEF Spec

-----------------------------------------------------------------------------
(* Late replies                                                            *)

(* The bound under which the worker forgets none of its calls.             *)
MemorySuffices == IsFiniteSet(Callers) /\ Cardinality(Callers) <= RememberWindow

Dispatched == {"writing", "looping", "selecting"} \cup Joining

Returned == {c \in Callers : pc[c] = "done"}

(* What was handed to the child belongs to a call that is still at it, or  *)
(* is remembered; a call is remembered once at most.                       *)
MemoryInv ==
  /\ Len(remembered.fifo) <= Cardinality(Returned)
  /\ \A id \in sent :
       \/ id \in remembered.ids
       \/ \E c \in Callers : pc[c] \in Dispatched /\ action[c] = id

LEMMA MemoryInit == Init => MemoryInv
<1> SUFFICES ASSUME Init PROVE MemoryInv
  OBVIOUS
<1>1. Returned = {}
  BY DEF Init, Returned
<1> QED BY <1>1, FS_EmptySet DEF Init, MemoryInv, EmptyWindow

(* A call returns once, and what is remembered of it stays.                *)
LEMMA ReturnMemory ==
  ASSUME MemorySuffices, TypeOK, MemoryInv, NEW c \in Callers, pc[c] # "done",
         pc' = [pc EXCEPT ![c] = "done"], UNCHANGED <<action, sent>>,
         \/ Remember(c)
         \/ pc[c] \notin Dispatched /\ UNCHANGED remembered
  PROVE  MemoryInv'
<1>1. /\ remembered \in Windows /\ action[c] \in ActionIds
      /\ Len(remembered.fifo) \in Nat /\ RememberWindow \in Nat
  BY WorkerAssumption DEF TypeOK, Windows, WorkerAssumption
<1>2. /\ Returned' = Returned \cup {c} /\ c \notin Returned
      /\ Returned \subseteq Callers /\ Returned' \subseteq Callers
  BY DEF Returned, TypeOK
<1>3. /\ Cardinality(Returned') = Cardinality(Returned) + 1
      /\ Cardinality(Returned') <= RememberWindow
      /\ Cardinality(Returned) \in Nat
  <2>1. IsFiniteSet(Returned) /\ Cardinality(Returned) \in Nat
    BY <1>2, FS_Subset, FS_CardinalityType DEF MemorySuffices
  <2>2. Cardinality(Returned') = Cardinality(Returned) + 1
    BY <1>2, <2>1, FS_AddElement
  <2>3. /\ Cardinality(Returned') <= Cardinality(Callers)
        /\ Cardinality(Callers) \in Nat
    BY <1>2, FS_Subset, FS_CardinalityType DEF MemorySuffices
  <2> QED BY <1>1, <2>1, <2>2, <2>3 DEF MemorySuffices
<1>4. \A d \in Callers : d # c => pc'[d] = pc[d]
  BY DEF TypeOK
<1>5. CASE Remember(c)
  <2>1. /\ Append(remembered.fifo, action[c]) \in Seq(ActionIds)
        /\ Len(Append(remembered.fifo, action[c])) = Len(remembered.fifo) + 1
    BY <1>1 DEF Windows
  <2>2. Len(remembered.fifo) + 1 <= Cardinality(Returned')
    BY <1>1, <1>3 DEF MemoryInv
  <2>3. remembered' = [ids |-> remembered.ids \cup {action[c]},
                       fifo |-> Append(remembered.fifo, action[c])]
    BY <1>1, <1>3, <1>5, <2>1, <2>2 DEF Remember, Push
  <2>4. \A id \in sent : \/ id \in remembered.ids \/ id = action[c]
                         \/ \E d \in Callers : /\ d # c /\ pc[d] \in Dispatched
                                               /\ action[d] = id
    BY DEF MemoryInv
  <2> QED BY <1>4, <2>1, <2>2, <2>3, <2>4 DEF MemoryInv
<1>6. CASE pc[c] \notin Dispatched /\ UNCHANGED remembered
  <2>1. Len(remembered'.fifo) <= Cardinality(Returned')
    BY <1>1, <1>3, <1>6 DEF MemoryInv
  <2> QED BY <1>4, <1>6, <2>1 DEF MemoryInv
<1> QED BY <1>5, <1>6

LEMMA MemoryStep ==
  ASSUME MemorySuffices, TypeOK, SlotInv, MemoryInv, [Next]_vars
  PROVE  MemoryInv'
<1> USE DEF callerVars, clockVars, retireVars, childVars, readVars
<1>0. CASE UNCHANGED <<action, pc, sent, remembered>>
  BY <1>0 DEF MemoryInv, Returned
(* A call that returns.                                                    *)
<1>1. ASSUME NEW c \in Callers, pc[c] # "done", NEW ans,
             Finish(c, ans), UNCHANGED <<action, sent>>,
             \/ Remember(c)
             \/ pc[c] \notin Dispatched /\ UNCHANGED remembered
      PROVE  MemoryInv'
  BY <1>1, ReturnMemory DEF Finish
(* One that moves on, and stays at its write or answer if it was there.    *)
<1>2. ASSUME NEW c \in Callers, NEW to \in Places \ {"done"}, Move(c, to),
             pc[c] # "done", pc[c] \in Dispatched => to \in Dispatched,
             UNCHANGED <<action, sent, remembered>>
      PROVE  MemoryInv'
  <2>1. /\ pc'[c] = to /\ \A d \in Callers : d # c => pc'[d] = pc[d]
    BY <1>2 DEF Move, TypeOK
  <2>2. Returned' = Returned
    BY <1>2, <2>1 DEF Returned
  <2> QED BY <1>2, <2>1, <2>2 DEF MemoryInv
<1>3. /\ {"admitted", "waiting", "holding", "starting", "writing", "looping",
          "selecting"} \cup Joining \subseteq Places \ {"done"}
      /\ {"idle", "admitted", "waiting", "holding", "starting"} \cap Dispatched = {}
      /\ {"writing", "looping", "selecting", "joinDeadline", "joinCancel",
          "joinShutdown"} = Dispatched
  BY DEF Places, InFlight, Critical, Joining, Dispatched
<1>4. ASSUME NEW c \in Callers, Admit(c) PROVE MemoryInv'
  <2>1. UNCHANGED <<action, sent, remembered>> /\ pc[c] = "idle"
    BY <1>4 DEF Admit
  <2>2. CASE pc' = [pc EXCEPT ![c] = "done"]
    BY <1>3, <2>1, <2>2, ReturnMemory
  <2>3. CASE pc' = [pc EXCEPT ![c] = "admitted"]
    <3>1. /\ pc'[c] = "admitted" /\ \A d \in Callers : d # c => pc'[d] = pc[d]
      BY <2>3 DEF TypeOK
    <3>2. Returned' = Returned
      BY <2>1, <3>1 DEF Returned
    <3> QED BY <1>3, <2>1, <3>1, <3>2 DEF MemoryInv
  <2> QED BY <1>4, <2>2, <2>3 DEF Admit
<1>5. ASSUME NEW c \in Callers,
             Enter(c) \/ Wait(c) \/ Dispatch(c) \/ StartWrite(c)
      PROVE  MemoryInv'
  <2>1. /\ UNCHANGED <<action, sent, remembered>>
        /\ pc[c] \in {"admitted", "waiting", "holding", "starting"}
    BY <1>5 DEF Enter, Wait, Dispatch, StartWrite
  <2>2. \/ \E ans : Finish(c, ans)
        \/ \E to \in {"waiting", "holding", "starting", "writing"} : Move(c, to)
    BY <1>5 DEF Enter, Wait, Dispatch, StartWrite, Timeout, Unavailable
  <2> QED BY <1>1, <1>2, <1>3, <2>1, <2>2
<1>6. ASSUME NEW c \in Callers,
             Written(c) \/ Interrupt(c) \/ Loop(c) \/ Receive(c)
      PROVE  MemoryInv'
  <2>1. UNCHANGED <<action, sent>> /\ pc[c] \in {"writing", "looping", "selecting"}
    BY <1>6 DEF Written, Interrupt, Loop, Receive
  <2>2. \/ Remember(c) /\ \E ans : Finish(c, ans)
        \/ /\ UNCHANGED remembered
           /\ \E to \in {"looping", "selecting", "joinDeadline", "joinCancel",
                         "joinShutdown"} : Move(c, to)
    BY <1>6 DEF Written, Interrupt, Loop, Receive, Timeout, Unavailable
  <2>3. CASE Remember(c) /\ \E ans : Finish(c, ans)
    BY <1>1, <2>1, <2>3
  <2>4. ASSUME UNCHANGED remembered,
               NEW to \in {"looping", "selecting", "joinDeadline", "joinCancel",
                           "joinShutdown"}, Move(c, to)
        PROVE  MemoryInv'
    <3>1. to \in Dispatched /\ to \in Places \ {"done"} /\ pc[c] # "done"
      BY <1>3, <2>1, <2>4 DEF Dispatched
    <3> QED BY <1>2, <2>1, <2>4, <3>1
  <2> QED BY <2>2, <2>3, <2>4
<1>7. ASSUME NEW c \in Callers, Join(c) \/ Exited(c) \/ StopWaiting(c)
      PROVE  MemoryInv'
  <2>1. UNCHANGED <<action, sent>> /\ pc[c] # "done" /\ Remember(c)
    BY <1>7 DEF Join, Exited, StopWaiting
  <2>2. \E ans : Finish(c, ans)
    BY <1>7 DEF Join, Exited, StopWaiting, Timeout, Unavailable
  <2> QED BY <1>1, <2>1, <2>2
<1>8. CASE WriteFrame
  <2>1. /\ UNCHANGED <<action, pc, remembered>> /\ sent' = sent \cup {action[slot]}
        /\ slot \in Callers /\ pc[slot] \in Dispatched
    BY <1>8 DEF WriteFrame, SlotInv, NoOrphanWriter, TypeOK, Dispatched
  <2> QED BY <2>1 DEF MemoryInv, Returned
<1>9. ASSUME Goroutines, ~WriteFrame PROVE MemoryInv'
  BY <1>0, <1>9 DEF Goroutines, WriteFail, ReadResponse, ReaderQuits,
                    ReaderEnds, WaitReturns
<1>10. CASE Environment
  BY <1>0, <1>10 DEF Environment, Expire, Cancel, ChildEmit, ChildRead, ChildCloses,
                     ChildExit, Shutdown, CloseStdin
<1>11. CASE UNCHANGED vars
  BY <1>0, <1>11 DEF vars
<1> QED BY <1>4, <1>5, <1>6, <1>7, <1>8, <1>9, <1>10, <1>11
        DEF Next, CallerStep, Quiescent

LEMMA TailIsAnother ==
  ASSUME NEW S, NEW s \in Seq(S), s # <<>>
  PROVE  Tail(s) # s
<1>1. Len(Tail(s)) = Len(s) - 1 /\ Len(s) \in Nat
  OBVIOUS
<1>2. \A n \in Nat : n - 1 # n
  OBVIOUS
<1> QED BY <1>1, <1>2

(* A late reply resolves no other call: whoever was given the child's      *)
(* attention before is remembered, for as many calls as the memory holds.  *)
THEOREM LateRepliesAreHarmless ==
  ASSUME MemorySuffices
  PROVE  Spec => LateReplyHarmless
<1> DEFINE Harmless == \A c \in Callers :
             /\ pc[c] = "selecting" /\ pc'[c] = "done"
             /\ responses # <<>> /\ responses' = Tail(responses)
             /\ Head(responses) # Malformed
             => LET id == Head(responses).id
                IN  id = action[c] \/ id \notin sent \/ id \notin router.ids
<1>1. TypeOK /\ SlotInv /\ MemoryInv /\ [Next]_vars => Harmless
  <2> SUFFICES ASSUME TypeOK, SlotInv, MemoryInv, [Next]_vars,
                      NEW c \in Callers,
                      pc[c] = "selecting", pc'[c] = "done",
                      responses # <<>>, responses' = Tail(responses),
                      Head(responses) # Malformed,
                      Head(responses).id # action[c],
                      Head(responses).id \in sent
               PROVE  FALSE
    OBVIOUS
  <2>1. Receive(c)
    <3> USE DEF callerVars, clockVars, retireVars, childVars, readVars
    <3>1. responses' # responses
      <4>1. responses \in Seq(ChildFrames \cup {Malformed})
        BY DEF TypeOK
      <4> QED BY <4>1, TailIsAnother
    <3>2. ASSUME NEW d \in Callers, CallerStep(d) PROVE Receive(d) /\ d = c
      <4>1. Receive(d)
        BY <3>1, <3>2 DEF CallerStep, Admit, Enter, Wait, Dispatch, StartWrite, Written,
                          Interrupt, Join, Loop, Exited, StopWaiting
      <4>2. pc[d] = "selecting"
        BY <4>1 DEF Receive
      <4> QED BY <4>1, <4>2 DEF SlotInv, SlotExclusive, Critical
    <3>3. ~(Goroutines \/ Environment \/ UNCHANGED vars)
      <4>1. ASSUME Goroutines \/ Environment \/ UNCHANGED vars PROVE pc' = pc
        BY <4>1 DEF Goroutines, WriteFrame, WriteFail, ReadResponse,
                    ReaderQuits, ReaderEnds, WaitReturns, Environment, Expire,
                    Cancel, ChildEmit, ChildRead, ChildCloses, ChildExit, Shutdown,
                    CloseStdin, vars
      <4> QED BY <4>1
    <3> QED BY <3>2, <3>3 DEF Next, Quiescent
  <2>2. ~Stale(c, Head(responses))
    BY <2>1 DEF Receive, Retire, Move, TypeOK
  <2>3. PICK d \in Callers : pc[d] \in Dispatched
                             /\ action[d] = Head(responses).id
    BY <2>2 DEF Stale, MemoryInv
  <2>4. slot = c /\ slot = d
    BY <2>3 DEF SlotInv, SlotExclusive, Critical, Dispatched
  <2> QED BY <2>3, <2>4
<1>2. TypeOK /\ SlotInv /\ MemoryInv /\ [Next]_vars => [Harmless]_vars
  BY <1>1
<1>3. Init => TypeOK /\ SlotInv /\ MemoryInv
  BY TypingInit, SlotInit, MemoryInit
<1>4. (TypeOK /\ SlotInv /\ MemoryInv) /\ [Next]_vars
        => (TypeOK /\ SlotInv /\ MemoryInv)'
  BY TypingStep, SlotStep, MemoryStep
<1> QED BY <1>2, <1>3, <1>4, PTL DEF Spec, LateReplyHarmless
=============================================================================
