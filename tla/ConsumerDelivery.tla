-------------------------- MODULE ConsumerDelivery --------------------------
(***************************************************************************)
(* runtime/runtime.go: the observation path.  Calls of deliverEvent offer  *)
(* their event to every consumer in the declared order (offerConsumers);   *)
(* each consumer has a bounded queue, a deliver goroutine that writes to   *)
(* the child's standard input, and a goroutine that waits for the child.   *)
(* Whoever sees the end first publishes it (stop).                         *)
(*                                                                         *)
(* The projection cache of offerConsumers computes once what projectEvent  *)
(* gives for each consumer of that mode, so it is the same function here.  *)
(***************************************************************************)
EXTENDS Naturals, Sequences, SequencesExt

CONSTANTS
  Consumers,     \* the declared consumers
  Order,         \* the same, as the sequence offerConsumers walks
  ModeOf,        \* consumer -> its declared projection
  Subscribed,    \* <<event, consumer>> pairs: the consumer's events name its type
  Events,        \* one deliverEvent call each
  ContentOf,     \* event -> the mode of its content, or "absent"
  QueueCap,      \* consumerQueueSize, 128 in the source
  PipeCap        \* frames that fit in an operating-system pipe

Modes == {"full", "sha256", "omit"}
Contents == Modes \cup {"absent"}

(* Start gives every declared consumer one worker, so none is walked twice. *)
ASSUME DeliveryAssumption ==
  /\ Order \in Seq(Consumers)
  /\ \A i, j \in DOMAIN Order : Order[i] = Order[j] => i = j
  /\ ModeOf \in [Consumers -> Modes]
  /\ Subscribed \subseteq Events \X Consumers
  /\ \A e \in Events : ContentOf[e] \in Contents
  /\ QueueCap \in Nat \ {0} /\ PipeCap \in Nat \ {0}

VARIABLES
  position,    \* how many consumers each event has been offered to
  fault,       \* <<event, consumer>> pairs whose offer was diagnosed
  queue,       \* consumerWorker.queue
  dead,        \* consumerWorker.dead is closed
  courier,     \* where the deliver goroutine is
  carried,     \* the frame it took from the queue
  waiter,      \* where the goroutine that runs cmd.Wait is
  child,       \* the consumer process: "running", "deaf" or "exited"
  unread,      \* frames in the pipe to it
  stdinClosed, \* the runtime closed its end of that pipe
  ctxDone,     \* the manager's context is done
  reported,    \* how often stop printed a delivery fault
  broken,      \* the child or its pipe failed before the shutdown (history)
  accepted,    \* the frames the queue took, in order (history)
  written      \* the frames written to the pipe, in order (history)

offerVars == <<position, fault>>
endVars   == <<dead, reported>>
childVars == <<child, unread, broken>>

vars == <<offerVars, queue, endVars, courier, carried, waiter, childVars,
          stdinClosed, ctxDone, accepted, written>>

NoFrame == [event |-> "none", content |-> "absent"]

(* Start: a consumer that cannot start is dead from the beginning.         *)
Init ==
  /\ position = [e \in Events |-> 0]
  /\ fault = {}
  /\ queue = [c \in Consumers |-> <<>>]
  /\ dead \in [Consumers -> BOOLEAN]
  /\ courier = [c \in Consumers |-> IF dead[c] THEN "gone" ELSE "idle"]
  /\ carried = [c \in Consumers |-> NoFrame]
  /\ waiter = [c \in Consumers |-> IF dead[c] THEN "gone" ELSE "waiting"]
  /\ child = [c \in Consumers |-> IF dead[c] THEN "exited" ELSE "running"]
  /\ unread = [c \in Consumers |-> 0]
  /\ stdinClosed = dead
  /\ ctxDone = FALSE
  /\ reported = [c \in Consumers |-> 0]
  /\ broken = dead
  /\ accepted = [c \in Consumers |-> <<>>]
  /\ written = [c \in Consumers |-> <<>>]

-----------------------------------------------------------------------------
(* projectEvent: content may be narrowed to omit, kept, or, when it is     *)
(* full, projected to any mode; anything else is an error.                 *)
Projects_Widening(content, mode) == TRUE
Projects(content, mode) ==
  \/ content \in {"absent", "full", mode}
  \/ mode = "omit"

Projected(content, mode) == IF content = "absent" THEN "absent" ELSE mode

Room(c) == Len(queue[c]) < QueueCap

(* reportConsumerOffer *)
Diagnose_NotFull(e, c) == IF Room(c) THEN fault \cup {<<e, c>>} ELSE fault
Diagnose(e, c) == fault \cup {<<e, c>>}

(***************************************************************************)
(* One turn of the loop of offerConsumers: skip a consumer that did not    *)
(* subscribe; else project, then enqueue under the consumer's lock, or     *)
(* print why not.  It never waits.                                         *)
(***************************************************************************)
Offer_Blocking(e) ==
  LET c == Order[position[e] + 1]
      frame == [event |-> e, content |-> Projected(ContentOf[e], ModeOf[c])]
  IN  /\ position[e] < Len(Order)
      /\ <<e, c>> \in Subscribed
      /\ Projects(ContentOf[e], ModeOf[c]) /\ ~dead[c] /\ Room(c)
      /\ queue' = [queue EXCEPT ![c] = Append(@, frame)]
      /\ accepted' = [accepted EXCEPT ![c] = Append(@, frame)]
      /\ position' = [position EXCEPT ![e] = @ + 1]
      /\ UNCHANGED <<fault, endVars, courier, carried, waiter, childVars,
                     stdinClosed, ctxDone, written>>

Offer(e) ==
  /\ position[e] < Len(Order)
  /\ LET c     == Order[position[e] + 1]
         frame == [event |-> e, content |-> Projected(ContentOf[e], ModeOf[c])]
         takes == Projects(ContentOf[e], ModeOf[c]) /\ ~dead[c] /\ Room(c)
     IN  \/ /\ <<e, c>> \notin Subscribed
            /\ UNCHANGED <<queue, accepted, fault>>
         \/ /\ <<e, c>> \in Subscribed /\ takes
            /\ queue' = [queue EXCEPT ![c] = Append(@, frame)]
            /\ accepted' = [accepted EXCEPT ![c] = Append(@, frame)]
            /\ UNCHANGED fault
         \/ /\ <<e, c>> \in Subscribed /\ ~takes
            /\ fault' = Diagnose(e, c)
            /\ UNCHANGED <<queue, accepted>>
  /\ position' = [position EXCEPT ![e] = @ + 1]
  /\ UNCHANGED <<endVars, courier, carried, waiter, childVars, stdinClosed,
                 ctxDone, written>>

-----------------------------------------------------------------------------
(* stop: the first one publishes the end; a reason is printed once.        *)
Stop(c, reason) ==
  /\ dead' = [dead EXCEPT ![c] = TRUE]
  /\ reported' = [reported EXCEPT ![c] =
                    IF reason /\ ~dead[c] THEN @ + 1 ELSE @]

Go(c, place) == courier' = [courier EXCEPT ![c] = place]

(* The deliver goroutine, at the top of its loop or in its select.         *)
Leave(c) ==
  /\ courier[c] = "idle"
  /\ \/ ctxDone /\ Stop(c, FALSE)
     \/ dead[c] /\ UNCHANGED endVars
  /\ Go(c, "gone")
  /\ UNCHANGED <<offerVars, queue, carried, waiter, childVars, stdinClosed,
                 ctxDone, accepted, written>>

Take_Keeps(c) ==
  /\ courier[c] = "idle"
  /\ queue[c] # <<>>
  /\ carried' = [carried EXCEPT ![c] = Head(queue[c])]
  /\ Go(c, "taken")
  /\ UNCHANGED <<offerVars, queue, endVars, waiter, childVars, stdinClosed,
                 ctxDone, accepted, written>>

Take(c) ==
  /\ courier[c] = "idle"
  /\ queue[c] # <<>>
  /\ carried' = [carried EXCEPT ![c] = Head(queue[c])]
  /\ queue' = [queue EXCEPT ![c] = Tail(@)]
  /\ Go(c, "taken")
  /\ UNCHANGED <<offerVars, endVars, waiter, childVars, stdinClosed, ctxDone,
                 accepted, written>>

(* The two checks before the write.                                        *)
CheckTaken(c) ==
  /\ courier[c] = "taken"
  /\ \/ ctxDone /\ Stop(c, FALSE) /\ Go(c, "gone")
     \/ ~ctxDone /\ dead[c] /\ UNCHANGED endVars /\ Go(c, "gone")
     \/ ~ctxDone /\ ~dead[c] /\ UNCHANGED endVars /\ Go(c, "writing")
  /\ UNCHANGED <<offerVars, queue, carried, waiter, childVars, stdinClosed,
                 ctxDone, accepted, written>>

(* protocol.WriteLine: it waits for room in the pipe, and fails once the   *)
(* pipe is closed at either end; ctx.Err() is read right after a failure.  *)
Write(c) ==
  /\ courier[c] = "writing"
  /\ ~stdinClosed[c] /\ child[c] = "running"
  /\ unread[c] < PipeCap
  /\ unread' = [unread EXCEPT ![c] = @ + 1]
  /\ written' = [written EXCEPT ![c] = Append(@, carried[c])]
  /\ Go(c, "idle")
  /\ UNCHANGED <<offerVars, queue, endVars, carried, waiter, child, broken,
                 stdinClosed, ctxDone, accepted>>

WriteFails(c) ==
  /\ courier[c] = "writing"
  /\ stdinClosed[c] \/ child[c] # "running"
  /\ Go(c, IF ctxDone THEN "failedQuiet" ELSE "failedLoud")
  /\ UNCHANGED <<offerVars, queue, endVars, carried, waiter, childVars,
                 stdinClosed, ctxDone, accepted, written>>

StopAfterWrite(c) ==
  /\ courier[c] \in {"failedQuiet", "failedLoud"}
  /\ Stop(c, courier[c] = "failedLoud")
  /\ Go(c, "gone")
  /\ UNCHANGED <<offerVars, queue, carried, waiter, childVars, stdinClosed,
                 ctxDone, accepted, written>>

(* The goroutine behind cmd.Wait: it returns, reads ctx.Err(), then stops. *)
Waits_Loud(c) == "exitedLoud"
Waits(c) == IF ctxDone THEN "exitedQuiet" ELSE "exitedLoud"

WaitReturns(c) ==
  /\ waiter[c] = "waiting"
  /\ child[c] = "exited"
  /\ waiter' = [waiter EXCEPT ![c] = Waits(c)]
  /\ UNCHANGED <<offerVars, queue, endVars, courier, carried, childVars,
                 stdinClosed, ctxDone, accepted, written>>

StopAfterWait_Silent(c) ==
  /\ waiter[c] \in {"exitedQuiet", "exitedLoud"}
  /\ Stop(c, FALSE)
  /\ waiter' = [waiter EXCEPT ![c] = "gone"]
  /\ UNCHANGED <<offerVars, queue, courier, carried, childVars, stdinClosed,
                 ctxDone, accepted, written>>

StopAfterWait(c) ==
  /\ waiter[c] \in {"exitedQuiet", "exitedLoud"}
  /\ Stop(c, waiter[c] = "exitedLoud")
  /\ waiter' = [waiter EXCEPT ![c] = "gone"]
  /\ UNCHANGED <<offerVars, queue, courier, carried, childVars, stdinClosed,
                 ctxDone, accepted, written>>

-----------------------------------------------------------------------------
(* Manager.Close: the context ends, then every consumer is stopped and its *)
(* standard input closed.                                                  *)
Shutdown ==
  /\ ~ctxDone
  /\ ctxDone' = TRUE
  /\ UNCHANGED <<offerVars, queue, endVars, courier, carried, waiter,
                 childVars, stdinClosed, accepted, written>>

Close(c) ==
  /\ ctxDone
  /\ ~stdinClosed[c]
  /\ Stop(c, FALSE)
  /\ stdinClosed' = [stdinClosed EXCEPT ![c] = TRUE]
  /\ UNCHANGED <<offerVars, queue, courier, carried, waiter, childVars,
                 ctxDone, accepted, written>>

-----------------------------------------------------------------------------
(* The consumer process (external): it reads at its own pace or not at     *)
(* all, may close its standard input while it keeps running, and exits by  *)
(* itself or because the context's end kills it.                           *)
ChildReads(c) ==
  /\ child[c] = "running"
  /\ unread[c] > 0
  /\ unread' = [unread EXCEPT ![c] = @ - 1]
  /\ UNCHANGED <<offerVars, queue, endVars, courier, carried, waiter, child,
                 broken, stdinClosed, ctxDone, accepted, written>>

ChildEnds(c, how) ==
  /\ child[c] # "exited" /\ child[c] # how
  /\ child' = [child EXCEPT ![c] = how]
  /\ broken' = [broken EXCEPT ![c] = @ \/ ~ctxDone]
  /\ UNCHANGED <<offerVars, queue, endVars, courier, carried, waiter, unread,
                 stdinClosed, ctxDone, accepted, written>>

(* The bounded model stops when everything was offered and closed.         *)
Quiescent ==
  /\ \A e \in Events : position[e] = Len(Order)
  /\ \A c \in Consumers :
       /\ courier[c] = "gone" /\ waiter[c] = "gone"
       /\ child[c] = "exited" /\ stdinClosed[c]
  /\ UNCHANGED vars

Runtime(c) ==
  \/ Leave(c) \/ Take(c) \/ CheckTaken(c) \/ Write(c) \/ WriteFails(c)
  \/ StopAfterWrite(c) \/ WaitReturns(c) \/ StopAfterWait(c)

Next ==
  \/ \E e \in Events : Offer(e)
  \/ \E c \in Consumers : Runtime(c) \/ Close(c) \/ ChildReads(c)
  \/ \E c \in Consumers, how \in {"deaf", "exited"} : ChildEnds(c, how)
  \/ Shutdown
  \/ Quiescent

Spec == Init /\ [][Next]_vars

(* Goroutines run.  Nothing is assumed of the child: it need not read.     *)
Fairness ==
  /\ \A e \in Events : WF_vars(Offer(e))
  /\ \A c \in Consumers : /\ WF_vars(WaitReturns(c))
                          /\ WF_vars(StopAfterWait(c))

FairSpec == Spec /\ Fairness

-----------------------------------------------------------------------------
(* Properties                                                              *)

Frame == [event : Events \cup {"none"}, content : Contents]

(* Every variable holds a value of its kind, within its capacity.          *)
TypeOK ==
  /\ position \in [Events -> 0 .. Len(Order)]
  /\ fault \subseteq Events \X Consumers
  /\ queue \in [Consumers -> Seq(Frame)]
  /\ \A c \in Consumers : Len(queue[c]) <= QueueCap
  /\ dead \in [Consumers -> BOOLEAN]
  /\ courier \in [Consumers -> {"idle", "taken", "writing", "failedQuiet",
                                "failedLoud", "gone"}]
  /\ carried \in [Consumers -> Frame]
  /\ waiter \in [Consumers -> {"waiting", "exitedQuiet", "exitedLoud", "gone"}]
  /\ child \in [Consumers -> {"running", "deaf", "exited"}]
  /\ unread \in [Consumers -> 0 .. PipeCap]
  /\ stdinClosed \in [Consumers -> BOOLEAN]
  /\ ctxDone \in BOOLEAN
  /\ reported \in [Consumers -> Nat]
  /\ broken \in [Consumers -> BOOLEAN]
  /\ accepted \in [Consumers -> Seq(Frame)]
  /\ written \in [Consumers -> Seq(Frame)]

(* A consumer's pipe carries what its queue accepted, in that order, with  *)
(* nothing skipped or repeated until delivery ends; what is missing at the *)
(* end is a tail.                                                          *)
DeliveredInOrder == \A c \in Consumers : IsPrefix(written[c], accepted[c])

(* "Content projection is per Consumer, and happens before delivery": no   *)
(* queue ever holds content in another mode than the consumer declared,    *)
(* and full or hashed content is never made up from a narrower form        *)
(* (runtime.go:651-686).                                                   *)
ProjectionRespected ==
  \A c \in Consumers : \A i \in 1 .. Len(accepted[c]) :
    LET frame == accepted[c][i]
    IN  frame.content # "absent" =>
          /\ frame.content = ModeOf[c]
          /\ ContentOf[frame.event] \in {"full", frame.content}
               \/ frame.content = "omit"

(* An offer to a subscriber that did not enter its queue was diagnosed,    *)
(* one that did was not, and the others get nothing: no observation        *)
(* disappears at admission without a word, whether the queue was full, the *)
(* process gone or the content too narrow (docs/runtime.md:373-374).       *)
OfferedOrDiagnosed ==
  \A e \in Events : \A i \in 1 .. position[e] :
    LET c == Order[i]
        taken == \E k \in 1 .. Len(accepted[c]) : accepted[c][k].event = e
    IN  IF <<e, c>> \in Subscribed THEN taken <=> <<e, c>> \notin fault
                                  ELSE ~taken /\ <<e, c>> \notin fault

(* "Expected runtime shutdown is quiet", and an unexpected end is reported *)
(* once at most: a report means the child or its pipe failed before the    *)
(* shutdown began (docs/runtime.md:374-379).                               *)
QuietShutdown ==
  \A c \in Consumers : /\ reported[c] <= 1
                       /\ reported[c] = 1 => broken[c]

(* "An unexpected process exit reports once that observation delivery may  *)
(* be incomplete, even without another event" (docs/runtime.md:374-376).   *)
ExitReported ==
  \A c \in Consumers :
    child[c] = "exited" /\ waiter[c] = "waiting"
      ~> reported[c] = 1 \/ ctxDone

(* A consumer that never reads holds up nobody: every offered event passes *)
(* all consumers (docs/runtime.md:379-380, runtime.go:577-591).            *)
OffersComplete == \A e \in Events : <>(position[e] = Len(Order))
=============================================================================
