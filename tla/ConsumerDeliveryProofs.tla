----------------------- MODULE ConsumerDeliveryProofs -----------------------
(***************************************************************************)
(* Theorems of ConsumerDelivery for any number of consumers and events and *)
(* any queue length.  What was written, the frame in the courier's hand    *)
(* and the queue are, in this order, what the queue accepted, as long as   *)
(* delivery lasts.  An offer is made once for each event and consumer,     *)
(* since no consumer is walked twice, so it leaves a frame or a fault,     *)
(* never both.  Whoever stops a consumer aloud saw it broken first.        *)
(***************************************************************************)
EXTENDS ConsumerDelivery, SequenceTheorems, TLAPS

(* q is what comes after the first n entries of a.                         *)
Behind(a, n, q) ==
  /\ Len(a) = n + Len(q)
  /\ \A k \in 1 .. Len(q) : q[k] = a[n + k]

(* a begins with w.                                                        *)
Leads(w, a) ==
  /\ Len(w) <= Len(a)
  /\ \A k \in 1 .. Len(w) : w[k] = a[k]

InOrder(c) ==
  /\ Leads(written[c], accepted[c])
  /\ courier[c] = "idle" => Behind(accepted[c], Len(written[c]), queue[c])
  /\ courier[c] \in {"taken", "writing"} =>
       /\ Behind(accepted[c], Len(written[c]) + 1, queue[c])
       /\ carried[c] = accepted[c][Len(written[c]) + 1]

OrderInv == \A c \in Consumers : InOrder(c)

(* Frames and faults come from offers that were made.                      *)
OfferedTo(e, c) == \E i \in 1 .. position[e] : Order[i] = c
Taken(e, c) == \E k \in 1 .. Len(accepted[c]) : accepted[c][k].event = e

OffersInv ==
  /\ \A e \in Events, c \in Consumers :
       Taken(e, c) \/ <<e, c>> \in fault => OfferedTo(e, c)
  /\ OfferedOrDiagnosed

Quiet(c) ==
  /\ reported[c] <= 1
  /\ reported[c] = 1 => dead[c] /\ broken[c]
  /\ courier[c] = "failedLoud" => broken[c]
  /\ waiter[c] = "exitedLoud" => broken[c]
  /\ child[c] # "running" \/ stdinClosed[c] => broken[c] \/ ctxDone

QuietInv == \A c \in Consumers : Quiet(c)

-----------------------------------------------------------------------------
(* Sequences                                                               *)

LEMMA AppendBehind ==
  ASSUME NEW S, NEW a \in Seq(S), NEW q \in Seq(S), NEW x \in S, NEW n \in Nat,
         Behind(a, n, q)
  PROVE  Behind(Append(a, x), n, Append(q, x))
<1> DEFINE b == Append(a, x)
           r == Append(q, x)
<1>1. PICK l \in Nat : l = Len(a)
  OBVIOUS
<1>2. PICK m \in Nat : m = Len(q)
  OBVIOUS
<1>3. /\ Len(b) = l + 1 /\ b[l + 1] = x /\ \A k \in 1 .. l : b[k] = a[k]
      /\ Len(r) = m + 1 /\ r[m + 1] = x /\ \A k \in 1 .. m : r[k] = q[k]
  BY <1>1, <1>2
<1>4. l = n + m /\ \A k \in 1 .. m : q[k] = a[n + k]
  BY <1>1, <1>2 DEF Behind
<1> HIDE DEF b, r
<1>5. ASSUME NEW k \in 1 .. m + 1 PROVE r[k] = b[n + k]
  <2>1. CASE k = m + 1
    <3>1. n + k = l + 1
      BY <1>4, <2>1
    <3> QED BY <1>3, <2>1, <3>1
  <2>2. CASE k # m + 1
    <3>1. k \in 1 .. m /\ n + k \in 1 .. l
      BY <1>4, <2>2
    <3> QED BY <1>3, <1>4, <3>1
  <2> QED BY <2>1, <2>2
<1>6. Behind(b, n, r)
  <2>1. Len(b) = n + Len(r) /\ Len(r) = m + 1
    BY <1>3, <1>4
  <2> QED BY <1>5, <2>1 DEF Behind
<1> QED BY <1>6 DEF b, r

LEMMA TakeBehind ==
  ASSUME NEW S, NEW a \in Seq(S), NEW q \in Seq(S), NEW n \in Nat,
         Behind(a, n, q), q # <<>>
  PROVE  Behind(a, n + 1, Tail(q)) /\ Head(q) = a[n + 1]
<1>1. PICK m \in Nat : m = Len(q)
  OBVIOUS
<1>2. /\ m > 0 /\ Head(q) = q[1]
      /\ Len(Tail(q)) = m - 1
      /\ \A k \in 1 .. m - 1 : Tail(q)[k] = q[k + 1]
  BY <1>1
<1>3. Len(a) = n + m /\ \A k \in 1 .. m : q[k] = a[n + k]
  BY <1>1 DEF Behind
<1> DEFINE t == Tail(q)
<1>4. Len(t) = m - 1 /\ \A k \in 1 .. m - 1 : t[k] = q[k + 1]
  BY <1>2
<1> HIDE DEF t
<1>5. Len(a) = (n + 1) + Len(t)
  BY <1>2, <1>3, <1>4
<1>6. ASSUME NEW k \in 1 .. Len(t) PROVE t[k] = a[(n + 1) + k]
  <2>1. k \in 1 .. m - 1 /\ k + 1 \in 1 .. m /\ n + (k + 1) = (n + 1) + k
    BY <1>2, <1>4
  <2> QED BY <1>3, <1>4, <2>1
<1>7. Behind(a, n + 1, t)
  BY <1>5, <1>6 DEF Behind
<1>8. Head(q) = a[n + 1]
  BY <1>2, <1>3
<1> QED BY <1>7, <1>8 DEF t

LEMMA GrowLeads ==
  ASSUME NEW S, NEW a \in Seq(S), NEW w \in Seq(S), NEW x \in S, Leads(w, a)
  PROVE  Leads(w, Append(a, x))
<1>1. PICK l \in Nat : l = Len(a)
  OBVIOUS
<1>2. PICK m \in Nat : m = Len(w)
  OBVIOUS
<1> DEFINE b == Append(a, x)
<1>3. Len(b) = l + 1 /\ \A k \in 1 .. l : b[k] = a[k]
  BY <1>1
<1> HIDE DEF b
<1>4. m <= l /\ \A k \in 1 .. m : w[k] = a[k]
  BY <1>1, <1>2 DEF Leads
<1>5. m <= Len(b) /\ \A k \in 1 .. m : w[k] = b[k]
  BY <1>3, <1>4
<1> QED BY <1>2, <1>5 DEF Leads, b

LEMMA WriteLeads ==
  ASSUME NEW S, NEW a \in Seq(S), NEW w \in Seq(S), NEW q \in Seq(S),
         NEW x \in S, Leads(w, a), Behind(a, Len(w) + 1, q), x = a[Len(w) + 1]
  PROVE  Leads(Append(w, x), a) /\ Behind(a, Len(Append(w, x)), q)
<1>1. PICK m \in Nat : m = Len(w)
  OBVIOUS
<1> DEFINE v == Append(w, x)
<1>2. Len(v) = m + 1 /\ v[m + 1] = x /\ \A k \in 1 .. m : v[k] = w[k]
  BY <1>1
<1> HIDE DEF v
<1>3. Len(q) \in Nat /\ Len(a) = (m + 1) + Len(q)
  BY <1>1 DEF Behind
<1>4. \A k \in 1 .. m : w[k] = a[k]
  BY <1>1 DEF Leads
<1>5. ASSUME NEW k \in 1 .. m + 1 PROVE v[k] = a[k]
  <2>1. CASE k = m + 1
    BY <1>1, <1>2, <2>1
  <2>2. CASE k # m + 1
    <3>1. k \in 1 .. m
      BY <2>2
    <3> QED BY <1>2, <1>4, <3>1
  <2> QED BY <2>1, <2>2
<1>6. Leads(v, a)
  BY <1>2, <1>3, <1>5 DEF Leads
<1>7. Behind(a, Len(v), q)
  BY <1>1, <1>2
<1> QED BY <1>6, <1>7 DEF v

LEMMA LeadsIsPrefix ==
  ASSUME NEW S, NEW a \in Seq(S), NEW w \in Seq(S), Leads(w, a)
  PROVE  IsPrefix(w, a)
<1>1. PICK m \in Nat : m = Len(w)
  OBVIOUS
<1>2. m <= Len(a) /\ Len(a) \in Nat /\ \A k \in 1 .. m : w[k] = a[k]
  BY <1>1 DEF Leads
<1>3. \A k \in 1 .. m : w[k] \in S /\ a[k] \in S
  BY <1>1, <1>2, ElementOfSeq
<1> DEFINE u == SubSeq(w, 1, m)
           v == SubSeq(a, 1, m)
<1>4. /\ u \in Seq(S) /\ Len(u) = m /\ \A k \in 1 .. m : u[k] = w[k]
      /\ v \in Seq(S) /\ Len(v) = m /\ \A k \in 1 .. m : v[k] = a[k]
  BY <1>3, SubSeqProperties
<1> HIDE DEF u, v
<1>5. u = v
  BY <1>2, <1>4, SeqEqual
<1> QED BY <1>1, <1>2, <1>5 DEF IsPrefix, u, v

-----------------------------------------------------------------------------
(* Types                                                                   *)

LEMMA OfferFacts ==
  ASSUME TypeOK, NEW e \in Events, position[e] < Len(Order)
  PROVE  /\ Order[position[e] + 1] \in Consumers
         /\ position[e] \in Nat /\ position[e] + 1 \in 1 .. Len(Order)
         /\ Len(Order) \in Nat
<1>1. position[e] \in 0 .. Len(Order) /\ Len(Order) \in Nat
  BY DeliveryAssumption DEF TypeOK
<1>2. position[e] + 1 \in 1 .. Len(Order)
  BY <1>1
<1>3. Order[position[e] + 1] \in Consumers
  BY <1>2, DeliveryAssumption, ElementOfSeq
<1> QED BY <1>1, <1>2, <1>3

LEMMA FrameType ==
  ASSUME NEW e \in Events, NEW c \in Consumers
  PROVE  [event |-> e, content |-> Projected(ContentOf[e], ModeOf[c])] \in Frame
<1>1. ModeOf[c] \in Modes
  BY DeliveryAssumption
<1>2. Projected(ContentOf[e], ModeOf[c]) \in Contents
  BY <1>1 DEF Projected, Contents
<1> QED BY <1>2 DEF Frame

LEMMA StopType ==
  ASSUME TypeOK, NEW c \in Consumers, NEW reason, Stop(c, reason)
  PROVE  dead' \in [Consumers -> BOOLEAN] /\ reported' \in [Consumers -> Nat]
<1>1. reported[c] + 1 \in Nat
  BY DEF TypeOK
<1>2. (IF reason /\ ~dead[c] THEN reported[c] + 1 ELSE reported[c]) \in Nat
  BY <1>1 DEF TypeOK
<1>3. reported' \in [Consumers -> Nat]
  BY <1>2 DEF Stop, TypeOK
<1> QED BY <1>3 DEF Stop, TypeOK

Places == {"idle", "taken", "writing", "failedQuiet", "failedLoud", "gone"}

LEMMA GoType ==
  ASSUME TypeOK, NEW c \in Consumers, NEW place \in Places, Go(c, place)
  PROVE  courier' \in [Consumers -> Places]
<1>1. courier \in [Consumers -> Places]
  BY DEF TypeOK, Places
<1> QED BY <1>1 DEF Go

(* The variables hold values of their kinds and no queue is overfull, for  *)
(* any constants.                                                          *)
THEOREM DeliveryTyping == Spec => []TypeOK
<1>1. Init => TypeOK
  <2> SUFFICES ASSUME Init PROVE TypeOK
    OBVIOUS
  <2>1. /\ NoFrame \in Frame /\ Len(Order) \in Nat
        /\ <<>> \in Seq(Frame) /\ Len(<<>>) = 0
        /\ 0 \in 0 .. PipeCap /\ 0 <= QueueCap /\ 0 \in 0 .. Len(Order)
    BY DeliveryAssumption DEF NoFrame, Frame, Contents
  <2>2. /\ queue \in [Consumers -> Seq(Frame)]
        /\ accepted \in [Consumers -> Seq(Frame)]
        /\ written \in [Consumers -> Seq(Frame)]
        /\ carried \in [Consumers -> Frame]
        /\ \A c \in Consumers : Len(queue[c]) <= QueueCap
    BY <2>1 DEF Init
  <2>3. /\ position \in [Events -> 0 .. Len(Order)]
        /\ unread \in [Consumers -> 0 .. PipeCap]
        /\ fault \subseteq Events \X Consumers
        /\ reported \in [Consumers -> Nat]
        /\ ctxDone \in BOOLEAN
        /\ dead \in [Consumers -> BOOLEAN]
    BY <2>1 DEF Init
  <2>4. /\ stdinClosed \in [Consumers -> BOOLEAN]
        /\ broken \in [Consumers -> BOOLEAN]
    BY <2>3 DEF Init
  <2>5. /\ courier \in [Consumers -> {"idle", "taken", "writing", "failedQuiet",
                                     "failedLoud", "gone"}]
        /\ waiter \in [Consumers -> {"waiting", "exitedQuiet", "exitedLoud",
                                    "gone"}]
        /\ child \in [Consumers -> {"running", "deaf", "exited"}]
    BY DEF Init
  <2> QED BY <2>2, <2>3, <2>4, <2>5 DEF TypeOK
<1>2. TypeOK /\ [Next]_vars => TypeOK'
  <2> SUFFICES ASSUME TypeOK, [Next]_vars PROVE TypeOK'
    OBVIOUS
  <2> USE DEF offerVars, endVars, childVars
  <2>1. ASSUME NEW e \in Events, Offer(e) PROVE TypeOK'
    <3> DEFINE c == Order[position[e] + 1]
               frame == [event |-> e,
                         content |-> Projected(ContentOf[e], ModeOf[c])]
    <3>1. c \in Consumers /\ position[e] + 1 \in 0 .. Len(Order) /\ frame \in Frame
      BY <2>1, OfferFacts, FrameType DEF Offer
    <3> HIDE DEF frame, c
    <3>2. \/ UNCHANGED <<queue, accepted, fault>>
          \/ /\ Room(c)
             /\ queue' = [queue EXCEPT ![c] = Append(@, frame)]
             /\ accepted' = [accepted EXCEPT ![c] = Append(@, frame)]
             /\ UNCHANGED fault
          \/ fault' = fault \cup {<<e, c>>} /\ UNCHANGED <<queue, accepted>>
      BY <2>1 DEF Offer, Diagnose, frame, c
    <3>3. /\ position' = [position EXCEPT ![e] = @ + 1]
          /\ UNCHANGED <<endVars, courier, carried, waiter, childVars,
                         stdinClosed, ctxDone, written>>
      BY <2>1 DEF Offer
    <3>4. position' \in [Events -> 0 .. Len(Order)]
      BY <3>1, <3>3 DEF TypeOK
    <3>5. fault' \subseteq Events \X Consumers
      BY <3>1, <3>2 DEF TypeOK
    <3>a. /\ queue \in [Consumers -> Seq(Frame)]
          /\ accepted \in [Consumers -> Seq(Frame)]
      BY DEF TypeOK
    <3>b. /\ queue[c] \in Seq(Frame) /\ accepted[c] \in Seq(Frame)
      BY <3>1, <3>a
    <3>d. /\ Append(queue[c], frame) \in Seq(Frame)
          /\ Append(accepted[c], frame) \in Seq(Frame)
      BY <3>1, <3>b
    <3>6. /\ queue' \in [Consumers -> Seq(Frame)]
          /\ accepted' \in [Consumers -> Seq(Frame)]
      BY <3>1, <3>2, <3>a, <3>d
    <3>7. ASSUME NEW d \in Consumers PROVE Len(queue'[d]) <= QueueCap
      <4>1. CASE queue' = queue
        BY <4>1 DEF TypeOK
      <4>2. CASE Room(c) /\ queue' = [queue EXCEPT ![c] = Append(@, frame)]
        <5>1. queue[c] \in Seq(Frame) /\ Len(queue[c]) < QueueCap
          BY <3>1, <4>2 DEF Room, TypeOK
        <5>2. Len(Append(queue[c], frame)) <= QueueCap
          BY <3>1, <5>1, DeliveryAssumption
        <5> QED BY <4>2, <5>2 DEF TypeOK
      <4> QED BY <3>2, <4>1, <4>2
    <3> QED BY <3>3, <3>4, <3>5, <3>6, <3>7 DEF TypeOK
  <2>2. ASSUME NEW c \in Consumers, Leave(c) PROVE TypeOK'
    <3>1. dead' \in [Consumers -> BOOLEAN] /\ reported' \in [Consumers -> Nat]
      <4>1. CASE Stop(c, FALSE)
        BY <4>1, StopType
      <4>2. CASE UNCHANGED endVars
        BY <4>2 DEF TypeOK
      <4> QED BY <2>2, <4>1, <4>2 DEF Leave
    <3>2. courier' \in [Consumers -> Places]
      BY <2>2, GoType DEF Leave, Places
    <3> QED BY <2>2, <3>1, <3>2 DEF Leave, TypeOK, Places
  <2>3. ASSUME NEW c \in Consumers, Take(c) PROVE TypeOK'
    <3>1. queue[c] \in Seq(Frame) /\ queue[c] # <<>>
      BY <2>3 DEF Take, TypeOK
    <3>2. /\ Head(queue[c]) \in Frame /\ Tail(queue[c]) \in Seq(Frame)
          /\ Len(Tail(queue[c])) <= Len(queue[c])
      BY <3>1, HeadTailProperties, LenProperties
    <3>3. Len(Tail(queue[c])) <= QueueCap
      BY <3>1, <3>2, DeliveryAssumption, LenProperties DEF TypeOK
    <3>4. queue' \in [Consumers -> Seq(Frame)]
      BY <2>3, <3>2 DEF Take, TypeOK
    <3>5. \A d \in Consumers : Len(queue'[d]) <= QueueCap
      BY <2>3, <3>3 DEF Take, TypeOK
    <3>6. /\ carried' \in [Consumers -> Frame]
          /\ courier' \in [Consumers -> {"idle", "taken", "writing", "failedQuiet",
                                         "failedLoud", "gone"}]
      BY <2>3, <3>2 DEF Take, Go, TypeOK
    <3> QED BY <2>3, <3>4, <3>5, <3>6 DEF Take, TypeOK
  <2>4. ASSUME NEW c \in Consumers, CheckTaken(c) PROVE TypeOK'
    <3>1. dead' \in [Consumers -> BOOLEAN] /\ reported' \in [Consumers -> Nat]
      BY <2>4, StopType DEF CheckTaken, TypeOK
    <3>2. courier' \in [Consumers -> Places]
      BY <2>4, GoType DEF CheckTaken, Places
    <3> QED BY <2>4, <3>1, <3>2 DEF CheckTaken, TypeOK, Places
  <2>5. ASSUME NEW c \in Consumers, Write(c) PROVE TypeOK'
    <3>1. unread[c] + 1 \in 0 .. PipeCap
      BY <2>5, DeliveryAssumption DEF Write, TypeOK
    <3>2. Append(written[c], carried[c]) \in Seq(Frame)
      BY DEF TypeOK
    <3> QED BY <2>5, <3>1, <3>2 DEF Write, Go, TypeOK
  <2>6. ASSUME NEW c \in Consumers, WriteFails(c) PROVE TypeOK'
    <3>1. courier' \in [Consumers -> {"idle", "taken", "writing", "failedQuiet",
                                      "failedLoud", "gone"}]
      BY <2>6 DEF WriteFails, Go, TypeOK
    <3> QED BY <2>6, <3>1 DEF WriteFails, TypeOK
  <2>7. ASSUME NEW c \in Consumers, StopAfterWrite(c) PROVE TypeOK'
    BY <2>7, StopType DEF StopAfterWrite, Go, TypeOK
  <2>8. ASSUME NEW c \in Consumers, WaitReturns(c) PROVE TypeOK'
    BY <2>8 DEF WaitReturns, Waits, TypeOK
  <2>9. ASSUME NEW c \in Consumers, StopAfterWait(c) PROVE TypeOK'
    BY <2>9, StopType DEF StopAfterWait, TypeOK
  <2>10. ASSUME NEW c \in Consumers, Close(c) PROVE TypeOK'
    BY <2>10 DEF Close, Stop, TypeOK
  <2>11. ASSUME NEW c \in Consumers, ChildReads(c) PROVE TypeOK'
    <3>1. unread[c] - 1 \in 0 .. PipeCap
      BY <2>11, DeliveryAssumption DEF ChildReads, TypeOK
    <3> QED BY <2>11, <3>1 DEF ChildReads, TypeOK
  <2>12. ASSUME NEW c \in Consumers, NEW how \in {"deaf", "exited"},
                ChildEnds(c, how)
         PROVE  TypeOK'
    BY <2>12 DEF ChildEnds, TypeOK
  <2>13. CASE Shutdown
    BY <2>13 DEF Shutdown, TypeOK
  <2>14. CASE UNCHANGED vars
    BY <2>14 DEF vars, TypeOK
  <2>15. CASE Quiescent
    BY <2>14, <2>15 DEF Quiescent
  <2> QED BY <2>1, <2>2, <2>3, <2>4, <2>5, <2>6, <2>7, <2>8, <2>9, <2>10,
             <2>11, <2>12, <2>13, <2>14, <2>15 DEF Next, Runtime
<1> QED BY <1>1, <1>2, PTL DEF Spec

-----------------------------------------------------------------------------
(* Order of delivery                                                       *)

(* A step that leaves the sequences of a consumer alone and moves its      *)
(* courier, if at all, on from a frame or out of the loop.                 *)
LEMMA OrderKept ==
  ASSUME NEW c, InOrder(c),
         accepted'[c] = accepted[c], written'[c] = written[c],
         queue'[c] = queue[c], carried'[c] = carried[c],
         \/ courier'[c] = courier[c]
         \/ courier'[c] \notin {"idle", "taken", "writing"}
         \/ courier[c] = "taken" /\ courier'[c] = "writing"
  PROVE  InOrder(c)'
BY DEF InOrder, Leads, Behind

LEMMA OrderOffer ==
  ASSUME TypeOK, OrderInv, NEW e \in Events, Offer(e)
  PROVE  OrderInv'
<1> DEFINE c == Order[position[e] + 1]
           frame == [event |-> e, content |-> Projected(ContentOf[e], ModeOf[c])]
<1>1. c \in Consumers /\ frame \in Frame
  BY OfferFacts, FrameType DEF Offer
<1> HIDE DEF frame, c
<1>2. \/ UNCHANGED <<queue, accepted>>
      \/ /\ queue' = [queue EXCEPT ![c] = Append(@, frame)]
         /\ accepted' = [accepted EXCEPT ![c] = Append(@, frame)]
  BY DEF Offer, frame, c
<1>3. UNCHANGED <<courier, carried, written>>
  BY DEF Offer
<1>4. ASSUME NEW d \in Consumers PROVE InOrder(d)'
  <2>1. InOrder(d)
    BY DEF OrderInv
  <2>2. CASE accepted'[d] = accepted[d] /\ queue'[d] = queue[d]
    BY <1>3, <2>1, <2>2, OrderKept
  <2>3. CASE ~(accepted'[d] = accepted[d] /\ queue'[d] = queue[d])
    <3>1. /\ queue'[d] = Append(queue[d], frame)
          /\ accepted'[d] = Append(accepted[d], frame)
      <4>1. DOMAIN queue = Consumers /\ DOMAIN accepted = Consumers
        BY DEF TypeOK
      <4>2. queue' # queue \/ accepted' # accepted
        BY <2>3
      <4>3. /\ queue' = [queue EXCEPT ![c] = Append(@, frame)]
            /\ accepted' = [accepted EXCEPT ![c] = Append(@, frame)]
        BY <1>2, <4>2
      <4>4. d = c
        BY <2>3, <4>1, <4>3
      <4> QED BY <4>1, <4>3, <4>4
    <3>2. /\ queue[d] \in Seq(Frame) /\ accepted[d] \in Seq(Frame)
          /\ written[d] \in Seq(Frame) /\ Len(written[d]) \in Nat
          /\ Len(written[d]) + 1 \in Nat
      BY DEF TypeOK
    <3>3. Leads(written[d], accepted'[d])
      BY <1>1, <2>1, <3>1, <3>2, GrowLeads DEF InOrder
    <3>4. ASSUME courier[d] = "idle"
          PROVE  Behind(accepted'[d], Len(written[d]), queue'[d])
      BY <1>1, <2>1, <3>1, <3>2, <3>4, AppendBehind DEF InOrder
    <3>5. ASSUME courier[d] \in {"taken", "writing"}
          PROVE  /\ Behind(accepted'[d], Len(written[d]) + 1, queue'[d])
                 /\ carried[d] = accepted'[d][Len(written[d]) + 1]
      <4>1. /\ Behind(accepted[d], Len(written[d]) + 1, queue[d])
            /\ carried[d] = accepted[d][Len(written[d]) + 1]
        BY <2>1, <3>5 DEF InOrder
      <4>2. Behind(accepted'[d], Len(written[d]) + 1, queue'[d])
        BY <1>1, <3>1, <3>2, <4>1, AppendBehind
      <4>3. Len(written[d]) + 1 \in 1 .. Len(accepted[d])
        <5>1. /\ Len(accepted[d]) = (Len(written[d]) + 1) + Len(queue[d])
              /\ Len(queue[d]) \in Nat
          BY <3>2, <4>1, LenProperties DEF Behind
        <5>2. PICK n \in Nat : n = Len(written[d])
          BY <3>2
        <5>3. PICK m \in Nat : m = Len(queue[d])
          BY <5>1
        <5>4. n + 1 \in 1 .. (n + 1) + m
          OBVIOUS
        <5> QED BY <5>1, <5>2, <5>3, <5>4, Zenon
      <4>4. accepted'[d][Len(written[d]) + 1] = accepted[d][Len(written[d]) + 1]
        BY <1>1, <3>1, <3>2, <4>3
      <4> QED BY <4>1, <4>2, <4>4
    <3> QED BY <1>3, <3>3, <3>4, <3>5 DEF InOrder
  <2> QED BY <2>2, <2>3
<1> QED BY <1>4 DEF OrderInv

LEMMA OrderTake ==
  ASSUME TypeOK, OrderInv, NEW c \in Consumers, Take(c)
  PROVE  OrderInv'
<1>1. ASSUME NEW d \in Consumers, d # c PROVE InOrder(d)'
  BY <1>1, OrderKept DEF OrderInv, Take, Go, TypeOK
<1>2. /\ queue[c] \in Seq(Frame) /\ accepted[c] \in Seq(Frame)
      /\ Len(written[c]) \in Nat /\ queue[c] # <<>>
      /\ Leads(written[c], accepted[c])
      /\ Behind(accepted[c], Len(written[c]), queue[c])
  BY DEF OrderInv, InOrder, Take, TypeOK
<1>3. /\ Behind(accepted[c], Len(written[c]) + 1, Tail(queue[c]))
      /\ Head(queue[c]) = accepted[c][Len(written[c]) + 1]
  BY <1>2, TakeBehind
<1>4. /\ queue'[c] = Tail(queue[c]) /\ carried'[c] = Head(queue[c])
      /\ courier'[c] = "taken" /\ accepted' = accepted /\ written' = written
  BY DEF Take, Go, TypeOK
<1>5. InOrder(c)'
  BY <1>2, <1>3, <1>4 DEF InOrder
<1> QED BY <1>1, <1>5 DEF OrderInv

LEMMA OrderWrite ==
  ASSUME TypeOK, OrderInv, NEW c \in Consumers, Write(c)
  PROVE  OrderInv'
<1>1. ASSUME NEW d \in Consumers, d # c PROVE InOrder(d)'
  BY <1>1, OrderKept DEF OrderInv, Write, Go, TypeOK
<1>2. /\ queue[c] \in Seq(Frame) /\ accepted[c] \in Seq(Frame)
      /\ written[c] \in Seq(Frame) /\ carried[c] \in Frame
      /\ Leads(written[c], accepted[c])
      /\ Behind(accepted[c], Len(written[c]) + 1, queue[c])
      /\ carried[c] = accepted[c][Len(written[c]) + 1]
  BY DEF OrderInv, InOrder, Write, TypeOK
<1>3. /\ Leads(Append(written[c], carried[c]), accepted[c])
      /\ Behind(accepted[c], Len(Append(written[c], carried[c])), queue[c])
  BY <1>2, WriteLeads
<1>4. /\ written'[c] = Append(written[c], carried[c]) /\ courier'[c] = "idle"
      /\ accepted' = accepted /\ queue' = queue
  BY DEF Write, Go, TypeOK
<1>5. InOrder(c)'
  BY <1>3, <1>4 DEF InOrder
<1> QED BY <1>1, <1>5 DEF OrderInv

LEMMA OrderStep == TypeOK /\ OrderInv /\ [Next]_vars => OrderInv'
<1> SUFFICES ASSUME TypeOK, OrderInv, [Next]_vars PROVE OrderInv'
  OBVIOUS
<1> USE DEF offerVars, endVars, childVars
<1>1. ASSUME UNCHANGED <<accepted, written, queue, carried, courier>>
      PROVE  OrderInv'
  BY <1>1, OrderKept DEF OrderInv
<1>2. ASSUME NEW c \in Consumers, UNCHANGED <<accepted, written, queue, carried>>,
             NEW place, Go(c, place),
             \/ place \notin {"idle", "taken", "writing"}
             \/ courier[c] = "taken" /\ place = "writing"
      PROVE  OrderInv'
  <2> SUFFICES ASSUME NEW d \in Consumers PROVE InOrder(d)'
    BY DEF OrderInv
  <2>1. courier'[d] = IF d = c THEN place ELSE courier[d]
    BY <1>2 DEF Go, TypeOK
  <2>2. InOrder(d)
    BY DEF OrderInv
  <2> QED BY <1>2, <2>1, <2>2, OrderKept
<1>3. ASSUME NEW e \in Events, Offer(e) PROVE OrderInv'
  BY <1>3, OrderOffer
<1>4. ASSUME NEW c \in Consumers, Runtime(c) PROVE OrderInv'
  <2>1. CASE Leave(c)
    BY <1>2, <2>1 DEF Leave
  <2>2. CASE Take(c)
    BY <2>2, OrderTake
  <2>3. CASE CheckTaken(c)
    BY <1>2, <2>3 DEF CheckTaken
  <2>4. CASE Write(c)
    BY <2>4, OrderWrite
  <2>5. CASE WriteFails(c)
    BY <1>2, <2>5 DEF WriteFails
  <2>6. CASE StopAfterWrite(c)
    BY <1>2, <2>6 DEF StopAfterWrite
  <2>7. CASE WaitReturns(c)
    BY <1>1, <2>7 DEF WaitReturns
  <2>8. CASE StopAfterWait(c)
    BY <1>1, <2>8 DEF StopAfterWait
  <2> QED BY <1>4, <2>1, <2>2, <2>3, <2>4, <2>5, <2>6, <2>7, <2>8 DEF Runtime
<1>5. ASSUME NEW c \in Consumers, Close(c) \/ ChildReads(c) PROVE OrderInv'
  BY <1>1, <1>5 DEF Close, ChildReads
<1>6. ASSUME NEW c \in Consumers, NEW how \in {"deaf", "exited"}, ChildEnds(c, how)
      PROVE  OrderInv'
  BY <1>1, <1>6 DEF ChildEnds
<1>7. CASE Shutdown \/ Quiescent \/ UNCHANGED vars
  BY <1>1, <1>7 DEF Shutdown, Quiescent, vars
<1> QED BY <1>3, <1>4, <1>5, <1>6, <1>7 DEF Next

(* A consumer's pipe carries what its queue accepted, in that order, with  *)
(* nothing skipped or repeated (enqueue, deliver).                         *)
THEOREM DeliveryKeepsOrder == Spec => []DeliveredInOrder
<1>1. Init => OrderInv
  <2> SUFFICES ASSUME Init, NEW c \in Consumers PROVE InOrder(c)
    BY DEF OrderInv
  <2>1. accepted[c] = <<>> /\ written[c] = <<>> /\ queue[c] = <<>>
    BY DEF Init
  <2>2. courier[c] \in {"idle", "gone"}
    BY DEF Init
  <2>3. Leads(<<>>, <<>>) /\ Behind(<<>>, Len(<<>>), <<>>)
    BY DEF Leads, Behind
  <2> QED BY <2>1, <2>2, <2>3 DEF InOrder
<1>2. TypeOK /\ OrderInv => DeliveredInOrder
  <2> SUFFICES ASSUME TypeOK, OrderInv, NEW c \in Consumers
               PROVE  IsPrefix(written[c], accepted[c])
    BY DEF DeliveredInOrder
  <2>1. /\ written[c] \in Seq(Frame) /\ accepted[c] \in Seq(Frame)
        /\ Leads(written[c], accepted[c])
    BY DEF TypeOK, OrderInv, InOrder
  <2> QED BY <2>1, LeadsIsPrefix
<1> QED BY <1>1, <1>2, DeliveryTyping, OrderStep, PTL DEF Spec

-----------------------------------------------------------------------------
(* What is offered                                                         *)

LEMMA OnlyOffers ==
  ASSUME [Next]_vars
  PROVE  (\E e \in Events : Offer(e)) \/ UNCHANGED <<position, fault, accepted>>
BY DEF Next, Runtime, Leave, Take, CheckTaken, Write, WriteFails, StopAfterWrite,
       WaitReturns, StopAfterWait, Close, ChildReads, ChildEnds, Shutdown,
       Quiescent, vars, offerVars

(* An offer makes its frame the last of one queue, or leaves all alone.    *)
LEMMA OfferAccepts ==
  ASSUME TypeOK, NEW e \in Events, Offer(e),
         NEW c, c = Order[position[e] + 1],
         NEW frame, frame = [event |-> e,
                             content |-> Projected(ContentOf[e], ModeOf[c])],
         NEW d \in Consumers
  PROVE  \/ accepted'[d] = accepted[d]
         \/ /\ d = c /\ Projects(ContentOf[e], ModeOf[c])
            /\ Len(accepted[d]) \in Nat
            /\ Len(accepted'[d]) = Len(accepted[d]) + 1
            /\ accepted'[d][Len(accepted[d]) + 1] = frame
            /\ \A k \in 1 .. Len(accepted[d]) : accepted'[d][k] = accepted[d][k]
<1>1. c \in Consumers /\ frame \in Frame
  BY OfferFacts, FrameType DEF Offer
<1>2. \/ accepted' = accepted
      \/ /\ Projects(ContentOf[e], ModeOf[c])
         /\ accepted' = [accepted EXCEPT ![c] = Append(@, frame)]
  BY DEF Offer
<1>3. accepted \in [Consumers -> Seq(Frame)] /\ accepted[d] \in Seq(Frame)
  BY DEF TypeOK
<1>4. CASE accepted'[d] # accepted[d]
  <2>1. /\ d = c /\ accepted'[d] = Append(accepted[d], frame)
        /\ Projects(ContentOf[e], ModeOf[c])
    BY <1>1, <1>2, <1>3, <1>4
  <2>2. PICK n \in Nat : n = Len(accepted[d])
    BY <1>3
  <2>3. /\ Len(Append(accepted[d], frame)) = n + 1
        /\ Append(accepted[d], frame)[n + 1] = frame
        /\ \A k \in 1 .. n : Append(accepted[d], frame)[k] = accepted[d][k]
    BY <1>1, <1>3, <2>2
  <2> QED BY <2>1, <2>2, <2>3
<1> QED BY <1>4

(* No queue ever holds content in another mode than its consumer declared, *)
(* and full or hashed content is never made up (projectEvent).             *)
THEOREM ProjectionKept == Spec => []ProjectionRespected
<1>1. Init => ProjectionRespected
  BY DEF Init, ProjectionRespected
<1>2. TypeOK /\ ProjectionRespected /\ [Next]_vars => ProjectionRespected'
  <2> SUFFICES ASSUME TypeOK, ProjectionRespected, [Next]_vars
               PROVE  ProjectionRespected'
    OBVIOUS
  <2> DEFINE Right(c, frame) ==
        frame.content # "absent" =>
          /\ frame.content = ModeOf[c]
          /\ ContentOf[frame.event] \in {"full", frame.content}
               \/ frame.content = "omit"
  <2>1. \A c \in Consumers : \A i \in 1 .. Len(accepted[c]) : Right(c, accepted[c][i])
    BY DEF ProjectionRespected
  <2>2. ASSUME NEW e \in Events, Offer(e), NEW d \in Consumers,
               NEW i \in 1 .. Len(accepted'[d])
        PROVE  Right(d, accepted'[d][i])
    <3> DEFINE c == Order[position[e] + 1]
               frame == [event |-> e,
                         content |-> Projected(ContentOf[e], ModeOf[c])]
    <3>1. CASE accepted'[d] = accepted[d]
      BY <2>1, <2>2, <3>1
    <3>2. CASE accepted'[d] # accepted[d]
      <4>1. /\ d = c /\ Projects(ContentOf[e], ModeOf[c])
            /\ Len(accepted[d]) \in Nat
            /\ Len(accepted'[d]) = Len(accepted[d]) + 1
            /\ accepted'[d][Len(accepted[d]) + 1] = frame
            /\ \A k \in 1 .. Len(accepted[d]) : accepted'[d][k] = accepted[d][k]
        BY <2>2, <3>2, OfferAccepts
      <4>2. CASE i = Len(accepted[d]) + 1
        <5>1. Right(c, frame)
          BY <4>1 DEF Projects, Projected
        <5> QED BY <4>1, <4>2, <5>1
      <4>3. CASE i # Len(accepted[d]) + 1
        <5>1. i \in 1 .. Len(accepted[d])
          BY <4>1, <4>3
        <5> QED BY <2>1, <4>1, <5>1
      <4> QED BY <4>2, <4>3
    <3> QED BY <3>1, <3>2
  <2>3. CASE \E e \in Events : Offer(e)
    <3>1. PICK e \in Events : Offer(e)
      BY <2>3
    <3>2. \A d \in Consumers : \A i \in 1 .. Len(accepted'[d]) :
            Right(d, accepted'[d][i])
      BY <2>2, <3>1
    <3> QED BY <3>2 DEF ProjectionRespected
  <2>4. CASE UNCHANGED <<position, fault, accepted>>
    BY <2>4 DEF ProjectionRespected
  <2> QED BY <2>3, <2>4, OnlyOffers
<1> QED BY <1>1, <1>2, DeliveryTyping, PTL DEF Spec

LEMMA OffersStep == TypeOK /\ OffersInv /\ [Next]_vars => OffersInv'
<1> SUFFICES ASSUME TypeOK, OffersInv, [Next]_vars PROVE OffersInv'
  OBVIOUS
<1>1. ASSUME NEW e \in Events, Offer(e) PROVE OffersInv'
  <2> DEFINE c == Order[position[e] + 1]
             frame == [event |-> e,
                       content |-> Projected(ContentOf[e], ModeOf[c])]
             fresh == accepted'[c] # accepted[c]
  <2>1. /\ c \in Consumers /\ position[e] \in Nat
        /\ position[e] + 1 \in 1 .. Len(Order)
    BY <1>1, OfferFacts DEF Offer
  <2>2. /\ position' = [position EXCEPT ![e] = @ + 1]
        /\ position \in [Events -> 0 .. Len(Order)]
    BY <1>1 DEF Offer, TypeOK
  (* What the offer adds to the queues.                                    *)
  <2>3. ASSUME NEW f \in Events, NEW d \in Consumers
        PROVE  Taken(f, d)' <=> Taken(f, d) \/ (f = e /\ d = c /\ fresh)
    <3>1. CASE accepted'[d] = accepted[d]
      BY <3>1 DEF Taken
    <3>2. CASE accepted'[d] # accepted[d]
      <4>1. PICK n \in Nat : n = Len(accepted[d])
        BY DEF TypeOK
      <4>2. /\ d = c /\ Len(accepted'[d]) = n + 1
            /\ accepted'[d][n + 1] = frame
            /\ \A k \in 1 .. n : accepted'[d][k] = accepted[d][k]
        BY <1>1, <3>2, <4>1, OfferAccepts
      <4>3. Taken(f, d)' <=> \E k \in 1 .. n + 1 : accepted'[d][k].event = f
        BY <4>2 DEF Taken
      <4>4. Taken(f, d) <=> \E k \in 1 .. n : accepted[d][k].event = f
        BY <4>1 DEF Taken
      <4>5. 1 .. n + 1 = (1 .. n) \cup {n + 1}
        OBVIOUS
      <4> HIDE DEF c
      <4>6. Taken(f, d)' <=> Taken(f, d) \/ f = e
        BY <4>2, <4>3, <4>4, <4>5
      <4> QED BY <3>2, <4>2, <4>6
    <3> QED BY <3>1, <3>2
  (* What it adds to the faults.                                           *)
  <2>4. /\ <<e, c>> \notin Subscribed => ~fresh /\ fault' = fault
        /\ <<e, c>> \in Subscribed => \/ fresh /\ fault' = fault
                                      \/ ~fresh /\ fault' = fault \cup {<<e, c>>}
    <3>1. accepted[c] \in Seq(Frame) /\ DOMAIN accepted = Consumers
      BY <2>1 DEF TypeOK
    <3>2. Append(accepted[c], frame) # accepted[c]
      <4>1. frame \in Frame
        BY <2>1, FrameType
      <4>2. PICK n \in Nat : n = Len(accepted[c])
        BY <3>1
      <4>3. Len(Append(accepted[c], frame)) = n + 1
        BY <3>1, <4>1, <4>2
      <4> QED BY <4>2, <4>3
    <3>3. ASSUME accepted' = [accepted EXCEPT ![c] = Append(@, frame)] PROVE fresh
      BY <2>1, <3>1, <3>2, <3>3
    <3> HIDE DEF frame
    <3> QED BY <1>1, <3>3 DEF Offer, Diagnose, frame
  (* The consumer was not offered this event before.                       *)
  <2>5. ~OfferedTo(e, c)
    <3> SUFFICES ASSUME NEW i \in 1 .. position[e], Order[i] = c PROVE FALSE
      BY DEF OfferedTo
    <3>1. i \in DOMAIN Order /\ position[e] + 1 \in DOMAIN Order
      BY <2>1, DeliveryAssumption, LenProperties
    <3>2. i = position[e] + 1
      BY <3>1, DeliveryAssumption
    <3> QED BY <2>1, <3>2
  <2>6. ~Taken(e, c) /\ <<e, c>> \notin fault
    BY <2>1, <2>5 DEF OffersInv
  <2>7. ASSUME NEW f \in Events, NEW d \in Consumers
        PROVE  OfferedTo(f, d)' <=> OfferedTo(f, d) \/ (f = e /\ d = c)
    <3>1. CASE f # e
      BY <2>2, <3>1 DEF OfferedTo
    <3>2. CASE f = e
      <4>1. position'[f] = position[e] + 1
        BY <2>2, <3>2
      <4>2. 1 .. position[e] + 1 = (1 .. position[e]) \cup {position[e] + 1}
        BY <2>1
      <4> QED BY <3>2, <4>1, <4>2 DEF OfferedTo
    <3> QED BY <3>1, <3>2
  <2> HIDE DEF c, frame, fresh
  <2>8. ASSUME NEW f \in Events, NEW d \in Consumers,
               Taken(f, d)' \/ <<f, d>> \in fault'
        PROVE  OfferedTo(f, d)'
    <3>1. Taken(f, d) \/ <<f, d>> \in fault \/ (f = e /\ d = c)
      BY <2>3, <2>4, <2>8
    <3>2. OfferedTo(f, d) \/ (f = e /\ d = c)
      BY <3>1 DEF OffersInv
    <3> QED BY <2>7, <3>2
  <2>9. ASSUME NEW f \in Events, NEW i \in 1 .. position'[f]
        PROVE  IF <<f, Order[i]>> \in Subscribed
                 THEN Taken(f, Order[i])' <=> <<f, Order[i]>> \notin fault'
                 ELSE ~Taken(f, Order[i])' /\ <<f, Order[i]>> \notin fault'
    <3> DEFINE d == Order[i]
    <3>1. position'[f] \in 0 .. Len(Order) /\ Len(Order) \in Nat
      BY <2>1, <2>2, DeliveryAssumption, LenProperties
    <3>2. d \in Consumers
      BY <3>1, DeliveryAssumption, ElementOfSeq
    <3>3. CASE f = e /\ d = c
      BY <2>3, <2>4, <2>6, <3>2, <3>3
    <3>4. CASE ~(f = e /\ d = c)
      <4>1. i \in 1 .. position[f]
        <5>1. CASE f # e
          BY <2>2, <5>1
        <5>2. CASE f = e
          <6>1. position'[f] = position[e] + 1
            BY <2>2, <5>2
          <6>2. i # position[e] + 1
            BY <3>4, <5>2 DEF c
          <6> QED BY <2>1, <5>2, <6>1, <6>2
        <5> QED BY <5>1, <5>2
      <4>2. IF <<f, d>> \in Subscribed
              THEN Taken(f, d) <=> <<f, d>> \notin fault
              ELSE ~Taken(f, d) /\ <<f, d>> \notin fault
        BY <4>1 DEF OffersInv, OfferedOrDiagnosed, Taken
      <4>3. Taken(f, d)' <=> Taken(f, d)
        BY <2>3, <3>2, <3>4
      <4>4. <<f, d>> \in fault' <=> <<f, d>> \in fault
        BY <2>4, <3>4
      <4> QED BY <4>2, <4>3, <4>4
    <3> QED BY <3>3, <3>4
  <2>10. OfferedOrDiagnosed'
    BY <2>9, Zenon DEF OfferedOrDiagnosed, Taken
  <2> QED BY <2>8, <2>10 DEF OffersInv
<1>2. CASE UNCHANGED <<position, fault, accepted>>
  <2>1. OfferedOrDiagnosed /\ UNCHANGED <<position, fault, accepted>>
    BY <1>2 DEF OffersInv
  <2>2. OfferedOrDiagnosed'
    BY <2>1 DEF OfferedOrDiagnosed
  <2>3. \A f \in Events, d \in Consumers :
          (Taken(f, d) \/ <<f, d>> \in fault => OfferedTo(f, d))'
    BY <2>1 DEF OffersInv, Taken, OfferedTo
  <2> QED BY <2>2, <2>3 DEF OffersInv
<1> QED BY <1>1, <1>2, OnlyOffers

(* An offer to a subscriber left a frame in its queue or a diagnosis,      *)
(* never both and never neither (offerConsumers, reportConsumerOffer).     *)
THEOREM OffersAccounted == Spec => []OfferedOrDiagnosed
<1>1. Init => OffersInv
  BY DEF Init, OffersInv, OfferedOrDiagnosed, Taken, OfferedTo
<1>2. OffersInv => OfferedOrDiagnosed
  BY DEF OffersInv
<1> QED BY <1>1, <1>2, DeliveryTyping, OffersStep, PTL DEF Spec

-----------------------------------------------------------------------------
(* Ends                                                                    *)

(* A step that only publishes ends it has seen: a reason comes from a      *)
(* consumer that broke.                                                    *)
LEMMA QuietStop ==
  ASSUME TypeOK, NEW c \in Consumers, NEW d \in Consumers, Quiet(d),
         NEW reason \in BOOLEAN, Stop(c, reason), reason => broken[c],
         UNCHANGED <<child, broken, ctxDone>>,
         courier'[d] # "failedLoud" \/ courier'[d] = courier[d],
         waiter'[d] # "exitedLoud" \/ waiter'[d] = waiter[d],
         stdinClosed'[d] = stdinClosed[d] \/ ctxDone
  PROVE  Quiet(d)'
<1>1. reported[d] \in Nat
  BY DEF TypeOK
<1>2. CASE d # c
  <2>1. reported'[d] = reported[d] /\ dead'[d] = dead[d]
    BY <1>2 DEF Stop, TypeOK
  <2> QED BY <2>1 DEF Quiet
<1>3. CASE d = c
  <2>1. dead'[d] /\ reported'[d] = IF reason /\ ~dead[d] THEN reported[d] + 1
                                                        ELSE reported[d]
    BY <1>3 DEF Stop, TypeOK
  <2>2. ~dead[d] => reported[d] = 0
    BY <1>1 DEF Quiet
  <2> QED BY <1>1, <1>3, <2>1, <2>2 DEF Quiet
<1> QED BY <1>2, <1>3

(* A step that leaves the ends alone.                                      *)
LEMMA QuietKept ==
  ASSUME NEW d \in Consumers, Quiet(d), UNCHANGED <<dead, reported>>,
         broken[d] => broken'[d], ctxDone => ctxDone',
         courier'[d] = "failedLoud" => courier[d] = "failedLoud" \/ broken'[d],
         waiter'[d] = "exitedLoud" => waiter[d] = "exitedLoud" \/ broken'[d],
         child'[d] # "running" => child[d] # "running" \/ broken'[d] \/ ctxDone',
         stdinClosed' = stdinClosed
  PROVE  Quiet(d)'
BY DEF Quiet

LEMMA QuietStep == TypeOK /\ QuietInv /\ [Next]_vars => QuietInv'
<1> SUFFICES ASSUME TypeOK, QuietInv, [Next]_vars, NEW d \in Consumers
             PROVE  Quiet(d)'
  BY DEF QuietInv
<1> USE DEF offerVars, endVars, childVars
<1>0. Quiet(d)
  BY DEF QuietInv
<1>1. ASSUME NEW e \in Events, Offer(e) PROVE Quiet(d)'
  BY <1>0, <1>1, QuietKept DEF Offer
<1>2. ASSUME NEW c \in Consumers, Runtime(c) PROVE Quiet(d)'
  <2>1. CASE Leave(c)
    <3>1. courier'[d] # "failedLoud" \/ courier'[d] = courier[d]
      BY <2>1 DEF Leave, Go, TypeOK
    <3> QED BY <1>0, <2>1, <3>1, QuietKept, QuietStop DEF Leave
  <2>2. CASE Take(c)
    <3>1. courier'[d] # "failedLoud" \/ courier'[d] = courier[d]
      BY <2>2 DEF Take, Go, TypeOK
    <3> QED BY <1>0, <2>2, <3>1, QuietKept DEF Take
  <2>3. CASE CheckTaken(c)
    <3>1. courier'[d] # "failedLoud" \/ courier'[d] = courier[d]
      BY <2>3 DEF CheckTaken, Go, TypeOK
    <3> QED BY <1>0, <2>3, <3>1, QuietKept, QuietStop DEF CheckTaken
  <2>4. CASE Write(c)
    <3>1. courier'[d] # "failedLoud" \/ courier'[d] = courier[d]
      BY <2>4 DEF Write, Go, TypeOK
    <3> QED BY <1>0, <2>4, <3>1, QuietKept DEF Write
  <2>5. CASE WriteFails(c)
    <3>1. Quiet(c)
      BY DEF QuietInv
    <3>2. courier'[d] = "failedLoud" => courier[d] = "failedLoud" \/ broken'[d]
      BY <2>5, <3>1 DEF WriteFails, Go, Quiet, TypeOK
    <3> QED BY <1>0, <2>5, <3>2, QuietKept DEF WriteFails
  <2>6. CASE StopAfterWrite(c)
    <3>1. Quiet(c)
      BY DEF QuietInv
    <3>2. courier'[d] # "failedLoud" \/ courier'[d] = courier[d]
      BY <2>6 DEF StopAfterWrite, Go, TypeOK
    <3>3. (courier[c] = "failedLoud") \in BOOLEAN
      OBVIOUS
    <3>4. courier[c] = "failedLoud" => broken[c]
      BY <3>1 DEF Quiet
    <3> QED BY <1>0, <2>6, <3>2, <3>3, <3>4, QuietStop DEF StopAfterWrite
  <2>7. CASE WaitReturns(c)
    <3>1. Quiet(c)
      BY DEF QuietInv
    <3>2. waiter'[d] = "exitedLoud" => waiter[d] = "exitedLoud" \/ broken'[d]
      BY <2>7, <3>1 DEF WaitReturns, Waits, Quiet, TypeOK
    <3> QED BY <1>0, <2>7, <3>2, QuietKept DEF WaitReturns
  <2>8. CASE StopAfterWait(c)
    <3>1. Quiet(c)
      BY DEF QuietInv
    <3>2. waiter'[d] # "exitedLoud" \/ waiter'[d] = waiter[d]
      BY <2>8 DEF StopAfterWait, TypeOK
    <3>3. (waiter[c] = "exitedLoud") \in BOOLEAN
      OBVIOUS
    <3>4. waiter[c] = "exitedLoud" => broken[c]
      BY <3>1 DEF Quiet
    <3> QED BY <1>0, <2>8, <3>2, <3>3, <3>4, QuietStop DEF StopAfterWait
  <2> QED BY <1>2, <2>1, <2>2, <2>3, <2>4, <2>5, <2>6, <2>7, <2>8 DEF Runtime
<1>3. ASSUME NEW c \in Consumers, Close(c) PROVE Quiet(d)'
  BY <1>0, <1>3, QuietStop DEF Close
<1>4. ASSUME NEW c \in Consumers, ChildReads(c) PROVE Quiet(d)'
  BY <1>0, <1>4, QuietKept DEF ChildReads
<1>5. ASSUME NEW c \in Consumers, NEW how \in {"deaf", "exited"}, ChildEnds(c, how)
      PROVE  Quiet(d)'
  <2>1. /\ broken[d] => broken'[d]
        /\ child'[d] # "running" => child[d] # "running" \/ broken'[d] \/ ctxDone
    BY <1>5 DEF ChildEnds, TypeOK
  <2> QED BY <1>0, <1>5, <2>1, QuietKept DEF ChildEnds
<1>6. CASE Shutdown
  BY <1>0, <1>6, QuietKept DEF Shutdown
<1>7. CASE UNCHANGED vars
  BY <1>0, <1>7, QuietKept DEF vars
<1>8. CASE Quiescent
  BY <1>7, <1>8 DEF Quiescent
<1> QED BY <1>1, <1>2, <1>3, <1>4, <1>5, <1>6, <1>7, <1>8 DEF Next

(* A consumer's end is reported once at most, and only when the consumer   *)
(* or its pipe failed before the shutdown began (stop, deliver).           *)
THEOREM ShutdownIsQuiet == Spec => []QuietShutdown
<1>1. Init => QuietInv
  BY DEF Init, QuietInv, Quiet
<1>2. QuietInv => QuietShutdown
  BY DEF QuietInv, Quiet, QuietShutdown
<1> QED BY <1>1, <1>2, DeliveryTyping, QuietStep, PTL DEF Spec
=============================================================================
