---------------------------- MODULE RouterProofs ----------------------------
(***************************************************************************)
(* Theorems of Router for any window length.  That the window is the tail  *)
(* of the history and that an action repeats only after a whole window     *)
(* need each other: markResolved deletes the oldest ID from the set, which *)
(* loses a recent one unless no ID is twice in the queue; and no ID is     *)
(* twice in the queue because Resolve refuses what the set remembers.      *)
(***************************************************************************)
EXTENDS Router, SequenceTheorems, TLAPS

-----------------------------------------------------------------------------
(* What Push does to a window: if the window is the tail of the history of *)
(* pushed IDs, and no ID repeats within a window's length of that history, *)
(* pushing an ID the window does not remember keeps both so.               *)

(* A queue f and a set s are the tail of the history h, at most cap long.  *)
Latest(f, s, h, cap) ==
  /\ Len(f) = IF Len(h) < cap THEN Len(h) ELSE cap
  /\ \A i \in 1 .. Len(f) : f[i] = h[Len(h) - Len(f) + i]
  /\ s = {f[i] : i \in 1 .. Len(f)}

(* Equal entries of h are more than cap apart.                             *)
Apart(h, cap) ==
  \A i, j \in 1 .. Len(h) : i < j /\ h[i] = h[j] => j - i > cap

(* markResolved and remember keep a window of IDs one.                     *)
LEMMA PushType ==
  ASSUME NEW S, NEW win \in [ids : SUBSET S, fifo : Seq(S)], NEW id \in S, NEW cap
  PROVE  Push(win, id, cap) \in [ids : SUBSET S, fifo : Seq(S)]
<1> DEFINE fifo == Append(win.fifo, id)
           ids  == win.ids \cup {id}
<1>1. fifo \in Seq(S) /\ fifo # <<>> /\ ids \in SUBSET S
  OBVIOUS
<1>2. Tail(fifo) \in Seq(S)
  BY <1>1
<1>3. CASE Len(fifo) > cap
  BY <1>1, <1>2, <1>3 DEF Push
<1>4. CASE ~(Len(fifo) > cap)
  BY <1>1, <1>4 DEF Push
<1> QED BY <1>3, <1>4

(* Append and the tail of what it gives.                                   *)
LEMMA Slide ==
  ASSUME NEW S, NEW f \in Seq(S), NEW x \in S, NEW g, g = Append(f, x),
         NEW m, m = Len(f)
  PROVE  /\ m \in Nat
         /\ g \in Seq(S) /\ Len(g) = m + 1 /\ g[m + 1] = x
         /\ \A i \in 1 .. m : g[i] = f[i]
         /\ Head(g) = g[1]
         /\ Tail(g) \in Seq(S) /\ Len(Tail(g)) = m
         /\ \A i \in 1 .. m : Tail(g)[i] = g[i + 1]
OBVIOUS

LEMMA PushApart ==
  ASSUME NEW S, NEW h \in Seq(S), NEW x \in S, NEW cap \in Nat \ {0},
         NEW f, NEW s, Latest(f, s, h, cap), Apart(h, cap), x \notin s
  PROVE  Apart(Append(h, x), cap)
<1> DEFINE m == Len(f)
           n == Len(h)
           g == Append(h, x)
<1>1. n \in Nat /\ Len(g) = n + 1 /\ g[n + 1] = x /\ \A i \in 1 .. n : g[i] = h[i]
  BY Slide
<1>2. /\ m = IF n < cap THEN n ELSE cap
      /\ \A i \in 1 .. m : f[i] = h[n - m + i]
      /\ x \notin {f[i] : i \in 1 .. m}
  BY DEF Latest
<1>3. \A i, j \in 1 .. n : i < j /\ h[i] = h[j] => j - i > cap
  BY DEF Apart
<1> HIDE DEF m, n, g
<1>4. SUFFICES ASSUME NEW i \in 1 .. n + 1, NEW j \in 1 .. n + 1,
                      i < j, g[i] = g[j]
               PROVE  j - i > cap
  BY <1>1 DEF Apart, g
<1>5. CASE j = n + 1
  <2>1. i \in 1 .. n /\ h[i] = x
    BY <1>1, <1>4, <1>5
  <2>2. ASSUME i > n - m PROVE FALSE
    <3>1. m \in Nat /\ i - (n - m) \in 1 .. m
      BY <1>1, <1>2, <2>1, <2>2
    <3>2. f[i - (n - m)] = h[n - m + (i - (n - m))]
      BY <1>2, <3>1
    <3>3. n - m + (i - (n - m)) = i
      BY <1>1, <2>1, <3>1
    <3> QED BY <1>2, <2>1, <3>1, <3>2, <3>3
  <2> QED BY <1>1, <1>2, <1>5, <2>1, <2>2
<1>6. CASE j # n + 1
  BY <1>1, <1>3, <1>4, <1>6
<1> QED BY <1>5, <1>6

LEMMA PushLatest ==
  ASSUME NEW S, NEW h \in Seq(S), NEW x \in S, NEW cap \in Nat \ {0},
         NEW f \in Seq(S), NEW s, Latest(f, s, h, cap), Apart(h, cap), x \notin s,
         NEW win, win = [ids |-> s, fifo |-> f]
  PROVE  Latest(Push(win, x, cap).fifo, Push(win, x, cap).ids, Append(h, x), cap)
<1> DEFINE m == Len(f)
           n == Len(h)
           g == Append(f, x)
           k == Append(h, x)
           t == Tail(g)
           ids == s \cup {x}
<1>1. n \in Nat /\ Len(k) = n + 1 /\ k[n + 1] = x /\ \A i \in 1 .. n : k[i] = h[i]
  BY Slide
<1>2. /\ m \in Nat /\ Len(g) = m + 1 /\ g[m + 1] = x
      /\ \A i \in 1 .. m : g[i] = f[i]
      /\ Head(g) = g[1] /\ Len(t) = m
      /\ \A i \in 1 .. m : t[i] = g[i + 1]
  BY Slide
<1>3. /\ m = IF n < cap THEN n ELSE cap
      /\ \A i \in 1 .. m : f[i] = h[n - m + i]
      /\ s = {f[i] : i \in 1 .. m}
  BY DEF Latest
<1>4. Push(win, x, cap) = IF m + 1 > cap
                            THEN [ids |-> ids \ {g[1]}, fifo |-> t]
                            ELSE [ids |-> ids, fifo |-> g]
  BY <1>2 DEF Push
<1>5. \A i, j \in 1 .. n + 1 : i < j /\ k[i] = k[j] => j - i > cap
  BY <1>1, PushApart DEF Apart
<1>6. ids = s \cup {x}
  OBVIOUS
<1> HIDE DEF m, n, g, k, t, ids
<1>m. m \in Nat /\ m <= n /\ m <= cap
  BY <1>1, <1>2, <1>3
(* g is the tail of the longer history, one entry longer than f.           *)
<1>7. \A i \in 1 .. m + 1 : g[i] = k[n - m + i]
  <2> TAKE i \in 1 .. m + 1
  <2>1. CASE i = m + 1
    BY <1>1, <1>2, <2>1
  <2>2. CASE i # m + 1
    <3>1. i \in 1 .. m /\ n - m + i \in 1 .. n
      <4>1. i \in 1 .. m
        BY <1>2, <2>2
      <4> QED BY <1>1, <1>2, <1>m, <4>1
    <3> QED BY <1>1, <1>2, <1>3, <3>1
  <2> QED BY <2>1, <2>2
<1>8. ids = {g[i] : i \in 1 .. m + 1} /\ ids = {g[1]} \cup {t[i] : i \in 1 .. m}
  <2>1. {g[i] : i \in 1 .. m + 1} = {f[i] : i \in 1 .. m} \cup {g[m + 1]}
    <3>1. 1 .. m + 1 = (1 .. m) \cup {m + 1}
      BY <1>2
    <3>2. \A y : (\E i \in 1 .. m + 1 : y = g[i])
                 <=> (\E i \in 1 .. m : y = f[i]) \/ y = g[m + 1]
      BY <1>2, <3>1, Zenon
    <3> QED BY <3>2, Zenon
  <2>2. {g[i] : i \in 1 .. m + 1} = {g[1]} \cup {t[i] : i \in 1 .. m}
    <3>1. /\ 1 \in 1 .. m + 1
          /\ \A i \in 1 .. m : i + 1 \in 1 .. m + 1
          /\ \A i \in 1 .. m + 1 : i = 1 \/ \E j \in 1 .. m : i = j + 1
      <4>1. \A i \in 1 .. m + 1 : i = 1 \/ (i - 1 \in 1 .. m /\ i = (i - 1) + 1)
        BY <1>m
      <4>2. 1 \in 1 .. m + 1 /\ \A i \in 1 .. m : i + 1 \in 1 .. m + 1
        BY <1>m
      <4> QED BY <4>1, <4>2
    <3>2. \A i \in 1 .. m + 1 : g[i] = g[1] \/ \E j \in 1 .. m : g[i] = t[j]
      <4> TAKE i \in 1 .. m + 1
      <4>1. CASE i = 1
        BY <4>1
      <4>2. CASE i # 1
        <5>1. PICK j \in 1 .. m : i = j + 1
          BY <3>1, <4>2
        <5> QED BY <1>2, <5>1
      <4> QED BY <4>1, <4>2
    <3>3. \A j \in 1 .. m : \E i \in 1 .. m + 1 : t[j] = g[i]
      BY <1>2, <3>1
    <3> DEFINE G == {g[i] : i \in 1 .. m + 1}
               T == {t[i] : i \in 1 .. m}
    <3>4. \A y \in G : y \in {g[1]} \cup T
      <4> TAKE y \in G
      <4>1. PICK i \in 1 .. m + 1 : y = g[i]
        OBVIOUS
      <4> QED BY <3>2, <4>1
    <3>5. \A y \in {g[1]} \cup T : y \in G
      <4> TAKE y \in {g[1]} \cup T
      <4>1. CASE y = g[1]
        BY <3>1, <4>1
      <4>2. CASE y # g[1]
        <5>1. PICK j \in 1 .. m : y = t[j]
          BY <4>2
        <5> QED BY <3>3, <5>1
      <4> QED BY <4>1, <4>2
    <3> HIDE DEF G, T
    <3>6. G = {g[1]} \cup T
      BY <3>4, <3>5
    <3> QED BY <3>6 DEF G, T
  <2>3. s = {f[i] : i \in 1 .. m} /\ g[m + 1] = x
    BY <1>2, <1>3
  <2> QED BY <1>6, <2>1, <2>2, <2>3, Zenon
<1>9. CASE m + 1 > cap
  <2>1. m = cap /\ n >= m
    BY <1>1, <1>2, <1>3, <1>9
  <2>2. \A i \in 1 .. m : t[i] = k[n + 1 - m + i]
    <3> TAKE i \in 1 .. m
    <3>1. i + 1 \in 1 .. m + 1 /\ n - m + (i + 1) = n + 1 - m + i
      BY <1>1, <1>2
    <3> QED BY <1>2, <1>7, <3>1
  <2>3. \A i \in 1 .. m : t[i] # g[1]
    <3> SUFFICES ASSUME NEW i \in 1 .. m, t[i] = g[1] PROVE FALSE
      OBVIOUS
    <3>1. /\ 1 \in 1 .. m + 1
          /\ n - m + 1 \in 1 .. n + 1 /\ n + 1 - m + i \in 1 .. n + 1
          /\ n - m + 1 < n + 1 - m + i
          /\ (n + 1 - m + i) - (n - m + 1) <= cap
      BY <1>1, <1>2, <2>1
    <3>2. k[n - m + 1] = k[n + 1 - m + i]
      BY <1>7, <2>2, <3>1
    <3>3. (n + 1 - m + i) - (n - m + 1) > cap
      BY <1>5, <3>1, <3>2
    <3>4. (n + 1 - m + i) - (n - m + 1) = i
      BY <1>1, <1>2
    <3> QED BY <3>1, <3>3, <3>4
  <2>4. ids \ {g[1]} = {t[i] : i \in 1 .. m}
    BY <1>8, <2>3
  <2>5. Len(t) = IF n + 1 < cap THEN n + 1 ELSE cap
    BY <1>1, <1>2, <2>1
  <2>6. Latest(t, ids \ {g[1]}, k, cap)
    <3>1. Len(k) = n + 1 /\ Len(t) = m
      BY <1>1, <1>2
    <3>2. Len(t) = IF Len(k) < cap THEN Len(k) ELSE cap
      BY <2>5, <3>1
    <3>3. \A i \in 1 .. Len(t) : t[i] = k[Len(k) - Len(t) + i]
      <4> TAKE i \in 1 .. Len(t)
      <4>1. i \in 1 .. m /\ Len(k) - Len(t) + i = n + 1 - m + i
        BY <1>1, <1>2, <3>1
      <4> QED BY <2>2, <4>1
    <3>4. ids \ {g[1]} = {t[i] : i \in 1 .. Len(t)}
      BY <2>4, <3>1, Zenon
    <3> QED BY <3>2, <3>3, <3>4 DEF Latest
  <2>7. /\ Push(win, x, cap).fifo = t /\ Push(win, x, cap).ids = ids \ {g[1]}
    BY <1>4, <1>9
  <2> QED BY <2>6, <2>7 DEF k
<1>10. CASE ~(m + 1 > cap)
  <2>1. m = n /\ n < cap
    BY <1>1, <1>2, <1>3, <1>10
  <2>2. Len(g) = IF n + 1 < cap THEN n + 1 ELSE cap
    BY <1>1, <1>2, <1>10, <2>1
  <2>3. \A i \in 1 .. m + 1 : g[i] = k[(n + 1) - (m + 1) + i]
    BY <1>1, <1>2, <1>7, <2>1
  <2>4. Latest(g, ids, k, cap)
    BY <1>1, <1>2, <1>8, <2>2, <2>3 DEF Latest
  <2>5. /\ Push(win, x, cap).fifo = g /\ Push(win, x, cap).ids = ids
    BY <1>4, <1>10
  <2> QED BY <2>4, <2>5 DEF k
<1> QED BY <1>9, <1>10

-----------------------------------------------------------------------------
(* The router                                                              *)

(* The IDs of the history, in order.                                       *)
History == [i \in 1 .. Len(log) |-> log[i].id]

Inv ==
  /\ TypeOK
  /\ Latest(window.fifo, window.ids, History, ResolvedWindow)
  /\ Apart(History, ResolvedWindow)

LEMMA HistoryType ==
  ASSUME TypeOK
  PROVE  /\ History \in Seq(ActionIds) /\ Len(History) = Len(log)
         /\ Len(log) \in Nat
         /\ \A i \in 1 .. Len(log) : History[i] = log[i].id
<1>1. Len(log) \in Nat /\ \A i \in 1 .. Len(log) : log[i].id \in ActionIds
  <2>1. log \in Seq(Entry)
    BY DEF TypeOK
  <2>2. Len(log) \in Nat /\ \A i \in 1 .. Len(log) : log[i] \in Entry
    BY <2>1
  <2> QED BY <2>2 DEF Entry
<1> QED BY <1>1 DEF History

LEMMA InitInv == Init => Inv
<1> SUFFICES ASSUME Init PROVE Inv
  OBVIOUS
<1>1. TypeOK /\ Len(log) = 0
  BY DEF Init, TypeOK, EmptyWindow
<1>2. Len(window.fifo) = 0 /\ window.ids = {}
  BY DEF Init, EmptyWindow
<1>3. Len(History) = 0 /\ 0 < ResolvedWindow
  BY <1>1, HistoryType, RouterAssumption DEF RouterAssumption
<1>4. 1 .. 0 = {}
  OBVIOUS
<1>5. Latest(window.fifo, window.ids, History, ResolvedWindow)
  BY <1>2, <1>3, <1>4 DEF Latest
<1>6. Apart(History, ResolvedWindow)
  BY <1>3, <1>4 DEF Apart
<1> QED BY <1>1, <1>5, <1>6 DEF Inv

LEMMA AnswerTypes ==
  ASSUME NEW reg \in Registrations, NEW id \in ActionIds, NEW reply \in Replies
  PROVE  /\ UnavailableAnswer(reg, "none") \in Answers
         /\ TimeoutAnswer(reg, "none") \in Answers
         /\ CandidateAnswer(reg, id, reply) \in Answers
BY RouterAssumption
   DEF RouterAssumption, Answers, Sources, Errors, UnavailableAnswer,
       TimeoutAnswer, CandidateAnswer

(* A resolution keeps the history, the window and the set in step.         *)
LEMMA AnswerInv ==
  ASSUME Inv, NEW k \in Kinds, NEW id \in ActionIds, NEW ans \in Answers,
         Answer(k, id, ans)
  PROVE  Inv'
<1> DEFINE entry == [kind |-> k, id |-> id, answer |-> ans]
<1>1. /\ log \in Seq(Entry) /\ entry \in Entry /\ ResolvedWindow \in Nat \ {0}
      /\ window.fifo \in Seq(ActionIds) /\ window.ids \subseteq ActionIds
      /\ window = [ids |-> window.ids, fifo |-> window.fifo]
  BY RouterAssumption DEF Inv, TypeOK, Entry, RouterAssumption
<1>2. /\ id \notin window.ids
      /\ window' = Push(window, id, ResolvedWindow)
      /\ log' = Append(log, entry)
      /\ registrations' = registrations
  BY DEF Answer
<1>3. TypeOK'
  <2>1. log' \in Seq(Entry)
    BY <1>1, <1>2
  <2>2. window' \in [ids : SUBSET ActionIds, fifo : Seq(ActionIds)]
    BY <1>1, <1>2, PushType
  <2> QED BY <1>2, <2>1, <2>2 DEF Inv, TypeOK, Entry
<1>4. History' = Append(History, id)
  <2>1. /\ Len(log') = Len(log) + 1 /\ log'[Len(log) + 1] = entry
        /\ \A i \in 1 .. Len(log) : log'[i] = log[i]
        /\ Len(log) \in Nat
    BY <1>1, <1>2
  <2>2. History \in Seq(ActionIds) /\ Len(History) = Len(log)
        /\ \A i \in 1 .. Len(log) : History[i] = log[i].id
    BY HistoryType DEF Inv
  <2>3. /\ History' \in Seq(ActionIds) /\ Len(History') = Len(log) + 1
        /\ \A i \in 1 .. Len(log) + 1 : History'[i] = log'[i].id
    <3>1. \A i \in 1 .. Len(log) + 1 : log'[i].id \in ActionIds
      <4>1. log' \in Seq(Entry)
        BY <1>1, <1>2
      <4>2. \A i \in 1 .. Len(log) + 1 : log'[i] \in Entry
        BY <2>1, <4>1
      <4> QED BY <4>2 DEF Entry
    <3> QED BY <2>1, <3>1 DEF History
  <2>4. /\ Append(History, id) \in Seq(ActionIds)
        /\ Len(Append(History, id)) = Len(log) + 1
        /\ Append(History, id)[Len(log) + 1] = id
        /\ \A i \in 1 .. Len(log) : Append(History, id)[i] = log[i].id
    BY <2>2, AppendProperties
  <2>5. ASSUME NEW i \in 1 .. Len(log) + 1
        PROVE  History'[i] = Append(History, id)[i]
    <3>1. CASE i = Len(log) + 1
      BY <2>1, <2>3, <2>4, <3>1
    <3>2. CASE i # Len(log) + 1
      <4>1. i \in 1 .. Len(log)
        BY <2>1, <3>2
      <4> QED BY <2>1, <2>3, <2>4, <4>1
    <3> QED BY <3>1, <3>2
  <2> QED BY <2>3, <2>4, <2>5, SeqEqual
<1>5. /\ History \in Seq(ActionIds)
      /\ Latest(window.fifo, window.ids, History, ResolvedWindow)
      /\ Apart(History, ResolvedWindow)
  BY HistoryType DEF Inv
<1>6. Apart(History', ResolvedWindow)
  BY <1>1, <1>2, <1>4, <1>5, PushApart
<1>7. Latest(window'.fifo, window'.ids, History', ResolvedWindow)
  BY <1>1, <1>2, <1>4, <1>5, PushLatest
<1> QED BY <1>3, <1>6, <1>7 DEF Inv

LEMMA StepInv == Inv /\ [Next]_vars => Inv'
<1> SUFFICES ASSUME Inv, [Next]_vars PROVE Inv'
  OBVIOUS
<1>1. ASSUME NEW k \in Kinds, Register(k) PROVE Inv'
  BY <1>1 DEF Register, Inv, TypeOK, History, Entry
<1>2. ASSUME NEW k \in Kinds, registrations[k] # Unregistered
      PROVE  registrations[k] \in Registrations
  BY <1>2 DEF Inv, TypeOK
<1>3. ASSUME NEW k \in Kinds, NEW id \in ActionIds,
             ResolveUnavailable(k, id) \/ TimeoutResponse(k, id)
      PROVE  Inv'
  <2>1. registrations[k] \in Registrations
    BY <1>2, <1>3 DEF ResolveUnavailable, TimeoutResponse, Answer
  <2>2. /\ UnavailableAnswer(registrations[k], "none") \in Answers
        /\ TimeoutAnswer(registrations[k], "none") \in Answers
    BY <2>1, RouterAssumption
       DEF RouterAssumption, Answers, Sources, Errors, UnavailableAnswer,
           TimeoutAnswer
  <2> QED BY <1>3, <2>2, AnswerInv DEF ResolveUnavailable, TimeoutResponse
<1>4. ASSUME NEW k \in Kinds, NEW id \in ActionIds, NEW reply \in Replies,
             ResolveReply(k, id, reply)
      PROVE  Inv'
  <2>1. registrations[k] \in Registrations
    BY <1>2, <1>4 DEF ResolveReply, Answer
  <2>2. CandidateAnswer(registrations[k], id, reply) \in Answers
    BY <2>1, AnswerTypes
  <2> QED BY <1>4, <2>2, AnswerInv DEF ResolveReply
<1>5. CASE UNCHANGED vars
  BY <1>5 DEF vars, Inv, TypeOK, History, Entry
<1> QED BY <1>1, <1>3, <1>4, <1>5 DEF Next

(* Every variable holds a value of its kind.                               *)
THEOREM RouterTyping == Spec => []TypeOK
<1>1. Inv => TypeOK
  BY DEF Inv
<1> QED BY <1>1, InitInv, StepInv, PTL DEF Spec

(* markResolved's set and queue are the latest resolutions, for a window   *)
(* of any length and a history of any length.                              *)
THEOREM LatestAreRemembered == Spec => []WindowIsLatest
<1>1. Inv => WindowIsLatest
  <2> SUFFICES ASSUME Inv PROVE WindowIsLatest
    OBVIOUS
  <2>1. /\ Len(History) = Len(log) /\ Len(log) \in Nat
        /\ \A i \in 1 .. Len(log) : History[i] = log[i].id
        /\ window.fifo \in Seq(ActionIds) /\ ResolvedWindow \in Nat
    BY HistoryType, RouterAssumption DEF Inv, TypeOK, RouterAssumption
  <2>2. /\ Len(window.fifo) = IF Len(log) < ResolvedWindow THEN Len(log)
                                                          ELSE ResolvedWindow
        /\ window.ids = {window.fifo[i] : i \in 1 .. Len(window.fifo)}
    BY <2>1 DEF Inv, Latest
  <2>3. ASSUME NEW i \in 1 .. Len(window.fifo)
        PROVE  window.fifo[i] = log[Len(log) - Len(window.fifo) + i].id
    <3>1. Len(log) - Len(window.fifo) + i \in 1 .. Len(log)
      BY <2>1, <2>2
    <3>2. window.fifo[i] = History[Len(log) - Len(window.fifo) + i]
      BY <2>1 DEF Inv, Latest
    <3> QED BY <2>1, <3>1, <3>2
  <2> QED BY <2>2, <2>3 DEF WindowIsLatest
<1> QED BY <1>1, InitInv, StepInv, PTL DEF Spec

(* Resolve gives an action a second terminal resolution only after a whole *)
(* window of others.                                                       *)
THEOREM NoEarlyDuplicate == Spec => []DuplicateOnlyAfterWindow
<1>1. Inv => DuplicateOnlyAfterWindow
  BY HistoryType DEF Inv, Apart, DuplicateOnlyAfterWindow
<1> QED BY <1>1, InitInv, StepInv, PTL DEF Spec

-----------------------------------------------------------------------------
(* Registrations                                                           *)

(* What an entry of the history owes the controller registered today.      *)
Declared(e, reg) ==
  /\ reg # Unregistered
  /\ e.answer.by = "timeout" => e.answer.outcome = reg.onTimeout
  /\ e.answer.by = "unavailable" => e.answer.outcome = reg.onUnavailable
  /\ e.answer.by = "controller" =>
       \E reply \in Replies : /\ reply.controller = reg.controller
                              /\ reply.id = e.id
                              /\ reply.outcome = e.answer.outcome

(* A resolution that is declared for its own kind joins the others.        *)
LEMMA AnswerDeclared ==
  ASSUME Inv, ResolutionsAreDeclared, NEW k \in Kinds, NEW id \in ActionIds,
         NEW ans, Answer(k, id, ans),
         Declared([kind |-> k, id |-> id, answer |-> ans], registrations[k])
  PROVE  ResolutionsAreDeclared'
<1> PICK e : e = [kind |-> k, id |-> id, answer |-> ans]
  OBVIOUS
<1>1. log' = Append(log, e) /\ registrations' = registrations
  BY DEF Answer
<1>2. /\ Len(log) \in Nat /\ Len(log') = Len(log) + 1
      /\ log'[Len(log) + 1] = e
      /\ \A i \in 1 .. Len(log) : log'[i] = log[i]
  BY <1>1, HistoryType DEF Inv, TypeOK
<1>3. \A i \in 1 .. Len(log) : Declared(log[i], registrations[log[i].kind])
  BY DEF ResolutionsAreDeclared, Declared
<1>4. ASSUME NEW i \in 1 .. Len(log')
      PROVE  Declared(log'[i], registrations[log'[i].kind])
  <2>1. CASE i = Len(log) + 1
    BY <1>2, <2>1
  <2>2. CASE i # Len(log) + 1
    <3>1. i \in 1 .. Len(log)
      BY <1>2, <2>2
    <3> QED BY <1>2, <1>3, <3>1
  <2> QED BY <2>1, <2>2
<1> QED BY <1>1, <1>4 DEF ResolutionsAreDeclared, Declared

LEMMA DeclaredStep ==
  ASSUME Inv, ResolutionsAreDeclared, [Next]_vars
  PROVE  ResolutionsAreDeclared'
<1>1. ASSUME NEW k \in Kinds, Register(k) PROVE ResolutionsAreDeclared'
  <2>1. log' = log /\ registrations[k] = Unregistered
    BY <1>1 DEF Register, Registered
  <2>2. \A j \in Kinds : j # k => registrations'[j] = registrations[j]
    BY <1>1 DEF Register, Inv, TypeOK
  <2>3. \A i \in 1 .. Len(log) : log[i].kind \in Kinds
    <3>1. log \in Seq(Entry)
      BY DEF Inv, TypeOK
    <3>2. \A i \in 1 .. Len(log) : log[i] \in Entry
      BY <3>1
    <3> QED BY <3>2 DEF Entry
  <2> QED BY <2>1, <2>2, <2>3 DEF ResolutionsAreDeclared
<1>2. ASSUME NEW k \in Kinds, NEW id \in ActionIds, ResolveUnavailable(k, id)
      PROVE  ResolutionsAreDeclared'
  <2> PICK ans : ans = UnavailableAnswer(registrations[k], "none")
    OBVIOUS
  <2>1. Answer(k, id, ans)
    BY <1>2 DEF ResolveUnavailable
  <2>2. Declared([kind |-> k, id |-> id, answer |-> ans], registrations[k])
    BY <2>1 DEF Declared, UnavailableAnswer, Answer
  <2> QED BY <2>1, <2>2, AnswerDeclared
<1>3. ASSUME NEW k \in Kinds, NEW id \in ActionIds, TimeoutResponse(k, id)
      PROVE  ResolutionsAreDeclared'
  <2> PICK ans : ans = TimeoutAnswer(registrations[k], "none")
    OBVIOUS
  <2>1. Answer(k, id, ans)
    BY <1>3 DEF TimeoutResponse
  <2>2. Declared([kind |-> k, id |-> id, answer |-> ans], registrations[k])
    BY <2>1 DEF Declared, TimeoutAnswer, Answer
  <2> QED BY <2>1, <2>2, AnswerDeclared
<1>4. ASSUME NEW k \in Kinds, NEW id \in ActionIds, NEW reply \in Replies,
             ResolveReply(k, id, reply)
      PROVE  ResolutionsAreDeclared'
  <2> PICK ans : ans = CandidateAnswer(registrations[k], id, reply)
    OBVIOUS
  <2>1. Answer(k, id, ans)
    BY <1>4 DEF ResolveReply
  <2>2. CASE Correlated(registrations[k], id, reply)
    <3>1. ans = [outcome |-> reply.outcome, by |-> "controller", err |-> "none"]
      BY <2>2 DEF CandidateAnswer
    <3>2. Declared([kind |-> k, id |-> id, answer |-> ans], registrations[k])
      BY <2>1, <2>2, <3>1 DEF Declared, Correlated, Answer
    <3> QED BY <2>1, <3>2, AnswerDeclared
  <2>3. CASE ~Correlated(registrations[k], id, reply)
    <3>1. ans = UnavailableAnswer(registrations[k], "cause")
      BY <2>3 DEF CandidateAnswer
    <3>2. Declared([kind |-> k, id |-> id, answer |-> ans], registrations[k])
      BY <2>1, <3>1 DEF Declared, UnavailableAnswer, Answer
    <3> QED BY <2>1, <3>2, AnswerDeclared
  <2> QED BY <2>2, <2>3
<1>5. CASE UNCHANGED vars
  BY <1>5 DEF vars, ResolutionsAreDeclared
<1> QED BY <1>1, <1>2, <1>3, <1>4, <1>5 DEF Next

(* A controller once bound stays bound: every resolution of the history is *)
(* declared by, or a reply of, the controller its kind has today.          *)
THEOREM BoundForGood == Spec => []ResolutionsAreDeclared
<1>1. Init => ResolutionsAreDeclared
  BY DEF Init, ResolutionsAreDeclared
<1>2. Inv /\ ResolutionsAreDeclared /\ [Next]_vars => ResolutionsAreDeclared'
  BY DeclaredStep
<1> QED BY <1>1, <1>2, InitInv, StepInv, PTL DEF Spec
=============================================================================
