-------------------------- MODULE RepositoryProofs --------------------------
(***************************************************************************)
(* Theorems of Repository for any directories, names, scaffolds, saves and *)
(* number of processes, each of which may be cut off anywhere.             *)
(*                                                                         *)
(* init judges a registration when it starts and writes it three steps     *)
(* later, so what was judged must still hold at the write: while no two    *)
(* registrations of a directory met, a process that is about to write has  *)
(* a fragment that merges with what the directory holds, and is the only   *)
(* one that is.  Wiring writes what it read two steps before, so what it   *)
(* holds must be kept as the file is: both have the foreign entries last   *)
(* saved, unless a save came between.                                      *)
(***************************************************************************)
EXTENDS Repository, FiniteSetTheorems, SequenceTheorems, WellFoundedInduction,
        TLAPS

-----------------------------------------------------------------------------
(* Induction                                                               *)

(* A set of numbers that has 0 and every successor has them all: its       *)
(* complement has no least member.                                         *)
LEMMA NumbersReached ==
  ASSUME NEW T, T \subseteq Nat, 0 \in T, \A n \in T : n + 1 \in T
  PROVE  T = Nat
<1> DEFINE R == {p \in Nat \X Nat : p[1] < p[2]}
<1>1. IsWellFoundedOn(R, Nat)
  BY NatLessThanWellFounded DEF OpToRel
<1>2. SUFFICES ASSUME Nat \ T # {} PROVE FALSE
  OBVIOUS
<1> HIDE DEF R
<1>3. PICK x \in Nat \ T : \A y \in Nat \ T : <<y, x>> \notin R
  BY <1>1, <1>2, WFMin
<1>4. x # 0 /\ x - 1 \in Nat /\ x = (x - 1) + 1
  BY <1>3
<1>5. <<x - 1, x>> \in R
  BY <1>4 DEF R
<1>6. x - 1 \in T
  BY <1>3, <1>4, <1>5
<1> QED BY <1>3, <1>4, <1>6

(* Likewise for sequences.                                                 *)
LEMMA SequencesReached ==
  ASSUME NEW S, NEW P, <<>> \in P,
         \A s \in Seq(S), x \in S : s \in P => Append(s, x) \in P
  PROVE  Seq(S) \subseteq P
<1> DEFINE T == {n \in Nat : \A s \in Seq(S) : Len(s) = n => s \in P}
<1>1. 0 \in T
  BY EmptySeq
<1>2. ASSUME NEW n \in T PROVE n + 1 \in T
  <2> SUFFICES ASSUME NEW s \in Seq(S), Len(s) = n + 1 PROVE s \in P
    BY <1>2
  <2> DEFINE front == SubSeq(s, 1, n)
  <2>1. n \in Nat /\ \A i \in 1 .. n + 1 : s[i] \in S
    BY <1>2, ElementOfSeq
  <2>2. front \in Seq(S) /\ Len(front) = n /\ \A i \in 1 .. n : front[i] = s[i]
    BY <2>1, SubSeqProperties
  <2> HIDE DEF front
  <2>3. front \in P
    BY <1>2, <2>2
  <2>4. Append(front, s[n + 1]) \in Seq(S) /\ Append(front, s[n + 1]) \in P
    BY <2>1, <2>2, <2>3
  <2>5. /\ Len(Append(front, s[n + 1])) = n + 1
        /\ \A i \in 1 .. n + 1 : Append(front, s[n + 1])[i] = s[i]
    BY <2>1, <2>2
  <2>6. Append(front, s[n + 1]) = s
    BY <2>4, <2>5, SeqEqual
  <2> QED BY <2>4, <2>6
<1> HIDE DEF T
<1>3. T = Nat
  <2>1. T \subseteq Nat
    BY DEF T
  <2> QED BY <1>1, <1>2, <2>1, NumbersReached
<1> QED BY <1>3, LenProperties DEF T

-----------------------------------------------------------------------------
(* What Without leaves                                                     *)

Left(f, s, T, n) ==
  f = [i \in 0 .. n |->
         IF i = 0 THEN <<>>
         ELSE IF s[i] \in T THEN f[i - 1] ELSE Append(f[i - 1], s[i])]

LEMMA LeftAt ==
  ASSUME NEW f, NEW s, NEW T, NEW n \in Nat, Left(f, s, T, n)
  PROVE  /\ f[0] = <<>>
         /\ \A i \in 0 .. n : i + 1 <= n =>
              f[i + 1] = IF s[i + 1] \in T THEN f[i] ELSE Append(f[i], s[i + 1])
<1>1. \A i \in 0 .. n : f[i] = IF i = 0 THEN <<>>
                              ELSE IF s[i] \in T THEN f[i - 1]
                                                ELSE Append(f[i - 1], s[i])
  BY DEF Left
<1>2. ASSUME NEW i \in 0 .. n, i + 1 <= n
      PROVE  f[i + 1] = IF s[i + 1] \in T THEN f[i] ELSE Append(f[i], s[i + 1])
  <2>1. i + 1 \in 0 .. n /\ i + 1 # 0 /\ (i + 1) - 1 = i
    BY <1>2
  <2> QED BY <1>1, <2>1
<1> QED BY <1>1, <1>2

LEMMA LeftExists ==
  ASSUME NEW s, NEW T
  PROVE  \A n \in Nat : \E f : Left(f, s, T, n)
<1> DEFINE N == {n \in Nat : \E f : Left(f, s, T, n)}
<1>1. 0 \in N
  <2>1. Left([i \in 0 .. 0 |-> <<>>], s, T, 0)
    BY DEF Left
  <2> QED BY <2>1
<1>2. ASSUME NEW n \in N PROVE n + 1 \in N
  <2>1. PICK f : Left(f, s, T, n)
    BY <1>2
  <2>2. n \in Nat
    BY <1>2
  <2> DEFINE rest == IF s[n + 1] \in T THEN f[n] ELSE Append(f[n], s[n + 1])
             g == [i \in 0 .. n + 1 |-> IF i = n + 1 THEN rest ELSE f[i]]
  <2>3. /\ \A i \in 0 .. n : g[i] = f[i]
        /\ g[n + 1] = rest /\ DOMAIN g = 0 .. n + 1
        /\ g = [i \in 0 .. n + 1 |-> g[i]]
    BY <2>2
  <2>4. /\ \A i \in 0 .. n : f[i] = IF i = 0 THEN <<>>
                                   ELSE IF s[i] \in T THEN f[i - 1]
                                                     ELSE Append(f[i - 1], s[i])
    BY <2>1 DEF Left
  <2> HIDE DEF g
  <2>5. ASSUME NEW i \in 0 .. n + 1
        PROVE  g[i] = IF i = 0 THEN <<>>
                      ELSE IF s[i] \in T THEN g[i - 1] ELSE Append(g[i - 1], s[i])
    <3>1. CASE i = n + 1
      <4>1. i # 0 /\ i - 1 = n /\ n \in 0 .. n
        BY <2>2, <3>1
      <4> QED BY <2>3, <3>1, <4>1
    <3>2. CASE i # n + 1 /\ i # 0
      <4>1. i \in 0 .. n /\ i - 1 \in 0 .. n
        BY <2>2, <3>2
      <4> QED BY <2>3, <2>4, <3>2, <4>1
    <3>3. CASE i = 0
      <4>1. i \in 0 .. n
        BY <2>2, <3>3
      <4> QED BY <2>3, <2>4, <3>3, <4>1
    <3> QED BY <3>1, <3>2, <3>3
  <2>6. Left(g, s, T, n + 1)
    BY <2>3, <2>5 DEF Left
  <2> QED BY <2>2, <2>6
<1> HIDE DEF N
<1>3. N = Nat
  <2>1. N \subseteq Nat
    BY DEF N
  <2> QED BY <1>1, <1>2, <2>1, NumbersReached
<1> QED BY <1>3 DEF N

LEMMA WithoutIs ==
  ASSUME NEW S, NEW s \in Seq(S), NEW T
  PROVE  \E f : Left(f, s, T, Len(s)) /\ Without(s, T) = f[Len(s)]
<1>1. Len(s) \in Nat /\ \E f : Left(f, s, T, Len(s))
  BY LeftExists, LenProperties
<1> DEFINE left == CHOOSE f : Left(f, s, T, Len(s))
<1>2. Left(left, s, T, Len(s))
  BY <1>1
<1>3. Without(s, T) = left[Len(s)]
  BY DEF Without, Left
<1> QED BY <1>2, <1>3

(* Two of them agree as far as their sequences do.                         *)
LEMMA LeftAgree ==
  ASSUME NEW s, NEW t, NEW T, NEW n \in Nat, NEW m \in Nat, n <= m,
         NEW f, Left(f, s, T, n), NEW g, Left(g, t, T, m),
         \A i \in 1 .. n : s[i] = t[i]
  PROVE  f[n] = g[n]
<1> DEFINE N == {i \in Nat : i <= n => f[i] = g[i]}
<1>1. /\ f[0] = <<>> /\ g[0] = <<>>
      /\ \A i \in 0 .. n : i + 1 <= n =>
           f[i + 1] = IF s[i + 1] \in T THEN f[i] ELSE Append(f[i], s[i + 1])
      /\ \A i \in 0 .. m : i + 1 <= m =>
           g[i + 1] = IF t[i + 1] \in T THEN g[i] ELSE Append(g[i], t[i + 1])
  BY LeftAt
<1>2. 0 \in N
  BY <1>1
<1>3. ASSUME NEW i \in N PROVE i + 1 \in N
  <2> SUFFICES ASSUME i + 1 <= n PROVE f[i + 1] = g[i + 1]
    OBVIOUS
  <2>1. i \in 0 .. n /\ i \in 0 .. m /\ i + 1 <= m /\ i + 1 \in 1 .. n
    OBVIOUS
  <2>2. f[i] = g[i] /\ s[i + 1] = t[i + 1]
    BY <2>1
  <2> QED BY <1>1, <2>1, <2>2
<1>4. N \subseteq Nat
  OBVIOUS
<1> HIDE DEF N
<1>5. n \in N
  BY <1>2, <1>3, <1>4, NumbersReached
<1> QED BY <1>5 DEF N

LEMMA WithoutEmpty == ASSUME NEW T PROVE Without(<<>>, T) = <<>>
<1>1. <<>> \in Seq({}) /\ Len(<<>>) = 0
  BY EmptySeq
<1>2. PICK f : Left(f, <<>>, T, 0) /\ Without(<<>>, T) = f[0]
  BY <1>1, WithoutIs
<1> QED BY <1>2, LeftAt

LEMMA WithoutAppend ==
  ASSUME NEW S, NEW s \in Seq(S), NEW x \in S, NEW T
  PROVE  Without(Append(s, x), T) = IF x \in T THEN Without(s, T)
                                              ELSE Append(Without(s, T), x)
<1> DEFINE t == Append(s, x)
<1>1. PICK n \in Nat : n = Len(s)
  BY LenProperties
<1>2. /\ t \in Seq(S) /\ Len(t) = n + 1 /\ t[n + 1] = x
      /\ \A i \in 1 .. n : s[i] = t[i]
  BY <1>1
<1> HIDE DEF t
<1>3. PICK f : Left(f, s, T, n) /\ Without(s, T) = f[n]
  BY <1>1, WithoutIs
<1>4. PICK g : Left(g, t, T, n + 1) /\ Without(t, T) = g[n + 1]
  BY <1>2, WithoutIs
<1>5. f[n] = g[n]
  BY <1>2, <1>3, <1>4, LeftAgree
<1>6. n + 1 \in Nat /\ n \in 0 .. n + 1 /\ n + 1 <= n + 1
  OBVIOUS
<1>7. g[n + 1] = IF t[n + 1] \in T THEN g[n] ELSE Append(g[n], t[n + 1])
  <2>1. \A i \in 0 .. n + 1 : i + 1 <= n + 1 =>
          g[i + 1] = IF t[i + 1] \in T THEN g[i] ELSE Append(g[i], t[i + 1])
    BY <1>4, <1>6, LeftAt
  <2> QED BY <1>6, <2>1
<1> QED BY <1>2, <1>3, <1>4, <1>5, <1>7 DEF t

(* None of T is left, and nothing else is added.                           *)
LEMMA WithoutType ==
  ASSUME NEW S, NEW T, NEW s \in Seq(S)
  PROVE  Without(s, T) \in Seq(S \ T)
<1> DEFINE P == {q \in Seq(S) : Without(q, T) \in Seq(S \ T)}
<1>1. <<>> \in P
  BY WithoutEmpty, EmptySeq
<1>2. ASSUME NEW q \in Seq(S), NEW x \in S, q \in P PROVE Append(q, x) \in P
  <2>1. Append(q, x) \in Seq(S) /\ Without(q, T) \in Seq(S \ T)
    BY <1>2
  <2>2. x \notin T => Append(Without(q, T), x) \in Seq(S \ T)
    BY <2>1
  <2>3. Without(Append(q, x), T) = IF x \in T THEN Without(q, T)
                                             ELSE Append(Without(q, T), x)
    BY WithoutAppend
  <2>4. Without(Append(q, x), T) \in Seq(S \ T)
    BY <2>1, <2>2, <2>3, Zenon
  <2> QED BY <2>1, <2>4
<1> HIDE DEF P
<1>3. Seq(S) \subseteq P
  BY <1>1, <1>2, SequencesReached
<1> QED BY <1>3 DEF P

(* What goes at once and what goes first and later is the same.            *)
LEMMA WithoutTwice ==
  ASSUME NEW S, NEW A, NEW B, A \subseteq B, NEW s \in Seq(S)
  PROVE  Without(Without(s, A), B) = Without(s, B)
<1> DEFINE P == {q \in Seq(S) : Without(Without(q, A), B) = Without(q, B)}
<1>1. <<>> \in P
  BY WithoutEmpty, EmptySeq
<1>2. ASSUME NEW q \in Seq(S), NEW x \in S, q \in P PROVE Append(q, x) \in P
  <2>1. /\ Append(q, x) \in Seq(S) /\ Without(q, A) \in Seq(S \ A)
        /\ Without(Without(q, A), B) = Without(q, B)
    BY <1>2, WithoutType
  <2>2. CASE x \in A
    BY <2>1, <2>2, WithoutAppend
  <2>3. CASE x \notin A
    <3>1. Without(Append(q, x), A) = Append(Without(q, A), x)
      BY <2>3, WithoutAppend
    <3>2. Without(Append(Without(q, A), x), B)
            = IF x \in B THEN Without(Without(q, A), B)
                         ELSE Append(Without(Without(q, A), B), x)
      <4> DEFINE R == S \ A
                 r == Without(q, A)
      <4>1. r \in Seq(R) /\ x \in R
        BY <2>1, <2>3
      <4> HIDE DEF R, r
      <4>2. Without(Append(r, x), B) = IF x \in B THEN Without(r, B)
                                                 ELSE Append(Without(r, B), x)
        BY <4>1, WithoutAppend
      <4> QED BY <4>2 DEF r
    <3>3. Without(Append(q, x), B) = IF x \in B THEN Without(q, B)
                                                ELSE Append(Without(q, B), x)
      BY WithoutAppend
    <3> QED BY <2>1, <3>1, <3>2, <3>3
  <2> QED BY <2>2, <2>3
<1> HIDE DEF P
<1>3. Seq(S) \subseteq P
  BY <1>1, <1>2, SequencesReached
<1> QED BY <1>3 DEF P

-----------------------------------------------------------------------------
(* Registrations                                                           *)

(* Between the judgement and the write.                                    *)
Judged == {"conflicts", "write project", "empty fragment", "write fragment"}

Wanted(p) == Scaffold(Name(p), job[p].template)

(* The fragments of a directory without the ones that were cut off.        *)
Whole(d) ==
  [n \in Names |-> IF tenants[d][n] = Cut THEN NoFile ELSE tenants[d][n]]

Met(d) == <<"tenants", d>> \in overtaken

Shaped ==
  /\ job \in [Procs -> CommandLines] /\ DOMAIN pc = Procs
  /\ DOMAIN tenants = Dirs /\ \A d \in Dirs : DOMAIN tenants[d] = Names

Backed ==
  /\ \A d \in Dirs : \A n \in Present(tenants[d]) : <<d, n>> \in project
  /\ \A p \in Procs : pc[p] \in {"empty fragment", "write fragment"} =>
       <<Cwd(p), Name(p)>> \in project

Fitting(d) ==
  Met(d) \/ /\ Merges(Whole(d))
            /\ \A p \in Procs : Cwd(p) = d /\ pc[p] \in Judged =>
                 Merges([Whole(d) EXCEPT ![Name(p)] = Wanted(p)])

Inv == Shaped /\ Backed /\ \A d \in Dirs : Fitting(d)

-----------------------------------------------------------------------------
(* Fragments                                                               *)

LEMMA CutIsAFile == Cut # NoFile /\ ~Sound(Cut)
BY DEF Cut, NoFile, Sound

(* Taking a fragment away breaks nothing.                                  *)
LEMMA MergesWithout ==
  ASSUME NEW fs, NEW gs, Merges(fs), DOMAIN gs = DOMAIN fs,
         \A n \in DOMAIN gs : gs[n] = fs[n] \/ gs[n] = NoFile
  PROVE  Merges(gs)
BY DEF Merges, Present

(* What merges with a candidate in it was whole but for that one.          *)
LEMMA MergesAreWhole ==
  ASSUME NEW fs, NEW n \in DOMAIN fs, NEW f, Merges([fs EXCEPT ![n] = f])
  PROVE  f # Cut /\ \A k \in DOMAIN fs : k # n => fs[k] # Cut
<1> DEFINE gs == [fs EXCEPT ![n] = f]
<1>1. DOMAIN gs = DOMAIN fs /\ gs[n] = f /\ \A k \in DOMAIN fs : k # n => gs[k] = fs[k]
  OBVIOUS
<1>2. \A k \in DOMAIN gs : gs[k] # NoFile => Sound(gs[k])
  BY DEF Merges, Present
<1> HIDE DEF gs
<1>3. \A k \in DOMAIN gs : gs[k] # Cut
  BY <1>2, CutIsAFile
<1> QED BY <1>1, <1>3

-----------------------------------------------------------------------------
(* Steps that are no registration's                                        *)

LEMMA RootType ==
  ASSUME NEW p \in Procs, Cwd(p) \in Dirs
  PROVE  RootOf(Cwd(p), Top, Owned, boundary) \in Dirs
<1>1. Cwd(p) \in Dirs /\ Top \in Nat
  BY RepositoryAssumption
<1>2. Cwd(p) .. Top \subseteq Dirs
  BY <1>1 DEF Dirs
<1> DEFINE Found == {e \in Cwd(p) .. Top : e \in Owned /\
                       \A b \in Cwd(p) .. (e - 1) : b \notin Owned \cup boundary}
<1>3. RootOf(Cwd(p), Top, Owned, boundary)
        = IF Found = {} THEN Cwd(p) ELSE CHOOSE e \in Found : TRUE
  BY DEF RootOf
<1>4. Found \subseteq Dirs
  BY <1>2
<1> HIDE DEF Found
<1>5. Found # {} => (CHOOSE e \in Found : TRUE) \in Found
  OBVIOUS
<1> QED BY <1>1, <1>3, <1>4, <1>5

(* It writes no fragment, judges none, and its command line keeps its      *)
(* directory, name and template.                                           *)
Aside ==
  /\ UNCHANGED tenancy /\ overtaken \subseteq overtaken'
  /\ Shaped'
  /\ \A p \in Procs : /\ pc'[p] \in Judged => pc'[p] = pc[p]
                      /\ Cwd(p)' = Cwd(p) /\ Name(p)' = Name(p)
                      /\ Wanted(p)' = Wanted(p)

LeavesJudged(p) == pc' = [pc EXCEPT ![p] = pc'[p]] /\ pc'[p] \notin Judged

LEMMA Moves ==
  ASSUME Shaped, UNCHANGED <<tenancy, job>>, overtaken \subseteq overtaken',
         UNCHANGED pc \/ \E p \in Procs : LeavesJudged(p)
  PROVE  Aside
<1>1. DOMAIN pc' = Procs /\ \A p \in Procs : pc'[p] \in Judged => pc'[p] = pc[p]
  BY DEF LeavesJudged, Shaped
<1> QED BY <1>1 DEF Aside, Shaped, Cwd, Name, Wanted, tenancy

LEMMA StepKinds ==
  ASSUME Shaped, [Next]_vars
  PROVE  Aside \/ \E p \in Procs : Registering(p) \/ Conflicts(p) \/ Register(p)
<1>1. ASSUME NEW p \in Procs, StartHost(p) PROVE Aside
  <2> DEFINE r == RootOf(Cwd(p), Top, Owned, boundary)
  <2>1. r \in Dirs
    BY RootType DEF Shaped, Cwd, CommandLines
  <2>2. /\ job' = [job EXCEPT ![p].root = r]
        /\ Goes(p, "start", "substrate") \/ Goes(p, "start", "inspect")
        /\ UNCHANGED <<tenants, project, overtaken>>
    BY <1>1 DEF StartHost, tenancy
  <2> HIDE DEF r
  <2>3. /\ job' \in [Procs -> CommandLines]
        /\ \A q \in Procs : /\ job'[q].cwd = job[q].cwd /\ job'[q].name = job[q].name
                            /\ job'[q].template = job[q].template
    BY <2>1, <2>2 DEF Shaped, CommandLines
  <2>4. DOMAIN pc' = Procs /\ \A q \in Procs : pc'[q] \in Judged => pc'[q] = pc[q]
    BY <2>2 DEF Goes, At, To, Shaped, Judged
  <2> QED BY <2>2, <2>3, <2>4 DEF Aside, Shaped, Cwd, Name, Wanted, tenancy
<1>2. ASSUME NEW p \in Procs, Substrate(p) \/ Gate(p) PROVE Aside
  <2>1. LeavesJudged(p)
    BY <1>2 DEF Substrate, Ensure, Gate, Goes, To, Judged, LeavesJudged, Shaped
  <2> QED BY <1>2, <2>1, Moves DEF Substrate, Gate
<1>3. ASSUME NEW p \in Procs, WriteBridge(p) PROVE Aside
  <2>1. LeavesJudged(p)
    BY <1>3 DEF WriteBridge, Goes, To, Judged, LeavesJudged, Shaped
  <2> QED BY <1>3, <2>1, Moves DEF WriteBridge
<1>4. ASSUME NEW p \in Procs, ReadConfig(p) \/ WriteConfig(p) PROVE Aside
  <2>1. LeavesJudged(p)
    BY <1>4 DEF ReadConfig, WriteConfig, Goes, To, Judged, LeavesJudged, Shaped
  <2> QED BY <1>4, <2>1, Moves DEF ReadConfig, WriteConfig
<1>5. ASSUME NEW p \in Procs, WriteWitness(p) \/ Inspect(p) PROVE Aside
  <2>1. LeavesJudged(p)
    BY <1>5 DEF WriteWitness, Inspect, Goes, To, Judged, LeavesJudged, Shaped
  <2> QED BY <1>5, <2>1, Moves DEF WriteWitness, Inspect
<1>6. ASSUME NEW p \in Procs, NEW file, NEW content, WritePlugin(p, file, content)
      PROVE  Aside
  <2>1. LeavesJudged(p)
    BY <1>6 DEF WritePlugin, Goes, To, Judged, LeavesJudged, Shaped
  <2> QED BY <1>6, <2>1, Moves DEF WritePlugin
<1>7. ASSUME NEW p \in Procs, ReadNpm(p) \/ WriteNpm(p) PROVE Aside
  <2>1. LeavesJudged(p)
    BY <1>7 DEF ReadNpm, WriteNpm, Goes, To, Judged, LeavesJudged, Shaped
  <2> QED BY <1>7, <2>1, Moves DEF ReadNpm, WriteNpm
<1>8. ASSUME NEW p \in Procs, Stop(p) PROVE Aside
  <2>1. LeavesJudged(p)
    BY <1>8 DEF Stop, To, Judged, LeavesJudged, Shaped
  <2> QED BY <1>8, <2>1, Moves DEF Stop
<1>9. ASSUME NEW d \in Dirs, NEW c \in UserConfigs, Save(d, c) PROVE Aside
  BY <1>9, Moves DEF Save
<1>10. CASE UNCHANGED vars
  BY <1>10, Moves DEF vars
<1> QED BY <1>1, <1>2, <1>3, <1>4, <1>5, <1>6, <1>7, <1>8, <1>9, <1>10 DEF Next

-----------------------------------------------------------------------------
(* A registration                                                          *)

LEMMA CommandType ==
  ASSUME Shaped, NEW p \in Procs
  PROVE  Cwd(p) \in Dirs /\ Name(p) \in Names
BY DEF Shaped, Cwd, Name, CommandLines

LEMMA AsideStep == Inv /\ Aside => Inv'
<1> SUFFICES ASSUME Inv, Aside PROVE Inv'
  OBVIOUS
<1>1. tenants' = tenants /\ project' = project
  BY DEF Aside, tenancy
<1>2. Judged = {"conflicts", "write project", "empty fragment", "write fragment"}
  BY DEF Judged
<1>3. Backed'
  <2>1. \A p \in Procs : pc'[p] \in {"empty fragment", "write fragment"} =>
          /\ pc[p] \in {"empty fragment", "write fragment"}
          /\ Cwd(p)' = Cwd(p) /\ Name(p)' = Name(p)
    BY <1>2 DEF Aside
  <2> QED BY <1>1, <2>1 DEF Inv, Backed
<1>4. ASSUME NEW d \in Dirs PROVE Fitting(d)'
  <2>1. Whole(d)' = Whole(d) /\ (Met(d) => Met(d)')
    BY <1>1 DEF Whole, Met, Aside
  <2>2. ASSUME ~Met(d)' PROVE Merges(Whole(d))'
    BY <2>1, <2>2 DEF Inv, Fitting
  <2>3. ASSUME ~Met(d)', NEW p \in Procs, Cwd(p)' = d, pc'[p] \in Judged
        PROVE  Merges([Whole(d) EXCEPT ![Name(p)] = Wanted(p)])'
    <3>1. /\ Cwd(p) = d /\ pc[p] \in Judged
          /\ Name(p)' = Name(p) /\ Wanted(p)' = Wanted(p)
      BY <2>3 DEF Aside
    <3>2. Merges([Whole(d) EXCEPT ![Name(p)] = Wanted(p)])
      BY <2>1, <2>3, <3>1 DEF Inv, Fitting
    <3> QED BY <2>1, <3>1, <3>2
  <2> QED BY <2>2, <2>3 DEF Fitting, Judged
<1> QED BY <1>3, <1>4 DEF Inv, Aside

(* What Preflight found to merge is what the invariant speaks about.       *)
LEMMA PreflightIsWhole ==
  ASSUME Shaped, NEW d \in Dirs, NEW n \in Names, NEW f,
         Preflight(tenants[d], n, f)
  PROVE  Merges([Whole(d) EXCEPT ![n] = f])
<1>1. DOMAIN tenants[d] = Names
  BY DEF Shaped
<1>2. Merges([tenants[d] EXCEPT ![n] = f])
  BY DEF Preflight
<1>3. \A k \in Names : k # n => tenants[d][k] # Cut
  BY <1>1, <1>2, MergesAreWhole
<1> DEFINE gs == [Whole(d) EXCEPT ![n] = f]
           hs == [tenants[d] EXCEPT ![n] = f]
<1>4. DOMAIN gs = Names /\ DOMAIN hs = Names /\ \A k \in Names : gs[k] = hs[k]
  BY <1>1, <1>3 DEF Whole
<1> HIDE DEF gs, hs
<1>5. Merges(hs) => Merges(gs)
  BY <1>4, MergesWithout
<1> QED BY <1>2, <1>5 DEF gs, hs

LEMMA JudgeStep ==
  ASSUME Inv, NEW p \in Procs, Registering(p) \/ Conflicts(p)
  PROVE  Inv'
<1>1. /\ UNCHANGED <<tenants, project, job, overtaken>>
      /\ \A q \in Procs : q # p => pc'[q] = pc[q]
      /\ DOMAIN pc' = Procs
  BY DEF Registering, Conflicts, Goes, To, tenancy, Inv, Shaped
<1>2. /\ pc'[p] \in {"conflicts", "write project", "failed"}
      /\ pc'[p] = "conflicts" =>
           Preflight(tenants[Cwd(p)], Name(p), Wanted(p))
      /\ pc'[p] = "write project" => pc[p] = "conflicts"
  BY DEF Registering, Conflicts, Goes, At, To, Inv, Shaped, Wanted
<1>3. Shaped'
  BY <1>1 DEF Inv, Shaped
<1>4. \A q \in Procs : /\ Cwd(q)' = Cwd(q) /\ Name(q)' = Name(q)
                       /\ Wanted(q)' = Wanted(q)
  BY <1>1 DEF Cwd, Name, Wanted
<1>5. Backed'
  <2>1. \A q \in Procs : pc'[q] \in {"empty fragment", "write fragment"} =>
          pc[q] \in {"empty fragment", "write fragment"}
    BY <1>1, <1>2
  <2> QED BY <1>1, <1>4, <2>1 DEF Inv, Backed
<1>6. ASSUME NEW d \in Dirs PROVE Fitting(d)'
  <2>1. Whole(d)' = Whole(d) /\ (Met(d)' <=> Met(d))
    BY <1>1 DEF Whole, Met
  <2>2. ASSUME ~Met(d) PROVE Merges(Whole(d))
    BY <2>2 DEF Inv, Fitting
  <2>3. ASSUME ~Met(d), NEW q \in Procs, Cwd(q) = d, pc'[q] \in Judged
        PROVE  Merges([Whole(d) EXCEPT ![Name(q)] = Wanted(q)])
    <3>1. CASE pc[q] \in Judged
      BY <2>3, <3>1 DEF Inv, Fitting
    <3>2. CASE pc[q] \notin Judged
      <4>1. q = p /\ pc'[p] = "conflicts"
        BY <1>1, <1>2, <2>3, <3>2 DEF Judged
      <4> QED BY <1>2, <2>3, <4>1, CommandType, PreflightIsWhole DEF Inv
    <3> QED BY <3>1, <3>2
  <2>4. Judged' = Judged
    BY DEF Judged
  <2> QED BY <1>4, <2>1, <2>2, <2>3, <2>4 DEF Fitting
<1> QED BY <1>3, <1>5, <1>6 DEF Inv

LEMMA RegisterStep ==
  ASSUME Inv, NEW p \in Procs, Register(p)
  PROVE  Inv'
<1> DEFINE d == Cwd(p)
           n == Name(p)
           f == Wanted(p)
<1>1. d \in Dirs /\ n \in Names
  BY CommandType DEF Inv
<1>2. /\ job' = job /\ overtaken \subseteq overtaken'
      /\ \A q \in Procs : q # p => pc'[q] = pc[q]
      /\ DOMAIN pc' = Procs
  BY DEF Register, Goes, To, Inv, Shaped
<1>3. pc[p] \in Judged /\ ((\E q \in Procs \ {p} : Cwd(q) = d /\ pc[q] \in Judged)
                            => Met(d)')
  <2>1. pc[p] \in Judged
    BY DEF Register, Goes, At, Judged
  <2>2. overtaken' = overtaken \cup
          IF \E q \in Procs \ {p} : Cwd(q) = d /\ pc[q] \in Judged
            THEN {<<"tenants", d>>} ELSE {}
    BY DEF Register, Judged
  <2>3. Cwd(p)' = Cwd(p)
    BY <1>2 DEF Cwd
  <2>4. (\E q \in Procs \ {p} : Cwd(q) = d /\ pc[q] \in Judged)
          => <<"tenants", d>> \in overtaken'
    BY <2>2
  <2> QED BY <2>1, <2>3, <2>4 DEF Met
<1>4. \/ /\ pc'[p] = "empty fragment"
         /\ project' = project \cup {<<d, n>>} /\ tenants' = tenants
      \/ /\ pc[p] = "empty fragment" /\ pc'[p] = "write fragment"
         /\ tenants' = [tenants EXCEPT ![d][n] = Cut] /\ project' = project
      \/ /\ pc[p] = "write fragment" /\ pc'[p] = "substrate"
         /\ tenants' = [tenants EXCEPT ![d][n] = f] /\ project' = project
  BY DEF Register, Goes, At, To, Wanted, Inv, Shaped
<1>5. /\ d' = d /\ n' = n /\ f' = f
      /\ \A q \in Procs : /\ Cwd(q)' = Cwd(q) /\ Name(q)' = Name(q)
                          /\ Wanted(q)' = Wanted(q)
  BY <1>2 DEF Cwd, Name, Wanted
<1> HIDE DEF d, n, f
<1>6. /\ DOMAIN tenants = Dirs /\ DOMAIN tenants' = Dirs
      /\ \A e \in Dirs : /\ DOMAIN tenants[e] = Names /\ DOMAIN tenants'[e] = Names
                         /\ e # d => tenants'[e] = tenants[e]
      /\ \A k \in Names : k # n => tenants'[d][k] = tenants[d][k]
  BY <1>1, <1>4 DEF Inv, Shaped
<1>7. Shaped'
  BY <1>2, <1>6 DEF Inv, Shaped
<1>8. Backed'
  <2>1. <<d, n>> \in project' /\ project \subseteq project'
    BY <1>4 DEF Inv, Backed, d, n
  <2>2. ASSUME NEW e \in Dirs, NEW k \in Present(tenants'[e])
        PROVE  <<e, k>> \in project'
    <3>1. CASE e = d /\ k = n
      BY <2>1, <3>1
    <3>2. CASE ~(e = d /\ k = n)
      <4>1. k \in Names /\ tenants'[e][k] = tenants[e][k] /\ tenants'[e][k] # NoFile
        BY <1>6, <2>2, <3>2 DEF Present
      <4>2. k \in Present(tenants[e])
        BY <1>6, <4>1 DEF Present
      <4> QED BY <2>1, <4>2 DEF Inv, Backed
    <3> QED BY <3>1, <3>2
  <2>3. ASSUME NEW q \in Procs, pc'[q] \in {"empty fragment", "write fragment"}
        PROVE  <<Cwd(q), Name(q)>> \in project'
    <3>1. CASE q = p
      BY <2>1, <3>1 DEF d, n
    <3>2. CASE q # p
      BY <1>2, <2>1, <2>3, <3>2 DEF Inv, Backed
    <3> QED BY <3>1, <3>2
  <2> QED BY <1>5, <2>2, <2>3 DEF Backed
<1>9. ASSUME NEW e \in Dirs PROVE Fitting(e)'
  <2>0. Judged' = Judged /\ (Met(e) => Met(e)')
    BY <1>2 DEF Judged, Met
  <2>1. CASE e # d
    <3>1. Whole(e)' = Whole(e)
      BY <1>6, <2>1 DEF Whole
    <3>2. \A q \in Procs : Cwd(q) = e => pc'[q] = pc[q]
      BY <1>2, <2>1 DEF d
    <3> QED BY <1>5, <2>0, <3>1, <3>2 DEF Inv, Fitting
  <2>2. CASE e = d /\ ~Met(e)'
    <3> DEFINE W == Whole(d)
               V == Whole(d)'
    <3>1. Merges(W) /\ Merges([W EXCEPT ![n] = f])
      BY <1>1, <1>3, <2>0, <2>2 DEF Inv, Fitting, d, n, f
    <3>2. ~\E q \in Procs \ {p} : Cwd(q) = d /\ pc[q] \in Judged
      BY <1>3, <1>5, <2>2 DEF Met
    <3>3. /\ DOMAIN W = Names /\ DOMAIN V = Names
          /\ \A k \in Names : k # n => V[k] = W[k]
      <4>1. V = [k \in Names |-> IF tenants'[d][k] = Cut THEN NoFile ELSE tenants'[d][k]]
        BY <1>5 DEF Whole, Cut, NoFile
      <4> QED BY <1>1, <1>6, <4>1 DEF Whole
    <3>4. tenants' # tenants => V[n] = IF tenants'[d][n] = Cut THEN NoFile
                                                            ELSE tenants'[d][n]
      BY <1>1, <1>5 DEF Whole, Cut, NoFile
    <3>5. f # Cut
      <4>1. n \in DOMAIN W
        BY <1>1, <3>3
      <4> HIDE DEF W
      <4> QED BY <3>1, <4>1, MergesAreWhole
    <3>6. ASSUME NEW x, \A k \in Names : k # n => x[k] = W[k], DOMAIN x = Names,
                 x[n] = NoFile \/ x[n] = f
          PROVE  Merges(x)
      <4> DEFINE gs == [W EXCEPT ![n] = f]
      <4>1. DOMAIN gs = Names /\ \A k \in Names : gs[k] = IF k = n THEN f ELSE W[k]
        BY <1>1, <3>3
      <4> HIDE DEF gs, W
      <4>2. \A k \in DOMAIN x : x[k] = gs[k] \/ x[k] = NoFile
        BY <3>6, <4>1
      <4> QED BY <3>1, <3>6, <4>1, <4>2, MergesWithout DEF gs
    <3>7. Merges(V)
      <4>1. CASE tenants' = tenants
        <5>1. V = W
          BY <1>5, <4>1 DEF Whole, Cut, NoFile
        <5> QED BY <3>1, <5>1
      <4>2. CASE tenants' = [tenants EXCEPT ![d][n] = Cut]
        <5>1. tenants'[d][n] = Cut
          BY <1>1, <1>6, <4>2
        <5>2. V[n] = NoFile
          BY <1>1, <1>5, <5>1 DEF Whole, Cut, NoFile
        <5> HIDE DEF V, W
        <5> QED BY <3>3, <3>6, <5>2
      <4>3. CASE tenants' = [tenants EXCEPT ![d][n] = f]
        <5>1. tenants'[d][n] = f
          BY <1>1, <1>6, <4>3
        <5>2. V[n] = f
          BY <1>1, <1>5, <3>5, <5>1 DEF Whole, Cut, NoFile
        <5> HIDE DEF V, W
        <5> QED BY <3>3, <3>6, <5>2
      <4> QED BY <1>4, <4>1, <4>2, <4>3
    <3>8. Merges([V EXCEPT ![n] = f])
      <4> DEFINE gs == [V EXCEPT ![n] = f]
      <4>1. DOMAIN gs = Names /\ gs[n] = f /\ \A k \in Names : k # n => gs[k] = W[k]
        BY <1>1, <3>3
      <4> HIDE DEF gs, V, W
      <4> QED BY <3>6, <4>1 DEF gs
    <3>9. ASSUME NEW q \in Procs, Cwd(q) = d, pc'[q] \in Judged PROVE q = p
      BY <1>2, <3>2, <3>9
    <3> HIDE DEF V, W
    <3>10. \A q \in Procs : Cwd(q) = d /\ pc'[q] \in Judged =>
             Name(q) = n /\ Wanted(q) = f
      BY <3>9 DEF n, f
    <3> QED BY <1>5, <2>0, <2>2, <3>7, <3>8, <3>10 DEF Fitting, V
  <2>3. CASE e = d /\ Met(e)'
    BY <2>3 DEF Fitting
  <2> QED BY <2>1, <2>2, <2>3
<1> QED BY <1>7, <1>8, <1>9 DEF Inv

(* A registration never breaks the ones that were there, but for one cut   *)
(* off and for two at once; and each names a project whose files were      *)
(* written before it (runInit, Preflight, mergeSources).                   *)
THEOREM RegistrationsMerge == Spec => []TenantsMerge
<1>1. Init => Inv
  <2> SUFFICES ASSUME Init PROVE Inv
    OBVIOUS
  <2>1. PICK s \in Starts : /\ tenants = AtTop(s.tenants, [n \in Names |-> NoFile])
                            /\ project = {Top} \X s.projects
    BY DEF Init
  <2>2. /\ DOMAIN s.tenants = Names /\ Merges(s.tenants)
        /\ Present(s.tenants) \subseteq s.projects
    BY RepositoryAssumption
  <2>3. /\ DOMAIN tenants = Dirs
        /\ \A d \in Dirs : tenants[d] = IF d = Top THEN s.tenants
                                         ELSE [n \in Names |-> NoFile]
    BY <2>1 DEF AtTop
  <2>4. Shaped
    BY <2>2, <2>3, RepositoryAssumption DEF Init, Shaped
  <2>5. \A p \in Procs : pc[p] = "start"
    BY DEF Init
  <2>6. Backed
    <3>1. ASSUME NEW d \in Dirs, NEW n \in Present(tenants[d])
          PROVE  <<d, n>> \in project
      <4>1. CASE d = Top
        BY <2>1, <2>2, <2>3, <4>1
      <4>2. CASE d # Top
        BY <2>3, <4>2 DEF Present
      <4> QED BY <4>1, <4>2
    <3> QED BY <2>5, <3>1 DEF Backed
  <2>7. ASSUME NEW d \in Dirs PROVE Fitting(d)
    <3>1. DOMAIN Whole(d) = Names
      BY DEF Whole
    <3>2. \A n \in Names : Whole(d)[n] = s.tenants[n] \/ Whole(d)[n] = NoFile
      BY <2>3 DEF Whole
    <3>3. Merges(Whole(d))
      BY <2>2, <3>1, <3>2, MergesWithout
    <3> QED BY <2>5, <3>3 DEF Fitting, Judged
  <2> QED BY <2>4, <2>6, <2>7 DEF Inv
<1>2. Inv /\ [Next]_vars => Inv'
  BY StepKinds, AsideStep, JudgeStep, RegisterStep DEF Inv
<1>3. Inv => TenantsMerge
  BY DEF Inv, Backed, Fitting, Met, Whole, TenantsMerge
<1> QED BY <1>1, <1>2, <1>3, PTL DEF Spec

-----------------------------------------------------------------------------
(* Types of the host configuration and of .npmrc                           *)

Lines == Foreign \cup {"own", "blank"}
Reading == {"empty config", "write config"}
NpmOpen == {"empty npmrc", "write npmrc"}

Lasts ==
  [Dirs -> [config : Procs \cup {"user"}, witness : Procs \cup {"user"}]]

Typed ==
  /\ job \in [Procs -> CommandLines] /\ DOMAIN pc = Procs /\ DOMAIN read = Procs
  /\ config \in [Dirs -> Configs] /\ npmrc \in NpmFiles
  /\ DOMAIN witness = Dirs /\ DOMAIN bridge = Dirs
  /\ plugin \in [Dirs -> Plugins]
  /\ last \in Lasts
  /\ DOMAIN users.entries = Dirs /\ DOMAIN users = {"entries", "lines"}
  /\ \A p \in Procs : /\ pc[p] \in Reading => read[p] \in Configs
                      /\ pc[p] \in NpmOpen => read[p] \in NpmFiles

LEMMA BareType == Bare("truncated") \in Configs /\ Bare("absent") \in Configs
<1>1. <<>> \in Seq(Entries)
  BY EmptySeq
<1> QED BY <1>1 DEF Bare, Configs

LEMMA MergeType ==
  ASSUME NEW c \in Configs
  PROVE  /\ ForeignOf(c) \in Seq(Entries \ Marked)
         /\ Merge(c) \in Configs
<1>1. c.entries \in Seq(Entries)
  BY DEF Configs
<1>2. ForeignOf(c) \in Seq(Entries \ Marked)
  BY <1>1, WithoutType DEF ForeignOf
<1>3. ForeignOf(c) \in Seq(Entries)
  BY <1>2, SeqMonotonic
<1>4. "canonical" \in Entries
  BY DEF Entries, Marked
<1>5. Append(ForeignOf(c), "canonical") \in Seq(Entries)
  BY <1>3, <1>4
<1> QED BY <1>2, <1>5 DEF Merge, Listed, Configs

LEMMA NpmTypes ==
  ASSUME NEW lines \in Seq(Lines)
  PROVE  Upsert(lines) \in NpmFiles /\ Reverted(lines) \in NpmFiles
<1>1. /\ UsersLines(lines) \in Seq(Lines \ {"own", "blank"})
      /\ Without(lines, {"own"}) \in Seq(Lines \ {"own"})
  BY WithoutType DEF UsersLines
<1>2. UsersLines(lines) \in Seq(Lines) /\ Without(lines, {"own"}) \in Seq(Lines)
  BY <1>1, SeqMonotonic
<1>3. "own" \in Lines /\ "blank" \in Lines
  BY DEF Lines
<1>4. Append(UsersLines(lines), "own") \in Seq(Lines) /\ <<"blank">> \in Seq(Lines)
  BY <1>2, <1>3
<1>5. NpmFiles = [there : BOOLEAN, lines : Seq(Lines)]
  BY DEF NpmFiles, Lines
<1> QED BY <1>2, <1>4, <1>5 DEF Upsert, Reverted

LEMMA TypedInit == Init => Typed
<1> SUFFICES ASSUME Init PROVE Typed
  OBVIOUS
<1>1. PICK s \in Starts :
        /\ config = AtTop(s.config, Bare("absent"))
        /\ witness = AtTop(s.witness, "absent")
        /\ bridge = AtTop(s.bridge, "absent")
        /\ plugin = AtTop(s.plugin, [code |-> "absent", manifest |-> "absent"])
        /\ npmrc = s.npmrc
        /\ users = [entries |-> AtTop(ForeignOf(s.config), <<>>),
                    lines |-> UsersLines(s.npmrc.lines)]
  BY DEF Init
<1>2. s.config \in Configs /\ s.npmrc \in NpmFiles /\ s.plugin \in Plugins
  BY RepositoryAssumption
<1>3. config \in [Dirs -> Configs]
  BY <1>1, <1>2, BareType DEF AtTop
<1>4. plugin \in [Dirs -> Plugins]
  <2>1. [code |-> "absent", manifest |-> "absent"] \in Plugins
    BY DEF Plugins
  <2> QED BY <1>1, <1>2, <2>1 DEF AtTop
<1>5. /\ DOMAIN witness = Dirs /\ DOMAIN bridge = Dirs
      /\ DOMAIN users.entries = Dirs /\ DOMAIN users = {"entries", "lines"}
  BY <1>1 DEF AtTop
<1>6. job \in [Procs -> CommandLines] /\ DOMAIN pc = Procs /\ DOMAIN read = Procs
  <2>1. Jobs \subseteq CommandLines /\ job \in [Procs -> Jobs]
    BY RepositoryAssumption DEF Init
  <2>2. DOMAIN pc = Procs /\ DOMAIN read = Procs
    BY DEF Init
  <2> HIDE DEF CommandLines
  <2>3. job \in [Procs -> CommandLines]
    BY <2>1
  <2> QED BY <2>2, <2>3
<1>8. last \in Lasts
  BY DEF Init, Lasts
<1>7. \A p \in Procs : pc[p] = "start"
  BY DEF Init
<1> QED BY <1>1, <1>2, <1>3, <1>4, <1>5, <1>6, <1>7, <1>8
       DEF Typed, Reading, NpmOpen

LEMMA RootDir ==
  ASSUME Typed, NEW p \in Procs
  PROVE  Root(p) \in Dirs /\ Cwd(p) \in Dirs
BY DEF Typed, Root, Cwd, CommandLines

(* What a process read it keeps until it wrote it.                         *)
Holds(p) ==
  /\ pc' = [pc EXCEPT ![p] = pc'[p]]
  /\ \/ pc'[p] \notin Reading \cup NpmOpen
     \/ pc[p] \in Reading /\ pc'[p] \in Reading
     \/ pc[p] \in NpmOpen /\ pc'[p] \in NpmOpen

LEMMA ReadKept ==
  ASSUME Typed, UNCHANGED read, UNCHANGED pc \/ \E p \in Procs : Holds(p)
  PROVE  /\ DOMAIN pc' = Procs /\ DOMAIN read' = Procs
         /\ \A p \in Procs : /\ pc'[p] \in Reading => read'[p] \in Configs
                             /\ pc'[p] \in NpmOpen => read'[p] \in NpmFiles
BY DEF Typed, Reading, NpmOpen, Holds

LEMMA LastType ==
  ASSUME Typed, NEW d \in Dirs, NEW who \in Procs \cup {"user"}
  PROVE  /\ [last EXCEPT ![d].config = who] \in Lasts
         /\ [last EXCEPT ![d].witness = who] \in Lasts
<1>1. last \in Lasts
  BY DEF Typed
<1> QED BY <1>1 DEF Lasts

LEMMA TypedStep == Typed /\ [Next]_vars => Typed'
<1> SUFFICES ASSUME Typed, [Next]_vars PROVE Typed'
  OBVIOUS
<1> USE DEF tenancy, hosted, user
<1> DEFINE ReadTyped == /\ DOMAIN pc' = Procs /\ DOMAIN read' = Procs
                        /\ \A q \in Procs :
                             /\ pc'[q] \in Reading => read'[q] \in Configs
                             /\ pc'[q] \in NpmOpen => read'[q] \in NpmFiles
<1>0. ASSUME UNCHANGED <<job, config, npmrc, witness, bridge, plugin, last, users>>,
             ReadTyped
      PROVE  Typed'
  BY <1>0 DEF Typed, Reading, NpmOpen
<1>1. ASSUME NEW p \in Procs, StartHost(p) PROVE Typed'
  <2> DEFINE r == RootOf(Cwd(p), Top, Owned, boundary)
  <2>1. r \in Dirs
    BY RootDir, RootType
  <2>2. job' = [job EXCEPT ![p].root = r]
    BY <1>1 DEF StartHost
  <2> HIDE DEF r
  <2>3. job \in [Procs -> CommandLines]
    BY DEF Typed
  <2>5. job' \in [Procs -> CommandLines]
    BY <2>1, <2>2, <2>3 DEF CommandLines
  <2>a. Holds(p) /\ UNCHANGED read
    BY <1>1 DEF StartHost, Goes, To, Reading, NpmOpen, Holds, Typed
  <2>4. ReadTyped
    BY <2>a, ReadKept
  <2> QED BY <1>1, <2>4, <2>5 DEF StartHost, Typed, Reading, NpmOpen
<1>2. ASSUME NEW p \in Procs, Substrate(p) \/ Gate(p) \/ Inspect(p) PROVE Typed'
  <2>a. Holds(p)
    BY <1>2 DEF Substrate, Ensure, Gate, Inspect, Goes, To, Reading, NpmOpen, Holds, Typed
  <2>b. UNCHANGED read
    BY <1>2 DEF Substrate, Gate, Inspect
  <2>1. ReadTyped
    BY <2>a, <2>b, ReadKept
  <2> QED BY <1>0, <1>2, <2>1 DEF Substrate, Gate, Inspect
<1>3. ASSUME NEW p \in Procs, WriteBridge(p) PROVE Typed'
  <2>a. Holds(p)
    BY <1>3 DEF WriteBridge, Goes, To, Reading, NpmOpen, Holds, Typed
  <2>b. UNCHANGED read
    BY <1>3 DEF WriteBridge
  <2>1. ReadTyped
    BY <2>a, <2>b, ReadKept
  <2>2. DOMAIN bridge' = Dirs
    BY <1>3 DEF WriteBridge, Typed
  <2> QED BY <1>3, <2>1, <2>2 DEF WriteBridge, Typed, Reading, NpmOpen
<1>4. ASSUME NEW p \in Procs, ReadConfig(p) PROVE Typed'
  <2> DEFINE c == config[Root(p)]
  <2>1. CASE Refused(c)
    <3>1. Holds(p) /\ UNCHANGED read
      BY <1>4, <2>1 DEF ReadConfig, Goes, To, Holds, Reading, NpmOpen, Typed
    <3>2. ReadTyped
      BY <3>1, ReadKept
    <3> QED BY <1>0, <1>4, <3>2 DEF ReadConfig
  <2>2. CASE ~Refused(c)
    <3>1. /\ pc' = [pc EXCEPT ![p] = "empty config"]
          /\ read' = [read EXCEPT ![p] = Merge(c)]
      BY <1>4, <2>2 DEF ReadConfig, Goes, To
    <3>2. Merge(c) \in Configs
      BY RootDir, MergeType DEF Typed
    <3> HIDE DEF c
    <3>3. ReadTyped
      BY <3>1, <3>2 DEF Typed, Reading, NpmOpen
    <3> QED BY <1>0, <1>4, <3>3 DEF ReadConfig
  <2> QED BY <2>1, <2>2
<1>5. ASSUME NEW p \in Procs, WriteConfig(p) PROVE Typed'
  <2>a. Holds(p)
    BY <1>5 DEF WriteConfig, Goes, At, To, Reading, NpmOpen, Holds, Typed
  <2>b. UNCHANGED read
    BY <1>5 DEF WriteConfig
  <2>1. ReadTyped
    BY <2>a, <2>b, ReadKept
  <2>2. config' = [config EXCEPT ![Root(p)] = Bare("truncated")]
          \/ (pc[p] = "write config" /\ config' = [config EXCEPT ![Root(p)] = read[p]])
    BY <1>5 DEF WriteConfig, Goes, At
  <2>3. config' \in [Dirs -> Configs]
    BY <2>2, RootDir, BareType DEF Typed, Reading
  <2> DEFINE who == IF At(p, "empty config") THEN p ELSE last[Root(p)].config
  <2>4. who \in Procs \cup {"user"}
    BY RootDir DEF Typed, Lasts
  <2>5. last' = [last EXCEPT ![Root(p)].config = who]
    BY <1>5 DEF WriteConfig
  <2> HIDE DEF who
  <2>6. last' \in Lasts
    BY <2>4, <2>5, RootDir, LastType
  <2> QED BY <1>5, <2>1, <2>3, <2>6 DEF WriteConfig, Typed, Reading, NpmOpen
<1>6. ASSUME NEW p \in Procs, WriteWitness(p) PROVE Typed'
  <2>a. Holds(p)
    BY <1>6 DEF WriteWitness, Goes, To, Reading, NpmOpen, Holds, Typed
  <2>b. UNCHANGED read
    BY <1>6 DEF WriteWitness
  <2>1. ReadTyped
    BY <2>a, <2>b, ReadKept
  <2>2. DOMAIN witness' = Dirs
    BY <1>6 DEF WriteWitness, Typed
  <2>3. last' \in Lasts
    BY <1>6, RootDir, LastType DEF WriteWitness
  <2> QED BY <1>6, <2>1, <2>2, <2>3 DEF WriteWitness, Typed, Reading, NpmOpen
<1>7. ASSUME NEW p \in Procs, NEW file \in {"code", "manifest"},
             NEW content \in {"truncated", "own"}, WritePlugin(p, file, content)
      PROVE  Typed'
  <2>a. Holds(p)
    BY <1>7 DEF WritePlugin, Goes, To, Reading, NpmOpen, Holds, Typed
  <2>b. UNCHANGED read
    BY <1>7 DEF WritePlugin
  <2>1. ReadTyped
    BY <2>a, <2>b, ReadKept
  <2>2. [plugin[Root(p)] EXCEPT ![file] = content] \in Plugins
    <3>1. plugin[Root(p)] \in Plugins
      BY RootDir DEF Typed
    <3> QED BY <3>1 DEF Plugins
  <2>3. plugin' \in [Dirs -> Plugins]
    BY <1>7, <2>2, RootDir DEF WritePlugin, Typed
  <2> QED BY <1>7, <2>1, <2>3 DEF WritePlugin, Typed, Reading, NpmOpen
<1>8. ASSUME NEW p \in Procs, Registering(p) \/ Conflicts(p) \/ Register(p)
      PROVE  Typed'
  <2>a. Holds(p)
    BY <1>8 DEF Registering, Conflicts, Register, Goes, To, Reading, NpmOpen, Holds, Typed
  <2>b. UNCHANGED read
    BY <1>8 DEF Registering, Conflicts, Register
  <2>1. ReadTyped
    BY <2>a, <2>b, ReadKept
  <2> QED BY <1>0, <1>8, <2>1 DEF Registering, Conflicts, Register
<1>9. ASSUME NEW p \in Procs, ReadNpm(p) PROVE Typed'
  <2>1. npmrc.lines \in Seq(Lines)
    BY DEF Typed, NpmFiles, Lines
  <2>2. PICK f : /\ f \in NpmFiles /\ read' = [read EXCEPT ![p] = f]
                 /\ pc' = [pc EXCEPT ![p] = "empty npmrc"]
                      \/ pc' = [pc EXCEPT ![p] = "write npmrc"]
    BY <1>9, <2>1, NpmTypes DEF ReadNpm, Goes, To
  <2>3. ReadTyped
    BY <2>2 DEF Typed, Reading, NpmOpen
  <2> QED BY <1>0, <1>9, <2>3 DEF ReadNpm
<1>10. ASSUME NEW p \in Procs, WriteNpm(p) PROVE Typed'
  <2>a. Holds(p)
    BY <1>10 DEF WriteNpm, Goes, At, To, Reading, NpmOpen, Holds, Typed
  <2>b. UNCHANGED read
    BY <1>10 DEF WriteNpm
  <2>1. ReadTyped
    BY <2>a, <2>b, ReadKept
  <2>2. [there |-> TRUE, lines |-> <<"blank">>] \in NpmFiles
    BY DEF NpmFiles
  <2>3. npmrc' \in NpmFiles
    BY <1>10, <2>2 DEF WriteNpm, Goes, At, Typed, NpmOpen
  <2> QED BY <1>10, <2>1, <2>3 DEF WriteNpm, Typed, Reading, NpmOpen
<1>11. ASSUME NEW p \in Procs, Stop(p) PROVE Typed'
  <2>a. Holds(p)
    BY <1>11 DEF Stop, To, Reading, NpmOpen, Holds, Typed
  <2>b. UNCHANGED read
    BY <1>11 DEF Stop
  <2>1. ReadTyped
    BY <2>a, <2>b, ReadKept
  <2> QED BY <1>0, <1>11, <2>1 DEF Stop
<1>12. ASSUME NEW d \in Dirs, NEW c \in UserConfigs, Save(d, c) PROVE Typed'
  <2>1. ReadTyped
    BY <1>12, ReadKept DEF Save
  <2>2. config' \in [Dirs -> Configs]
    <3>1. c \in Configs /\ config \in [Dirs -> Configs]
      BY RepositoryAssumption DEF Typed
    <3> QED BY <1>12, <3>1 DEF Save
  <2>3. last' \in Lasts
    BY <1>12, LastType DEF Save
  <2>4. DOMAIN users'.entries = Dirs /\ DOMAIN users' = {"entries", "lines"}
    BY <1>12 DEF Save, Typed
  <2> QED BY <1>12, <2>1, <2>2, <2>3, <2>4 DEF Save, Typed, Reading, NpmOpen
<1>13. CASE UNCHANGED vars
  <2>1. ReadTyped
    BY <1>13, ReadKept DEF vars
  <2> QED BY <1>0, <1>13, <2>1 DEF vars
<1> QED BY <1>1, <1>2, <1>3, <1>4, <1>5, <1>6, <1>7, <1>8, <1>9, <1>10, <1>11,
           <1>12, <1>13 DEF Next

-----------------------------------------------------------------------------
(* What is not Pitot's                                                     *)

(* While no save came between, the file and whoever is about to write it   *)
(* hold the foreign entries last saved.                                    *)
EntriesKept(d) ==
  \/ <<"config", d>> \in overtaken
  \/ /\ config[d].state # "truncated" => ForeignOf(config[d]) = users.entries[d]
     /\ \A p \in Procs : Root(p) = d /\ pc[p] \in Reading =>
          ForeignOf(read[p]) = users.entries[d]

LinesKept ==
  \/ <<"npmrc", Top>> \in overtaken
  \/ /\ \/ \E p \in Procs : At(p, "write npmrc")
        \/ UsersLines(npmrc.lines) = users.lines
     /\ \A p \in Procs : pc[p] \in NpmOpen =>
          UsersLines(read[p].lines) = users.lines

KeptInv == Typed /\ LinesKept /\ \A d \in Dirs : EntriesKept(d)

(* Wiring, installing and reverting lose nothing foreign.                  *)
LEMMA MergeKeeps ==
  ASSUME NEW c \in Configs
  PROVE  ForeignOf(Merge(c)) = ForeignOf(c)
<1>1. c.entries \in Seq(Entries)
  BY DEF Configs
<1>2. /\ ForeignOf(c) \in Seq(Entries \ Marked)
      /\ Entries \ Marked \subseteq Entries
  BY MergeType
<1>3. ForeignOf(c) \in Seq(Entries)
  BY <1>2, SeqMonotonic
<1>4. "canonical" \in Entries /\ "canonical" \in Marked
  BY DEF Entries, Marked
<1>5. Without(Append(ForeignOf(c), "canonical"), Marked) = Without(ForeignOf(c), Marked)
  BY <1>3, <1>4, WithoutAppend
<1>6. Without(Without(c.entries, Marked), Marked) = Without(c.entries, Marked)
  BY <1>1, WithoutTwice
<1>7. Merge(c).entries = Append(ForeignOf(c), "canonical")
  BY DEF Merge, Listed
<1> QED BY <1>5, <1>6, <1>7 DEF ForeignOf

LEMMA NpmKeeps ==
  ASSUME NEW lines \in Seq(Lines)
  PROVE  /\ UsersLines(Upsert(lines).lines) = UsersLines(lines)
         /\ UsersLines(Reverted(lines).lines) = UsersLines(lines)
<1> DEFINE U == {"own", "blank"}
           O == {"own"}
<1>1. /\ Without(lines, U) \in Seq(Lines \ U) /\ Lines \ U \subseteq Lines
      /\ "own" \in Lines /\ "blank" \in Lines
  BY WithoutType DEF Lines
<1>2. Without(lines, U) \in Seq(Lines)
  BY <1>1, SeqMonotonic
<1>3. Without(Append(Without(lines, U), "own"), U) = Without(Without(lines, U), U)
  BY <1>1, <1>2, WithoutAppend
<1>4. Without(Without(lines, U), U) = Without(lines, U)
  BY WithoutTwice
<1>5. Without(Without(lines, O), U) = Without(lines, U)
  BY WithoutTwice
<1>6. Without(<<"blank">>, U) = <<>>
  <2>1. /\ <<>> \in Seq(Lines) /\ Append(<<>>, "blank") = <<"blank">>
        /\ "blank" \in Lines /\ "blank" \in U
    BY <1>1, EmptySeq
  <2> HIDE DEF U
  <2> DEFINE none == <<>>
  <2>2. none \in Seq(Lines)
    BY <2>1
  <2> HIDE DEF none
  <2>3. Without(Append(none, "blank"), U) = Without(none, U)
    BY <2>1, <2>2, WithoutAppend
  <2> QED BY <2>1, <2>3, WithoutEmpty DEF none
<1>7. Upsert(lines).lines = Append(Without(lines, U), "own")
  BY DEF Upsert, UsersLines
<1>8. Reverted(lines).lines = IF Without(lines, O) = <<>> THEN <<"blank">>
                                                         ELSE Without(lines, O)
  BY DEF Reverted
<1>9. UsersLines(Reverted(lines).lines) = Without(lines, U)
  <2>1. CASE Without(lines, O) = <<>>
    BY <2>1, <1>5, <1>6, <1>8, WithoutEmpty DEF UsersLines
  <2>2. CASE Without(lines, O) # <<>>
    BY <2>2, <1>5, <1>8 DEF UsersLines
  <2> QED BY <2>1, <2>2
<1> QED BY <1>3, <1>4, <1>7, <1>9 DEF UsersLines

(* A step that leaves the file and the readers of it alone.                *)
LEMMA EntriesCalm ==
  ASSUME NEW d \in Dirs, EntriesKept(d), UNCHANGED <<config, users>>,
         overtaken \subseteq overtaken',
         \A q \in Procs : pc'[q] \in Reading =>
           pc[q] \in Reading /\ Root(q)' = Root(q) /\ read'[q] = read[q]
  PROVE  EntriesKept(d)'
BY DEF EntriesKept

LEMMA LinesCalm ==
  ASSUME LinesKept, UNCHANGED npmrc, users'.lines = users.lines,
         overtaken \subseteq overtaken',
         \A q \in Procs : pc'[q] \in NpmOpen =>
           pc[q] \in NpmOpen /\ read'[q] = read[q],
         \A q \in Procs : At(q, "write npmrc") =>
           At(q, "write npmrc")' \/ <<"npmrc", Top>> \in overtaken'
  PROVE  LinesKept'
BY DEF LinesKept

(* What a step does to the places of the readers.                          *)
Elsewhere(p) ==
  /\ pc' = [pc EXCEPT ![p] = pc'[p]]
  /\ pc'[p] \notin Reading \cup NpmOpen
  /\ pc[p] # "write npmrc" \/ <<"npmrc", Top>> \in overtaken'

LEMMA AwayStep ==
  ASSUME KeptInv, NEW p \in Procs, Elsewhere(p),
         UNCHANGED <<config, users, npmrc, read>>, overtaken \subseteq overtaken',
         job' = [job EXCEPT ![p] = job'[p]]
  PROVE  LinesKept' /\ \A d \in Dirs : EntriesKept(d)'
<1>1. \A q \in Procs : q # p => pc'[q] = pc[q] /\ job'[q] = job[q]
  BY DEF Elsewhere, KeptInv, Typed
<1>2. \A q \in Procs : pc'[q] \in Reading \cup NpmOpen => q # p /\ pc'[q] = pc[q]
  BY <1>1 DEF Elsewhere
<1>3. ASSUME NEW d \in Dirs PROVE EntriesKept(d)'
  <2>1. \A q \in Procs : pc'[q] \in Reading =>
          pc[q] \in Reading /\ Root(q)' = Root(q) /\ read'[q] = read[q]
    BY <1>1, <1>2 DEF Root
  <2> QED BY <2>1, EntriesCalm DEF KeptInv
<1>4. LinesKept'
  <2>1. \A q \in Procs : At(q, "write npmrc") =>
          At(q, "write npmrc")' \/ <<"npmrc", Top>> \in overtaken'
    BY <1>1 DEF Elsewhere, At
  <2>2. \A q \in Procs : pc'[q] \in NpmOpen => pc[q] \in NpmOpen /\ read'[q] = read[q]
    BY <1>2
  <2> QED BY <2>1, <2>2, LinesCalm DEF KeptInv
<1> QED BY <1>3, <1>4

LEMMA KeptStep == KeptInv /\ [Next]_vars => KeptInv'
<1> SUFFICES ASSUME KeptInv, [Next]_vars
             PROVE  LinesKept' /\ \A d \in Dirs : EntriesKept(d)'
  BY TypedStep DEF KeptInv
<1> USE DEF tenancy, hosted, user
<1>0. Typed /\ LinesKept /\ (\A d \in Dirs : EntriesKept(d))
      /\ job \in [Procs -> CommandLines] /\ DOMAIN pc = Procs
      /\ DOMAIN read = Procs
  BY DEF KeptInv, Typed
<1> DEFINE Away(p) == /\ UNCHANGED <<config, users, npmrc, read>>
                      /\ overtaken \subseteq overtaken'
                      /\ job' = [job EXCEPT ![p] = job'[p]]
<1>1. ASSUME NEW p \in Procs, StartHost(p)
      PROVE  Elsewhere(p) /\ Away(p)
  BY <1>0, <1>1 DEF StartHost, Elsewhere, Goes, At, To, Reading, NpmOpen
<1>2. ASSUME NEW p \in Procs, Substrate(p) \/ Gate(p) \/ Inspect(p)
      PROVE  Elsewhere(p) /\ Away(p)
  BY <1>0, <1>2 DEF Substrate, Ensure, Gate, Inspect, Elsewhere, Goes, At, To, Reading, NpmOpen
<1>3. ASSUME NEW p \in Procs, WriteBridge(p) \/ WriteWitness(p)
      PROVE  Elsewhere(p) /\ Away(p)
  BY <1>0, <1>3 DEF WriteBridge, WriteWitness, Elsewhere, Goes, At, To, Reading, NpmOpen
<1>4. ASSUME NEW p \in Procs, NEW file \in {"code", "manifest"},
             NEW content \in {"truncated", "own"}, WritePlugin(p, file, content)
      PROVE  Elsewhere(p) /\ Away(p)
  BY <1>0, <1>4 DEF WritePlugin, Elsewhere, Goes, At, To, Reading, NpmOpen
<1>5. ASSUME NEW p \in Procs, Registering(p) \/ Conflicts(p) \/ Register(p)
      PROVE  Elsewhere(p) /\ Away(p)
  BY <1>0, <1>5 DEF Registering, Conflicts, Register, Elsewhere, Goes, At, To,
                    Reading, NpmOpen
<1>6. ASSUME NEW p \in Procs, Stop(p)
      PROVE  Elsewhere(p) /\ Away(p)
  BY <1>0, <1>6 DEF Stop, Elsewhere, At, To, Reading, NpmOpen
<1>7. ASSUME NEW p \in Procs, ReadConfig(p)
      PROVE  LinesKept' /\ \A d \in Dirs : EntriesKept(d)'
  <2> DEFINE c == config[Root(p)]
  <2>1. CASE Refused(c)
    <3>1. Elsewhere(p) /\ Away(p)
      BY <1>0, <1>7, <2>1 DEF ReadConfig, Elsewhere, Goes, At, To, Reading, NpmOpen
    <3> QED BY <3>1, AwayStep
  <2>2. CASE ~Refused(c)
    <3>1. /\ pc[p] = "read" /\ pc' = [pc EXCEPT ![p] = "empty config"]
          /\ read' = [read EXCEPT ![p] = Merge(c)]
      BY <1>7, <2>2 DEF ReadConfig, Goes, At, To
    <3>2. UNCHANGED <<config, users, npmrc, job, overtaken>>
      BY <1>7 DEF ReadConfig
    <3>3. c \in Configs /\ c.state # "truncated"
      BY <1>0, <2>2, RootDir DEF Typed, Refused, Unreadable
    <3>4. ForeignOf(Merge(c)) = ForeignOf(c)
      BY <3>3, MergeKeeps
    <3>5. ASSUME NEW d \in Dirs PROVE EntriesKept(d)'
      <4>1. CASE <<"config", d>> \in overtaken
        BY <3>2, <4>1 DEF EntriesKept
      <4>2. CASE <<"config", d>> \notin overtaken
        <5>1. /\ config[d].state # "truncated" => ForeignOf(config[d]) = users.entries[d]
              /\ \A q \in Procs : Root(q) = d /\ pc[q] \in Reading =>
                   ForeignOf(read[q]) = users.entries[d]
          BY <1>0, <4>2 DEF EntriesKept
        <5>2. ASSUME NEW q \in Procs, Root(q)' = d, pc'[q] \in Reading
              PROVE  ForeignOf(read'[q]) = users'.entries[d]
          <6>1. Root(q) = d
            BY <3>2, <5>2 DEF Root
          <6>2. CASE q = p
            <7>1. read'[p] = Merge(c)
              BY <1>0, <3>1
            <7>2. ForeignOf(c) = users.entries[d]
              BY <3>3, <5>1, <6>1, <6>2
            <7> HIDE DEF c
            <7> QED BY <3>2, <3>4, <6>2, <7>1, <7>2
          <6>3. CASE q # p
            <7>1. read'[q] = read[q] /\ pc'[q] = pc[q]
              BY <1>0, <3>1, <6>3
            <7> QED BY <3>2, <5>1, <5>2, <6>1, <7>1
          <6> QED BY <6>2, <6>3
        <5> QED BY <3>2, <5>1, <5>2 DEF EntriesKept
      <4> QED BY <4>1, <4>2
    <3>6. LinesKept'
      <4>1. \A q \in Procs : pc'[q] \in NpmOpen => pc[q] \in NpmOpen /\ read'[q] = read[q]
        BY <1>0, <3>1 DEF NpmOpen
      <4>2. \A q \in Procs : At(q, "write npmrc") => At(q, "write npmrc")'
        BY <1>0, <3>1 DEF At
      <4> QED BY <1>0, <3>2, <4>1, <4>2, LinesCalm
    <3> QED BY <3>5, <3>6
  <2> QED BY <2>1, <2>2
<1>8. ASSUME NEW p \in Procs, WriteConfig(p)
      PROVE  LinesKept' /\ \A d \in Dirs : EntriesKept(d)'
  <2>1. /\ UNCHANGED <<users, npmrc, read, job, overtaken>>
        /\ \/ /\ pc[p] = "empty config" /\ pc' = [pc EXCEPT ![p] = "write config"]
              /\ config' = [config EXCEPT ![Root(p)] = Bare("truncated")]
           \/ /\ pc[p] = "write config" /\ pc' = [pc EXCEPT ![p] = "empty witness"]
              /\ config' = [config EXCEPT ![Root(p)] = read[p]]
    BY <1>8 DEF WriteConfig, Goes, At, To
  <2>2. /\ pc[p] \in Reading
        /\ \A q \in Procs : pc'[q] \in Reading => pc[q] \in Reading
        /\ \A q \in Procs : pc'[q] \in NpmOpen => pc[q] \in NpmOpen
        /\ \A q \in Procs : At(q, "write npmrc") => At(q, "write npmrc")'
    BY <1>0, <2>1 DEF Reading, NpmOpen, At
  <2>3. LinesKept'
    BY <1>0, <2>1, <2>2, LinesCalm
  <2>4. ASSUME NEW d \in Dirs PROVE EntriesKept(d)'
    <3>1. CASE <<"config", d>> \in overtaken
      BY <2>1, <3>1 DEF EntriesKept
    <3>2. CASE <<"config", d>> \notin overtaken
      <4>1. /\ config[d].state # "truncated" => ForeignOf(config[d]) = users.entries[d]
            /\ \A q \in Procs : Root(q) = d /\ pc[q] \in Reading =>
                 ForeignOf(read[q]) = users.entries[d]
        BY <1>0, <3>2 DEF EntriesKept
      <4>2. \A q \in Procs : Root(q)' = d /\ pc'[q] \in Reading =>
              ForeignOf(read'[q]) = users'.entries[d]
        BY <2>1, <2>2, <4>1 DEF Root
      <4>3. config'[d].state # "truncated" => ForeignOf(config'[d]) = users'.entries[d]
        <5>1. config \in [Dirs -> Configs] /\ Bare("truncated").state = "truncated"
          BY <1>0 DEF Typed, Bare
        <5>2. CASE Root(p) # d
          <6>1. config'[d] = config[d]
            BY <2>1, <5>1, <5>2
          <6> QED BY <2>1, <4>1, <6>1
        <5>3. CASE Root(p) = d
          <6>1. config'[d] = Bare("truncated") \/ config'[d] = read[p]
            BY <2>1, <5>1, <5>3
          <6>2. ForeignOf(read[p]) = users.entries[d]
            BY <2>2, <4>1, <5>3
          <6> QED BY <2>1, <5>1, <6>1, <6>2
        <5> QED BY <5>2, <5>3
      <4> QED BY <4>2, <4>3 DEF EntriesKept
    <3> QED BY <3>1, <3>2
  <2> QED BY <2>3, <2>4
<1>9. ASSUME NEW p \in Procs, ReadNpm(p)
      PROVE  LinesKept' /\ \A d \in Dirs : EntriesKept(d)'
  <2> DEFINE f == read'[p]
  <2>1. npmrc.lines \in Seq(Lines)
    BY <1>0 DEF Typed, NpmFiles, Lines
  <2>2. UNCHANGED <<config, npmrc, job, users>> /\ overtaken \subseteq overtaken'
    BY <1>9 DEF ReadNpm
  <2>3. /\ pc[p] = "start"
        /\ \E place \in NpmOpen : pc' = [pc EXCEPT ![p] = place]
        /\ \/ read' = [read EXCEPT ![p] = Upsert(npmrc.lines)]
           \/ read' = [read EXCEPT ![p] = Reverted(npmrc.lines)]
    BY <1>9 DEF ReadNpm, Goes, At, To, NpmOpen
  <2>4. UsersLines(read'[p].lines) = UsersLines(npmrc.lines)
    BY <1>0, <2>1, <2>3, NpmKeeps
  <2>5. \A q \in Procs : q # p => pc'[q] = pc[q] /\ read'[q] = read[q]
    BY <1>0, <2>3
  <2>6. pc'[p] \notin Reading
    BY <1>0, <2>3 DEF Reading, NpmOpen
  <2>7. ASSUME NEW d \in Dirs PROVE EntriesKept(d)'
    <3>1. \A q \in Procs : pc'[q] \in Reading =>
            pc[q] \in Reading /\ Root(q)' = Root(q) /\ read'[q] = read[q]
      BY <2>2, <2>5, <2>6 DEF Root
    <3> QED BY <1>0, <2>2, <3>1, EntriesCalm
  <2>8. LinesKept'
    <3>1. CASE <<"npmrc", Top>> \in overtaken'
      BY <3>1 DEF LinesKept
    <3>2. CASE <<"npmrc", Top>> \notin overtaken'
      <4>1. \A q \in Procs : ~At(q, "write npmrc")
        BY <1>9, <3>2 DEF ReadNpm
      <4>2. <<"npmrc", Top>> \notin overtaken
        BY <2>2, <3>2
      <4>3. /\ UsersLines(npmrc.lines) = users.lines
            /\ \A q \in Procs : pc[q] \in NpmOpen =>
                 UsersLines(read[q].lines) = users.lines
        BY <1>0, <4>1, <4>2 DEF LinesKept
      <4>4. UsersLines(npmrc'.lines) = users'.lines
        BY <2>2, <4>3
      <4>5. ASSUME NEW q \in Procs, pc'[q] \in NpmOpen
            PROVE  UsersLines(read'[q].lines) = users'.lines
        <5>1. CASE q = p
          BY <2>2, <2>4, <4>3, <5>1
        <5>2. CASE q # p
          BY <2>2, <2>5, <4>3, <4>5, <5>2
        <5> QED BY <5>1, <5>2
      <4> QED BY <4>4, <4>5 DEF LinesKept
    <3> QED BY <3>1, <3>2
  <2> QED BY <2>7, <2>8
<1>10. ASSUME NEW p \in Procs, WriteNpm(p)
       PROVE  LinesKept' /\ \A d \in Dirs : EntriesKept(d)'
  <2>1. /\ UNCHANGED <<config, users, read, job, overtaken>>
        /\ \/ pc[p] = "empty npmrc" /\ pc' = [pc EXCEPT ![p] = "write npmrc"]
           \/ /\ pc[p] = "write npmrc" /\ pc' = [pc EXCEPT ![p] = "done"]
              /\ npmrc' = read[p]
    BY <1>10 DEF WriteNpm, Goes, At, To
  <2>2. /\ pc[p] \in NpmOpen
        /\ \A q \in Procs : pc'[q] \in Reading => pc[q] \in Reading
        /\ \A q \in Procs : pc'[q] \in NpmOpen => pc[q] \in NpmOpen
    BY <1>0, <2>1 DEF Reading, NpmOpen
  <2>3. ASSUME NEW d \in Dirs PROVE EntriesKept(d)'
    BY <1>0, <2>1, <2>2, EntriesCalm DEF Root
  <2>4. LinesKept'
    <3>1. CASE <<"npmrc", Top>> \in overtaken
      BY <2>1, <3>1 DEF LinesKept
    <3>2. CASE <<"npmrc", Top>> \notin overtaken
      <4>1. \A q \in Procs : pc[q] \in NpmOpen =>
              UsersLines(read[q].lines) = users.lines
        BY <1>0, <3>2 DEF LinesKept
      <4>2. \A q \in Procs : pc'[q] \in NpmOpen =>
              UsersLines(read'[q].lines) = users'.lines
        BY <2>1, <2>2, <4>1
      <4>3. CASE pc' = [pc EXCEPT ![p] = "write npmrc"]
        <5>1. At(p, "write npmrc")'
          BY <1>0, <4>3 DEF At
        <5> QED BY <4>2, <5>1 DEF LinesKept
      <4>4. CASE npmrc' = read[p]
        <5>1. UsersLines(npmrc'.lines) = users'.lines
          BY <2>1, <2>2, <4>1, <4>4
        <5> QED BY <4>2, <5>1 DEF LinesKept
      <4> QED BY <2>1, <4>3, <4>4
    <3> QED BY <3>1, <3>2
  <2> QED BY <2>3, <2>4
<1>11. ASSUME NEW e \in Dirs, NEW c \in UserConfigs, Save(e, c)
       PROVE  LinesKept' /\ \A d \in Dirs : EntriesKept(d)'
  <2>1. /\ UNCHANGED <<npmrc, pc, job, read>> /\ overtaken \subseteq overtaken'
        /\ config' = [config EXCEPT ![e] = c]
        /\ users' = [users EXCEPT !.entries[e] = ForeignOf(c)]
    BY <1>11 DEF Save
  <2>2. /\ users'.lines = users.lines
        /\ users'.entries = [users.entries EXCEPT ![e] = ForeignOf(c)]
    BY <1>0, <2>1 DEF Typed
  <2>3. LinesKept'
    BY <1>0, <2>1, <2>2, LinesCalm DEF At
  <2>4. ASSUME NEW d \in Dirs PROVE EntriesKept(d)'
    <3>1. CASE d # e
      <4>1. config'[d] = config[d] /\ users'.entries[d] = users.entries[d]
        BY <1>0, <2>1, <2>2, <3>1 DEF Typed
      <4> QED BY <1>0, <2>1, <4>1 DEF EntriesKept, Root
    <3>2. CASE d = e
      <4>1. config'[d] = c /\ users'.entries[d] = ForeignOf(c)
        BY <1>0, <2>1, <2>2, <3>2 DEF Typed
      <4>2. CASE \E p \in Procs : Root(p) = d /\ pc[p] \in Reading
        <5>1. <<"config", d>> \in overtaken'
          BY <1>11, <3>2, <4>2 DEF Save, Reading
        <5> QED BY <5>1 DEF EntriesKept
      <4>3. CASE \A p \in Procs : ~(Root(p) = d /\ pc[p] \in Reading)
        BY <2>1, <4>1, <4>3 DEF EntriesKept, Root
      <4> QED BY <4>2, <4>3
    <3> QED BY <3>1, <3>2
  <2> QED BY <2>3, <2>4
<1>12. CASE UNCHANGED vars
  <2>1. UNCHANGED <<config, users, npmrc, read, pc, job, overtaken>>
    BY <1>12 DEF vars
  <2>2. LinesKept'
    BY <1>0, <2>1, LinesCalm DEF At
  <2>3. ASSUME NEW d \in Dirs PROVE EntriesKept(d)'
    BY <1>0, <2>1, EntriesCalm DEF Root
  <2> QED BY <2>2, <2>3
<1>13. ASSUME NEW p \in Procs, Elsewhere(p) /\ Away(p)
       PROVE  LinesKept' /\ \A d \in Dirs : EntriesKept(d)'
  BY <1>13, AwayStep
<1> QED BY <1>1, <1>2, <1>3, <1>4, <1>5, <1>6, <1>7, <1>8, <1>9, <1>10, <1>11,
           <1>12, <1>13 DEF Next

(* What is not Pitot's stays: wiring keeps every foreign entry in its      *)
(* order unless a save came between its read and its write, and install    *)
(* and its revert keep every foreign line of .npmrc (Merge, upsertNPMRC,   *)
(* revertNPM).                                                             *)
THEOREM ForeignStays == Spec => []ForeignSurvives
<1>1. Init => KeptInv
  <2> SUFFICES ASSUME Init PROVE KeptInv
    OBVIOUS
  <2>1. PICK s \in Starts :
          /\ config = AtTop(s.config, Bare("absent")) /\ npmrc = s.npmrc
          /\ users = [entries |-> AtTop(ForeignOf(s.config), <<>>),
                      lines |-> UsersLines(s.npmrc.lines)]
    BY DEF Init
  <2>2. \A p \in Procs : pc[p] = "start"
    BY DEF Init
  <2>3. ASSUME NEW d \in Dirs PROVE EntriesKept(d)
    <3>1. CASE d = Top
      BY <2>1, <2>2, <3>1 DEF EntriesKept, AtTop, Reading
    <3>2. CASE d # Top
      <4>1. config[d] = Bare("absent") /\ users.entries[d] = <<>>
        BY <2>1, <3>2 DEF AtTop
      <4>2. ForeignOf(Bare("absent")) = <<>>
        BY WithoutEmpty DEF ForeignOf, Bare
      <4> QED BY <2>2, <4>1, <4>2 DEF EntriesKept, Reading
    <3> QED BY <3>1, <3>2
  <2>4. LinesKept
    BY <2>1, <2>2 DEF LinesKept, NpmOpen
  <2> QED BY <2>3, <2>4, TypedInit DEF KeptInv
<1>2. KeptInv => ForeignSurvives
  BY DEF KeptInv, LinesKept, EntriesKept, ForeignSurvives
<1> QED BY <1>1, <1>2, KeptStep, PTL DEF Spec

-----------------------------------------------------------------------------
(* What is done                                                            *)

OneMarked(c) ==
  /\ c.state = "read" /\ ~c.elsewhere
  /\ \E k \in DOMAIN c.entries : MarkedAt(c) = {k} /\ c.entries[k] = "canonical"

Merged == {"empty witness", "write witness", "done"}
WirePlaces ==
  Merged \cup Reading \cup {"gate", "bridge", "write bridge", "read"}
SubstratePlaces == {"substrate", "write pin", "shim", "write shim"}

(* Each command has places of its own.                                     *)
InPlace(p) ==
  /\ pc[p] \in WirePlaces \ {"done"} => job[p].cmd = "wire"
  /\ pc[p] \in Judged => job[p].cmd = "scaffold"
  /\ pc[p] \in NpmOpen => job[p].cmd \in {"install", "revert"}

(* What a wiring has written is there, the configuration and the witness   *)
(* as long as nobody else began to write them.                             *)
WiredSoFar(p) ==
  /\ pc[p] \in Reading => OneMarked(read[p])
  /\ job[p].cmd = "wire" =>
       /\ pc[p] \in Merged /\ last[Root(p)].config = p =>
            OneMarked(config[Root(p)])
       /\ pc[p] = "done" /\ last[Root(p)].witness = p =>
            witness[Root(p)] = "canonical"

NotEdited(p) ==
  job[p].cmd = "deepseek" /\ pc[p] \in SubstratePlaces \cup {"done"} =>
    plugin[Root(p)].code # "edited" /\ plugin[Root(p)].manifest # "edited"

OnTheWay(p) == InPlace(p) /\ WiredSoFar(p) /\ NotEdited(p)

DoneInv == Typed /\ \A p \in Procs : OnTheWay(p)

(* Merge leaves one marked entry, the canonical one.                       *)
LEMMA MergeMarksOne ==
  ASSUME NEW c \in Configs
  PROVE  OneMarked(Merge(c))
<1> DEFINE F == ForeignOf(c)
           es == Append(F, "canonical")
<1>1. F \in Seq(Entries \ Marked)
  BY MergeType
<1> HIDE DEF F
<1>2. PICK n \in Nat : n = Len(F)
  BY <1>1, LenProperties
<1>3. /\ DOMAIN es = 1 .. n + 1 /\ es[n + 1] = "canonical"
      /\ \A i \in 1 .. n : es[i] = F[i] /\ F[i] \in Entries \ Marked
  BY <1>1, <1>2, ElementOfSeq, LenProperties
<1> HIDE DEF es
<1>4. "canonical" \in Marked
  BY DEF Marked
<1>5. {i \in DOMAIN es : es[i] \in Marked} = {n + 1}
  <2>1. \A i \in 1 .. n + 1 : i = n + 1 \/ i \in 1 .. n
    OBVIOUS
  <2> QED BY <1>3, <1>4, <2>1
<1>6. /\ Merge(c).state = "read" /\ Merge(c).elsewhere = FALSE
      /\ Merge(c).entries = es
  BY DEF Merge, Listed, es, F
<1>7. MarkedAt(Merge(c)) = {n + 1}
  BY <1>5, <1>6 DEF MarkedAt
<1>8. n + 1 \in DOMAIN es
  BY <1>3
<1> QED BY <1>3, <1>6, <1>7, <1>8 DEF OneMarked

LEMMA OneMarkedFound ==
  ASSUME NEW c, OneMarked(c)
  PROVE  Check("canonical", c) = "FOUND"
<1>1. PICK k \in DOMAIN c.entries : MarkedAt(c) = {k} /\ c.entries[k] = "canonical"
  BY DEF OneMarked
<1>2. Cardinality(MarkedAt(c)) = 1
  BY <1>1, FS_Singleton
<1>3. ~Unreadable(c) /\ ~c.elsewhere /\ "canonical" \in Marked
  BY DEF OneMarked, Unreadable, Marked
<1>4. /\ MarkedAt(c) # {} /\ ~(Cardinality(MarkedAt(c)) > 1)
      /\ ~\E i \in MarkedAt(c) : c.entries[i] # "canonical"
  BY <1>1, <1>2
<1> QED BY <1>3, <1>4 DEF Check

(* What a step of w, a process or the user, does to the others.            *)
Spares(w) ==
  /\ \A d \in Dirs :
       /\ \A q \in Procs \ {w} :
            /\ last'[d].config = q =>
                 /\ last[d].config = q
                 /\ OneMarked(config[d]) => OneMarked(config'[d])
            /\ last'[d].witness = q =>
                 last[d].witness = q /\ witness'[d] = witness[d]
       /\ \A file \in {"code", "manifest"} :
            plugin[d][file] # "edited" => plugin'[d][file] # "edited"
  /\ \A q \in Procs \ {w} :
       pc'[q] = pc[q] /\ job'[q] = job[q] /\ read'[q] = read[q]

LEMMA OthersStep ==
  ASSUME DoneInv, NEW w, Spares(w), NEW q \in Procs, q # w
  PROVE  OnTheWay(q)'
<1>1. Root(q) \in Dirs /\ OnTheWay(q)
  BY RootDir DEF DoneInv
<1>2. /\ pc'[q] = pc[q] /\ job'[q] = job[q] /\ read'[q] = read[q]
      /\ Root(q)' = Root(q) /\ Cwd(q)' = Cwd(q)
  BY DEF Spares, Root, Cwd
<1>3. InPlace(q)'
  BY <1>1, <1>2 DEF OnTheWay, InPlace
<1>4. WiredSoFar(q)'
  BY <1>1, <1>2 DEF OnTheWay, WiredSoFar, Spares
<1>5. NotEdited(q)'
  BY <1>1, <1>2 DEF OnTheWay, NotEdited, Spares
<1> QED BY <1>3, <1>4, <1>5 DEF OnTheWay

(* The places where nothing is promised of a process.                      *)
LEMMA Unpromised ==
  ASSUME NEW p \in Procs,
         pc'[p] \notin WirePlaces \cup Judged \cup NpmOpen \cup SubstratePlaces
  PROVE  OnTheWay(p)'
BY DEF OnTheWay, InPlace, WiredSoFar, NotEdited, WirePlaces, SubstratePlaces, Merged

(* Who is last changes in one place.                                       *)
LEMMA LastAfter ==
  ASSUME last \in Lasts, NEW e \in Dirs, NEW who,
         NEW part \in {"config", "witness"}, NEW other \in {"config", "witness"},
         other # part, last' = [last EXCEPT ![e][part] = who]
  PROVE  /\ last'[e][part] = who
         /\ \A d \in Dirs : last'[d][other] = last[d][other]
         /\ \A d \in Dirs : d # e => last'[d] = last[d]
<1>1. DOMAIN last = Dirs
  BY DEF Lasts
<1>2. DOMAIN last[e] = {"config", "witness"}
  <2>1. last[e] \in [config : Procs \cup {"user"}, witness : Procs \cup {"user"}]
    BY DEF Lasts
  <2> QED BY <2>1
<1>3. last' = [last EXCEPT ![e] = [last[e] EXCEPT ![part] = who]]
  OBVIOUS
<1>4. last'[e] = [last[e] EXCEPT ![part] = who]
  BY <1>1, <1>3
<1>5. \A d \in Dirs : d # e => last'[d] = last[d]
  BY <1>1, <1>3
<1>6. last'[e][part] = who /\ last'[e][other] = last[e][other]
  BY <1>2, <1>4
<1> QED BY <1>5, <1>6

LEMMA DoneStep == DoneInv /\ [Next]_vars => DoneInv'
<1> SUFFICES ASSUME DoneInv, [Next]_vars PROVE \A q \in Procs : OnTheWay(q)'
  BY TypedStep DEF DoneInv
<1> USE DEF tenancy, hosted, user
<1>0. /\ Typed /\ (\A q \in Procs : OnTheWay(q))
      /\ job \in [Procs -> CommandLines] /\ DOMAIN pc = Procs /\ DOMAIN read = Procs
      /\ config \in [Dirs -> Configs] /\ DOMAIN witness = Dirs /\ DOMAIN bridge = Dirs
      /\ plugin \in [Dirs -> Plugins] /\ last \in Lasts
  BY DEF DoneInv, Typed
<1> DEFINE Walks(p) == /\ pc' = [pc EXCEPT ![p] = pc'[p]]
                       /\ UNCHANGED <<job, read>>
           Good == \A q \in Procs : OnTheWay(q)'
<1>a. ASSUME NEW p \in Procs, Spares(p), OnTheWay(p)' PROVE Good
  BY <1>a, OthersStep
<1>b. ASSUME NEW p \in Procs, Walks(p)
      PROVE  \A q \in Procs \ {p} :
               pc'[q] = pc[q] /\ job'[q] = job[q] /\ read'[q] = read[q]
  BY <1>0, <1>b
<1>c. ASSUME NEW p \in Procs, Walks(p),
             UNCHANGED <<config, witness, last, plugin>>
      PROVE  Spares(p)
  BY <1>b, <1>c DEF Spares
<1>1. ASSUME NEW p \in Procs, StartHost(p) PROVE Good
  <2>1. /\ pc' = [pc EXCEPT ![p] = pc'[p]]
        /\ \/ job[p].cmd = "wire" /\ pc'[p] = "substrate"
           \/ pc'[p] = "inspect"
        /\ UNCHANGED <<config, witness, last, plugin, read>>
    BY <1>0, <1>1 DEF StartHost, Goes, To
  <2> DEFINE r == RootOf(Cwd(p), Top, Owned, boundary)
  <2>2. job' = [job EXCEPT ![p].root = r]
    BY <1>1 DEF StartHost
  <2> HIDE DEF r
  <2>3. job'[p].cmd = job[p].cmd /\ \A q \in Procs \ {p} : job'[q] = job[q]
    BY <1>0, <2>2 DEF CommandLines
  <2>4. Spares(p)
    BY <1>0, <2>1, <2>3 DEF Spares
  <2>5. OnTheWay(p)'
    <3>1. CASE pc'[p] = "inspect"
      BY <3>1, Unpromised DEF WirePlaces, SubstratePlaces, Merged, Reading, Judged, NpmOpen
    <3>2. CASE job[p].cmd = "wire" /\ pc'[p] = "substrate"
      BY <2>3, <3>2 DEF OnTheWay, InPlace, WiredSoFar, NotEdited, WirePlaces, SubstratePlaces,
                        Merged, Reading, Judged, NpmOpen
    <3> QED BY <2>1, <3>1, <3>2
  <2> QED BY <1>a, <2>4, <2>5
<1>2. ASSUME NEW p \in Procs, Substrate(p) PROVE Good
  <2>1. /\ pc[p] \in SubstratePlaces /\ Walks(p)
        /\ \/ pc'[p] \in SubstratePlaces
           \/ pc'[p] = IF job[p].cmd = "wire" THEN "gate" ELSE "done"
        /\ UNCHANGED <<config, witness, last, plugin>>
    BY <1>0, <1>2 DEF Substrate, Ensure, SubstratePlaces, Goes, At, To
  <2>2. Spares(p)
    BY <1>c, <2>1
  <2>3. OnTheWay(p) /\ job'[p] = job[p] /\ Root(p)' = Root(p)
    BY <1>0, <2>1 DEF Root
  <2>4. InPlace(p)'
    BY <2>1, <2>3 DEF InPlace, SubstratePlaces, WirePlaces, Merged, Reading,
                      Judged, NpmOpen
  <2>5. WiredSoFar(p)'
    BY <2>1, <2>3 DEF WiredSoFar, SubstratePlaces, Merged, Reading
  <2>6. NotEdited(p)'
    BY <2>1, <2>3 DEF NotEdited, OnTheWay
  <2> QED BY <1>a, <2>2, <2>4, <2>5, <2>6 DEF OnTheWay
<1>3. ASSUME NEW p \in Procs, Gate(p) PROVE Good
  <2>1. /\ pc[p] = "gate" /\ Walks(p) /\ pc'[p] \in {"bridge", "failed"}
        /\ UNCHANGED <<config, witness, last, plugin>>
    BY <1>0, <1>3 DEF Gate, Goes, At, To
  <2>2. Spares(p)
    BY <1>c, <2>1
  <2>3. OnTheWay(p) /\ job'[p] = job[p] /\ Cwd(p)' = Cwd(p)
    BY <1>0, <2>1 DEF Cwd
  <2>4. OnTheWay(p)'
    BY <2>1, <2>3 DEF OnTheWay, InPlace, WiredSoFar, NotEdited, WirePlaces, SubstratePlaces,
                      Merged, Reading, Judged, NpmOpen
  <2> QED BY <1>a, <2>2, <2>4
<1>4. ASSUME NEW p \in Procs, WriteBridge(p) PROVE Good
  <2>1. /\ pc[p] \in {"bridge", "write bridge"} /\ Walks(p)
        /\ pc'[p] \in {"write bridge", "read"}
        /\ UNCHANGED <<config, witness, last, plugin>>
    BY <1>0, <1>4 DEF WriteBridge, Goes, At, To
  <2>2. Spares(p)
    BY <1>c, <2>1
  <2>3. OnTheWay(p) /\ job'[p] = job[p]
    BY <1>0, <2>1
  <2>4. OnTheWay(p)'
    BY <2>1, <2>3 DEF OnTheWay, InPlace, WiredSoFar, NotEdited, WirePlaces,
                      SubstratePlaces, Merged, Reading, Judged, NpmOpen
  <2> QED BY <1>a, <2>2, <2>4
<1>5. ASSUME NEW p \in Procs, ReadConfig(p) PROVE Good
  <2> DEFINE c == config[Root(p)]
  <2>0. UNCHANGED <<config, witness, last, plugin, job>>
    BY <1>5 DEF ReadConfig
  <2>1. CASE Refused(c)
    <3>1. Walks(p) /\ pc'[p] = "failed"
      BY <1>0, <1>5, <2>1 DEF ReadConfig, Goes, To
    <3>2. Spares(p)
      BY <1>c, <2>0, <3>1
    <3>3. OnTheWay(p)'
      BY <3>1, Unpromised DEF WirePlaces, SubstratePlaces, Merged, Reading, Judged, NpmOpen
    <3> QED BY <1>a, <3>2, <3>3
  <2>2. CASE ~Refused(c)
    <3>1. /\ pc[p] = "read" /\ pc' = [pc EXCEPT ![p] = "empty config"]
          /\ read' = [read EXCEPT ![p] = Merge(c)]
      BY <1>5, <2>2 DEF ReadConfig, Goes, At, To
    <3>2. OneMarked(Merge(c))
      BY <1>0, RootDir, MergeMarksOne
    <3> HIDE DEF c
    <3>3. OneMarked(read'[p]) /\ pc'[p] = "empty config"
      BY <1>0, <3>1, <3>2
    <3>4. Spares(p)
      BY <1>0, <2>0, <3>1 DEF Spares
    <3>5. OnTheWay(p) /\ job'[p] = job[p] /\ Root(p)' = Root(p) /\ Cwd(p)' = Cwd(p)
      BY <1>0, <2>0 DEF Root, Cwd
    <3>6. OnTheWay(p)'
      BY <2>0, <3>1, <3>3, <3>5 DEF OnTheWay, InPlace, WiredSoFar, NotEdited, WirePlaces, SubstratePlaces, Merged, Reading, Judged, NpmOpen
    <3> QED BY <1>a, <3>4, <3>6
  <2> QED BY <2>1, <2>2
<1>6. ASSUME NEW p \in Procs, WriteConfig(p) PROVE Good
  <2>1. /\ Walks(p) /\ UNCHANGED <<witness, plugin>>
        /\ \/ /\ pc[p] = "empty config" /\ pc'[p] = "write config"
              /\ config' = [config EXCEPT ![Root(p)] = Bare("truncated")]
           \/ /\ pc[p] = "write config" /\ pc'[p] = "empty witness"
              /\ config' = [config EXCEPT ![Root(p)] = read[p]]
    BY <1>0, <1>6 DEF WriteConfig, Goes, At, To
  <2> DEFINE who == IF pc[p] = "empty config" THEN p ELSE last[Root(p)].config
  <2>a. last' = [last EXCEPT ![Root(p)].config = who] /\ Root(p) \in Dirs
    BY <1>0, <1>6, RootDir DEF WriteConfig, At
  <2> HIDE DEF who
  <2>b. /\ last'[Root(p)].config = who
        /\ \A d \in Dirs : last'[d].witness = last[d].witness
        /\ \A d \in Dirs : d # Root(p) => last'[d] = last[d]
    BY <1>0, <2>a, LastAfter
  <2>2. /\ \A d \in Dirs : last'[d].witness = last[d].witness
        /\ \A d \in Dirs : d # Root(p) => last'[d] = last[d]
        /\ last'[Root(p)].config = IF pc[p] = "empty config" THEN p
                                                             ELSE last[Root(p)].config
    BY <2>b DEF who
  <2>3. OnTheWay(p) /\ job'[p] = job[p] /\ Root(p)' = Root(p) /\ Cwd(p)' = Cwd(p)
    BY <1>0, <2>1 DEF Root, Cwd
  <2>4. /\ pc[p] = "write config" => OneMarked(read[p]) /\ config'[Root(p)] = read[p]
        /\ \A d \in Dirs : d # Root(p) => config'[d] = config[d]
    BY <1>0, <2>1, <2>3, RootDir DEF OnTheWay, WiredSoFar, Reading
  <2>5. ASSUME NEW d \in Dirs, NEW q \in Procs \ {p}, last'[d].config = q
        PROVE  last[d].config = q /\ (OneMarked(config[d]) => OneMarked(config'[d]))
    <3>1. CASE d # Root(p)
      BY <2>2, <2>4, <2>5, <3>1
    <3>2. CASE d = Root(p)
      BY <2>1, <2>2, <2>4, <2>5, <3>2
    <3> QED BY <3>1, <3>2
  <2>6. Spares(p)
    BY <1>b, <2>1, <2>2, <2>5 DEF Spares
  <2>7. OnTheWay(p)'
    BY <2>1, <2>3, <2>4 DEF OnTheWay, InPlace, WiredSoFar, NotEdited, WirePlaces, SubstratePlaces, Merged, Reading, Judged, NpmOpen
  <2> QED BY <1>a, <2>6, <2>7
<1>7. ASSUME NEW p \in Procs, WriteWitness(p) PROVE Good
  <2>1. /\ Walks(p) /\ UNCHANGED <<config, plugin>>
        /\ last' = [last EXCEPT ![Root(p)].witness = p]
        /\ \/ /\ pc[p] = "empty witness" /\ pc'[p] = "write witness"
              /\ witness' = [witness EXCEPT ![Root(p)] = "truncated"]
           \/ /\ pc[p] = "write witness" /\ pc'[p] = "done"
              /\ witness' = [witness EXCEPT ![Root(p)] = "canonical"]
    BY <1>0, <1>7 DEF WriteWitness, Goes, At, To
  <2>a. Root(p) \in Dirs
    BY <1>0, RootDir
  <2>b. \A d \in Dirs : d # Root(p) => witness'[d] = witness[d]
    BY <1>0, <2>1, <2>a
  <2>c. /\ last'[Root(p)].witness = p
        /\ \A d \in Dirs : last'[d].config = last[d].config
        /\ \A d \in Dirs : d # Root(p) => last'[d] = last[d]
    BY <1>0, <2>1, <2>a, LastAfter
  <2>2. /\ \A d \in Dirs : last'[d].config = last[d].config
        /\ \A d \in Dirs : d # Root(p) => last'[d] = last[d] /\ witness'[d] = witness[d]
        /\ last'[Root(p)].witness = p
    BY <2>b, <2>c
  <2>3. /\ OnTheWay(p) /\ job'[p] = job[p] /\ Root(p)' = Root(p) /\ Cwd(p)' = Cwd(p)
        /\ Root(p) \in Dirs
    BY <1>0, <2>1, RootDir DEF Root, Cwd
  <2>4. Spares(p)
    BY <1>b, <2>1, <2>2 DEF Spares
  <2>5. pc'[p] = "done" => witness'[Root(p)] = "canonical"
    BY <1>0, <2>1, <2>3
  <2>6. job[p].cmd = "wire"
    BY <2>1, <2>3 DEF OnTheWay, InPlace, WirePlaces, SubstratePlaces, Merged
  <2>7. InPlace(p)' /\ NotEdited(p)'
    BY <2>1, <2>3, <2>6 DEF InPlace, NotEdited, Judged, NpmOpen
  <2>8. WiredSoFar(p)'
    BY <2>1, <2>2, <2>3, <2>5, <2>6 DEF OnTheWay, WiredSoFar, WirePlaces, SubstratePlaces, Merged,
                                        Reading
  <2> QED BY <1>a, <2>4, <2>7, <2>8 DEF OnTheWay
<1>8. ASSUME NEW p \in Procs, Inspect(p) PROVE Good
  <2>1. /\ Walks(p) /\ pc'[p] \in {"write plugin", "failed"}
        /\ UNCHANGED <<config, witness, last, plugin>>
    BY <1>0, <1>8 DEF Inspect, Goes, To
  <2>2. Spares(p)
    BY <1>c, <2>1
  <2>3. OnTheWay(p)'
    BY <2>1, Unpromised DEF WirePlaces, SubstratePlaces, Merged, Reading, Judged, NpmOpen
  <2> QED BY <1>a, <2>2, <2>3
<1>9. ASSUME NEW p \in Procs, NEW file \in {"code", "manifest"},
             NEW content \in {"truncated", "own"}, WritePlugin(p, file, content)
      PROVE  Good
  <2> DEFINE f == [plugin[Root(p)] EXCEPT ![file] = content]
  <2>1. /\ pc[p] = "write plugin" /\ Walks(p)
        /\ pc'[p] = IF f.code = "own" /\ f.manifest = "own" THEN "substrate"
                                                            ELSE "write plugin"
        /\ plugin' = [plugin EXCEPT ![Root(p)] = f]
        /\ UNCHANGED <<config, witness, last>>
    BY <1>0, <1>9 DEF WritePlugin, Goes, At, To
  <2>2. /\ f \in Plugins /\ f[file] = content
        /\ \A other \in {"code", "manifest"} :
             f[other] = content \/ f[other] = plugin[Root(p)][other]
    BY <1>0, RootDir DEF Plugins
  <2> HIDE DEF f
  <2>3. /\ OnTheWay(p) /\ job'[p] = job[p] /\ Root(p)' = Root(p) /\ Cwd(p)' = Cwd(p)
        /\ Root(p) \in Dirs
    BY <1>0, <2>1, RootDir DEF Root, Cwd
  <2>4. /\ plugin'[Root(p)] = f
        /\ \A d \in Dirs : d # Root(p) => plugin'[d] = plugin[d]
    BY <1>0, <2>1, <2>3
  <2>5. \A d \in Dirs, other \in {"code", "manifest"} :
          plugin[d][other] # "edited" => plugin'[d][other] # "edited"
    BY <2>2, <2>4
  <2>6. Spares(p)
    BY <1>b, <2>1, <2>5 DEF Spares
  <2>7. OnTheWay(p)'
    <3>1. CASE pc'[p] = "write plugin"
      BY <3>1, Unpromised DEF WirePlaces, SubstratePlaces, Merged, Reading, Judged, NpmOpen
    <3>2. CASE pc'[p] = "substrate" /\ f.code = "own" /\ f.manifest = "own"
      BY <2>1, <2>3, <2>4, <3>2 DEF OnTheWay, InPlace, WiredSoFar, NotEdited, WirePlaces, SubstratePlaces, Merged, Reading, Judged, NpmOpen
    <3> QED BY <2>1, <3>1, <3>2
  <2> QED BY <1>a, <2>6, <2>7
<1>10. ASSUME NEW p \in Procs, Registering(p) \/ Conflicts(p) \/ Register(p)
       PROVE  Good
  <2>1. /\ Walks(p) /\ UNCHANGED <<config, witness, last, plugin>>
        /\ pc'[p] \in Judged \cup {"substrate", "failed"}
        /\ job[p].cmd = "scaffold" \/ pc[p] \in Judged
    BY <1>0, <1>10 DEF Registering, Conflicts, Register, Goes, At, To, Judged
  <2>2. Spares(p)
    BY <1>c, <2>1
  <2>3. OnTheWay(p) /\ job'[p] = job[p]
    BY <1>0, <2>1
  <2>4. job[p].cmd = "scaffold"
    BY <2>1, <2>3 DEF OnTheWay, InPlace
  <2>5. OnTheWay(p)'
    BY <2>1, <2>3, <2>4 DEF OnTheWay, InPlace, WiredSoFar, NotEdited, WirePlaces, SubstratePlaces,
                            Merged, Reading, Judged, NpmOpen
  <2> QED BY <1>a, <2>2, <2>5
<1>11. ASSUME NEW p \in Procs, ReadNpm(p) PROVE Good
  <2>1. /\ pc' = [pc EXCEPT ![p] = pc'[p]] /\ pc'[p] \in NpmOpen
        /\ job[p].cmd \in {"install", "revert"}
        /\ read' = [read EXCEPT ![p] = read'[p]]
        /\ UNCHANGED <<config, witness, last, plugin, job>>
    BY <1>0, <1>11 DEF ReadNpm, Goes, To, NpmOpen
  <2>2. Spares(p)
    BY <1>0, <2>1 DEF Spares
  <2>3. OnTheWay(p)'
    BY <2>1 DEF OnTheWay, InPlace, WiredSoFar, NotEdited, WirePlaces, SubstratePlaces, Merged,
                Reading, Judged, NpmOpen
  <2> QED BY <1>a, <2>2, <2>3
<1>12. ASSUME NEW p \in Procs, WriteNpm(p) PROVE Good
  <2>1. /\ Walks(p) /\ UNCHANGED <<config, witness, last, plugin>>
        /\ pc[p] \in NpmOpen /\ pc'[p] \in {"write npmrc", "done"}
    BY <1>0, <1>12 DEF WriteNpm, Goes, At, To, NpmOpen
  <2>2. Spares(p)
    BY <1>c, <2>1
  <2>3. OnTheWay(p) /\ job'[p] = job[p]
    BY <1>0, <2>1
  <2>4. job[p].cmd \in {"install", "revert"}
    BY <2>1, <2>3 DEF OnTheWay, InPlace
  <2>5. OnTheWay(p)'
    BY <2>1, <2>3, <2>4 DEF OnTheWay, InPlace, WiredSoFar, NotEdited, WirePlaces, SubstratePlaces,
                            Merged, Reading, Judged, NpmOpen
  <2> QED BY <1>a, <2>2, <2>5
<1>13. ASSUME NEW p \in Procs, Stop(p) PROVE Good
  <2>1. /\ Walks(p) /\ UNCHANGED <<config, witness, last, plugin>>
        /\ pc'[p] = "stopped"
    BY <1>0, <1>13 DEF Stop, To
  <2>2. Spares(p)
    BY <1>c, <2>1
  <2>3. OnTheWay(p)'
    BY <2>1, Unpromised DEF WirePlaces, SubstratePlaces, Merged, Reading, Judged, NpmOpen
  <2> QED BY <1>a, <2>2, <2>3
<1>14. ASSUME NEW d \in Dirs, NEW c \in UserConfigs, Save(d, c) PROVE Good
  <2>1. /\ UNCHANGED <<pc, job, read, witness, plugin>>
        /\ config' = [config EXCEPT ![d] = c]
        /\ last' = [last EXCEPT ![d].config = "user"]
    BY <1>14 DEF Save
  <2>2. "user" \notin Procs
    BY RepositoryAssumption
  <2>a. /\ last'[d].config = "user"
        /\ \A e \in Dirs : last'[e].witness = last[e].witness
        /\ \A e \in Dirs : e # d => last'[e] = last[e]
    BY <1>0, <2>1, LastAfter
  <2>b. \A e \in Dirs : e # d => config'[e] = config[e]
    BY <1>0, <2>1
  <2>3. /\ last'[d].config = "user"
        /\ \A e \in Dirs : last'[e].witness = last[e].witness
        /\ \A e \in Dirs : e # d => last'[e] = last[e] /\ config'[e] = config[e]
    BY <2>a, <2>b
  <2>4. ASSUME NEW e \in Dirs, NEW q \in Procs, last'[e].config = q
        PROVE  last[e].config = q /\ (OneMarked(config[e]) => OneMarked(config'[e]))
    BY <2>2, <2>3, <2>4
  <2>5. Spares("user")
    BY <2>1, <2>3, <2>4 DEF Spares
  <2> QED BY <2>2, <2>5, OthersStep
<1>15. CASE UNCHANGED vars
  <2>1. UNCHANGED <<pc, job, read, config, witness, last, plugin>>
    BY <1>15 DEF vars
  <2>2. Spares("user")
    BY <2>1 DEF Spares
  <2> QED BY <2>2, OthersStep, RepositoryAssumption
<1> QED BY <1>1, <1>2, <1>3, <1>4, <1>5, <1>6, <1>7, <1>8, <1>9, <1>10, <1>11,
           <1>12, <1>13, <1>14, <1>15 DEF Next

(* What a command reported done is done: a wiring whose configuration and *)
(* witness nobody wrote after reads as FOUND (runWireHost, Check), and none *)
(* of DeepSeek's two files is somebody else's.                             *)
THEOREM DoneIsDone == Spec => []DoneIsFound
<1>1. Init => DoneInv
  <2> SUFFICES ASSUME Init PROVE DoneInv
    OBVIOUS
  <2>1. \A p \in Procs : pc[p] = "start"
    BY DEF Init
  <2> QED BY <2>1, TypedInit DEF DoneInv, OnTheWay, InPlace, WiredSoFar, NotEdited,
                                 WirePlaces, SubstratePlaces, Merged, Reading,
                                 Judged, NpmOpen
<1>2. DoneInv => DoneIsFound
  <2> SUFFICES ASSUME DoneInv, NEW p \in Procs, At(p, "done")
               PROVE  /\ /\ job[p].cmd = "wire"
                         /\ last[Root(p)] = [config |-> p, witness |-> p]
                         => Check(witness[Root(p)], config[Root(p)]) = "FOUND"
                      /\ job[p].cmd = "deepseek" =>
                           /\ plugin[Root(p)].code # "edited"
                           /\ plugin[Root(p)].manifest # "edited"
    BY DEF DoneIsFound
  <2>1. OnTheWay(p) /\ pc[p] = "done"
    BY DEF DoneInv, At
  <2>2. ASSUME job[p].cmd = "wire", last[Root(p)] = [config |-> p, witness |-> p]
        PROVE  Check(witness[Root(p)], config[Root(p)]) = "FOUND"
    <3>1. last[Root(p)].config = p /\ last[Root(p)].witness = p
      BY <2>2
    <3>2. OneMarked(config[Root(p)]) /\ witness[Root(p)] = "canonical"
      BY <2>1, <2>2, <3>1 DEF OnTheWay, WiredSoFar, Merged
    <3> QED BY <3>2, OneMarkedFound
  <2> QED BY <2>1, <2>2 DEF OnTheWay, NotEdited
<1> QED BY <1>1, <1>2, DoneStep, PTL DEF Spec
=============================================================================
