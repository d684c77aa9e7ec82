-------------------------- MODULE SupervisorProofs --------------------------
(***************************************************************************)
(* Theorems about Supervisor, for every set of file contents and every     *)
(* number of builds.                                                       *)
(***************************************************************************)
EXTENDS Supervisor, TLAPS

USE DEF Pairs, Actors, Actions, States, Revisions, Files, Grants, Bases

-----------------------------------------------------------------------------
(* Type correctness                                                        *)

(* Withdrawing the verdict keeps the types of the facts.                   *)
LEMMA InvalidateType ==
  ASSUME TypeOK, Invalidate
  PROVE  /\ state' \in States /\ revision' \in 0 .. MaxRevision
         /\ testedRevision' \in 0 .. MaxRevision
         /\ testedDigest' \in Files /\ epoch' \in Nat
BY SupervisorAssumption DEF TypeOK, Invalidate, facts, SupervisorAssumption

(* So does consuming a reservation with those of the others.               *)
LEMMA ConsumeType ==
  ASSUME TypeOK, NEW p \in Pairs, Consume(p)
  PROVE  /\ pending' \in [Pairs -> Grants \cup {NoGrant}]
         /\ \A q \in Pairs : pending'[q] # NoGrant => pending[q] = pending'[q]
<1>1. pending' \in [Pairs -> Grants \cup {NoGrant}]
  BY DEF TypeOK, Consume
<1>2. pending'[p] = NoGrant
  BY DEF TypeOK, Consume
<1>3. \A q \in Pairs : q # p => pending'[q] = pending[q]
  BY DEF TypeOK, Consume
<1> QED BY <1>1, <1>2, <1>3

LEMMA TypingInit == Init => TypeOK
<1> SUFFICES ASSUME Init PROVE TypeOK
  OBVIOUS
<1>1. /\ pending \in [Pairs -> Grants \cup {NoGrant}]
      /\ \A p \in Pairs : pending[p] = NoGrant
  BY DEF Init
<1>2. 0 \in 0 .. MaxRevision /\ 0 \in Nat
  BY SupervisorAssumption DEF SupervisorAssumption
<1>3. /\ tester \in [Revisions -> {"none", "reading", "reporting",
                                  "withdrawing", "done"}]
      /\ seen \in [Revisions -> Files]
  BY DEF Init
<1> QED BY <1>1, <1>2, <1>3 DEF Init, TypeOK

LEMMA TypingStep == TypeOK /\ [Next]_vars => TypeOK'
<1> SUFFICES ASSUME TypeOK, [Next]_vars PROVE TypeOK'
  OBVIOUS
<1> USE DEF facts
<1>1. ASSUME NEW p \in Pairs, Admit(p) PROVE TypeOK'
  <2>1. [epoch |-> epoch, fresh |-> TRUE, basis |-> Basis] \in Grants
    BY DEF TypeOK, Basis
  <2>2. p \in {<<"codex", "dispatch">>, <<"worker", "build">>,
               <<"worker", "release">>}
    BY <1>1 DEF Admit, Permitted
  <2>3. pending' \in [Pairs -> Grants \cup {NoGrant}]
    BY <1>1, <2>1 DEF Admit, TypeOK
  <2>4. \A q \in Pairs : q # p => pending'[q] = pending[q]
    BY <1>1 DEF Admit, TypeOK
  <2> QED BY <1>1, <2>2, <2>3, <2>4 DEF Admit, TypeOK
<1>2. ASSUME NEW p \in Pairs, Expire(p) PROVE TypeOK'
  <2>1. pending' \in [Pairs -> Grants \cup {NoGrant}]
    <3>1. pending[p] \in Grants
      BY <1>2 DEF Expire, TypeOK
    <3>2. [pending[p] EXCEPT !.fresh = FALSE] \in Grants
      BY <3>1
    <3> QED BY <1>2, <3>2 DEF Expire, TypeOK
  <2>2. \A q \in Pairs : pending'[q] # NoGrant => pending[q] # NoGrant
    BY <1>2 DEF Expire, TypeOK
  <2> QED BY <1>2, <2>1, <2>2 DEF Expire, TypeOK
<1>3. ASSUME NEW p \in Pairs, Refuse(p) PROVE TypeOK'
  <2>1. Consume(p)
    BY <1>3 DEF Refuse
  <2> QED BY <1>3, <2>1, ConsumeType DEF Refuse, TypeOK
<1>4. CASE Dispatch
  <2>1. Consume(<<"codex", "dispatch">>)
    BY <1>4 DEF Dispatch
  <2> QED BY <1>4, <2>1, ConsumeType DEF Dispatch, TypeOK
<1>5. CASE Build
  <2>1. Consume(<<"worker", "build">>)
    BY <1>5 DEF Build
  <2>2. revision' \in 0 .. MaxRevision /\ epoch' \in Nat
    BY <1>5, SupervisorAssumption DEF Build, TypeOK, SupervisorAssumption
  <2>3. tester' \in [Revisions -> {"none", "reading", "reporting",
                                   "withdrawing", "done"}]
    BY <1>5 DEF Build, TypeOK
  <2> QED BY <1>5, <2>1, <2>2, <2>3, ConsumeType, SupervisorAssumption
          DEF Build, TypeOK, SupervisorAssumption
<1>6. CASE BuildFails
  <2>1. Consume(<<"worker", "build">>)
    BY <1>6 DEF BuildFails
  <2> QED BY <1>6, <2>1, ConsumeType DEF BuildFails, TypeOK
<1>7. CASE Release
  <2>1. Consume(<<"worker", "release">>)
    BY <1>7 DEF Release
  <2>2. CASE Invalidate /\ UNCHANGED released
    BY <1>7, <2>1, <2>2, ConsumeType, InvalidateType DEF Release, TypeOK
  <2>3. CASE /\ released' = artifact
             /\ state' = "released"
             /\ epoch' = epoch + 1
             /\ UNCHANGED <<revision, testedRevision, testedDigest>>
    BY <1>7, <2>1, <2>3, ConsumeType DEF Release, TypeOK
  <2> QED BY <1>7, <2>2, <2>3 DEF Release
<1>8. CASE ReleaseFails
  <2>1. Consume(<<"worker", "release">>)
    BY <1>8 DEF ReleaseFails
  <2> QED BY <1>8, <2>1, ConsumeType DEF ReleaseFails, TypeOK
<1>9. ASSUME NEW r \in Revisions, Read(r) PROVE TypeOK'
  BY <1>9 DEF Read, To, TypeOK
<1>10. ASSUME NEW r \in Revisions, Observe(r) PROVE TypeOK'
  <2>1. tester' \in [Revisions -> {"none", "reading", "reporting",
                                   "withdrawing", "done"}]
    BY <1>10 DEF Observe, To, TypeOK
  <2>2. CASE Invalidate /\ UNCHANGED passed
    BY <1>10, <2>1, <2>2, InvalidateType DEF Observe, TypeOK
  <2>3. CASE UNCHANGED <<facts, passed>>
    BY <1>10, <2>1, <2>3 DEF Observe, TypeOK
  <2>4. CASE /\ seen[r] = Good
             /\ testedRevision' = r
             /\ testedDigest' = seen[r]
             /\ state' = "verified"
             /\ epoch' = epoch + 1
             /\ passed' = passed \cup {<<r, seen[r]>>}
             /\ UNCHANGED revision
    <3>1. r \in 0 .. MaxRevision /\ Good \in Contents
      BY SupervisorAssumption DEF SupervisorAssumption
    <3> QED BY <1>10, <2>1, <2>4, <3>1 DEF Observe, TypeOK
  <2> QED BY <1>10, <2>2, <2>3, <2>4 DEF Observe
<1>11. ASSUME NEW r \in Revisions, Withdraw(r) PROVE TypeOK'
  <2>1. Invalidate
    BY <1>11 DEF Withdraw
  <2> QED BY <1>11, <2>1, InvalidateType DEF Withdraw, To, TypeOK
<1>12. CASE Edit
  BY <1>12 DEF Edit, TypeOK
<1>13. CASE UNCHANGED vars
  BY <1>13 DEF vars, TypeOK
<1> QED BY <1>1, <1>2, <1>3, <1>4, <1>5, <1>6, <1>7, <1>8, <1>9, <1>10,
           <1>11, <1>12, <1>13
        DEF Next

(* The supervisor is type correct, and reservations respect the roles.     *)
THEOREM SupervisorTyping == Spec => []TypeOK
<1> QED BY TypingInit, TypingStep, PTL DEF Spec

-----------------------------------------------------------------------------
(* Reservations                                                            *)

(* No reservation is from the future: with ReservationIsCurrent, which it  *)
(* makes inductive, this is why moving the epoch revokes them all.         *)
GrantsArePast ==
  \A p \in Pairs : pending[p] # NoGrant => pending[p].epoch <= epoch

(* A step leaves the facts alone or moves the epoch.                       *)
LEMMA FactsMoveTheEpoch ==
  ASSUME TypeOK, [Next]_vars
  PROVE  UNCHANGED facts \/ epoch' = epoch + 1
BY DEF Next, vars, facts, Admit, Expire, Refuse, Dispatch, Build, BuildFails,
       Release, ReleaseFails, Invalidate, Read, Observe, Withdraw, Edit

(* A reservation was there before with the same epoch and basis, or was    *)
(* given in this step on the facts of now.                                 *)
LEMMA ReservationStep ==
  ASSUME TypeOK, [Next]_vars, NEW q \in Pairs, pending'[q] # NoGrant
  PROVE  \/ /\ pending[q] # NoGrant
            /\ pending'[q].epoch = pending[q].epoch
            /\ pending'[q].basis = pending[q].basis
         \/ /\ UNCHANGED facts
            /\ pending'[q].epoch = epoch
            /\ pending'[q].basis = Basis
<1> DEFINE Kept == /\ pending[q] # NoGrant
                   /\ pending'[q].epoch = pending[q].epoch
                   /\ pending'[q].basis = pending[q].basis
           Given == /\ UNCHANGED facts
                    /\ pending'[q].epoch = epoch
                    /\ pending'[q].basis = Basis
<1> SUFFICES Kept \/ Given
  OBVIOUS
<1>1. ASSUME NEW p \in Pairs, Admit(p) PROVE Kept \/ Given
  <2>1. CASE q = p
    <3>1. pending'[q] = [epoch |-> epoch, fresh |-> TRUE, basis |-> Basis]
      BY <1>1, <2>1 DEF Admit, TypeOK
    <3> QED BY <1>1, <3>1 DEF Admit
  <2>2. CASE q # p
    <3>1. pending'[q] = pending[q]
      BY <1>1, <2>2 DEF Admit, TypeOK
    <3> QED BY <3>1
  <2> QED BY <2>1, <2>2
<1>2. ASSUME NEW p \in Pairs, Expire(p) PROVE Kept
  <2>1. CASE q = p
    <3>1. pending[q] \in Grants /\ pending[q] # NoGrant
      BY <1>2, <2>1 DEF Expire, TypeOK
    <3>2. pending'[q] = [pending[q] EXCEPT !.fresh = FALSE]
      BY <1>2, <2>1 DEF Expire, TypeOK
    <3> QED BY <3>1, <3>2
  <2>2. CASE q # p
    <3>1. pending'[q] = pending[q]
      BY <1>2, <2>2 DEF Expire, TypeOK
    <3> QED BY <3>1
  <2> QED BY <2>1, <2>2
<1>3. ASSUME NEW p \in Pairs, Consume(p) PROVE Kept
  BY <1>3, ConsumeType
<1>4. CASE \E p \in Pairs : Refuse(p)
  BY <1>3, <1>4 DEF Refuse
<1>5. CASE Dispatch \/ Build \/ BuildFails \/ Release \/ ReleaseFails
  BY <1>3, <1>5 DEF Dispatch, Build, BuildFails, Release, ReleaseFails
<1>6. CASE UNCHANGED pending
  BY <1>6
<1>7. \/ \E p \in Pairs : Admit(p) \/ Expire(p) \/ Refuse(p)
      \/ Dispatch \/ Build \/ BuildFails \/ Release \/ ReleaseFails
      \/ UNCHANGED pending
  BY DEF Next, vars, Read, Observe, Withdraw, Edit
<1> QED BY <1>1, <1>2, <1>4, <1>5, <1>6, <1>7

LEMMA ReservationInvariance ==
  ASSUME TypeOK, GrantsArePast, ReservationIsCurrent, [Next]_vars
  PROVE  GrantsArePast' /\ ReservationIsCurrent'
<1>1. epoch \in Nat /\ epoch' \in Nat
  BY TypingStep DEF TypeOK
<1>2. ASSUME NEW q \in Pairs, pending'[q] # NoGrant
      PROVE  /\ pending'[q].epoch <= epoch'
             /\ pending'[q].epoch = epoch' => pending'[q].basis = Basis'
  <2>1. UNCHANGED facts \/ epoch' = epoch + 1
    BY FactsMoveTheEpoch
  <2>2. UNCHANGED facts => epoch' = epoch /\ Basis' = Basis
    BY DEF facts, Basis
  <2>3. CASE /\ pending[q] # NoGrant
             /\ pending'[q].epoch = pending[q].epoch
             /\ pending'[q].basis = pending[q].basis
    <3>1. pending[q].epoch \in Nat /\ pending[q].epoch <= epoch
      BY <2>3 DEF TypeOK, GrantsArePast
    <3>2. pending[q].epoch = epoch => pending[q].basis = Basis
      BY <2>3 DEF ReservationIsCurrent
    <3> QED BY <1>1, <2>1, <2>2, <2>3, <3>1, <3>2
  <2>4. CASE /\ UNCHANGED facts
             /\ pending'[q].epoch = epoch
             /\ pending'[q].basis = Basis
    BY <1>1, <2>2, <2>4
  <2> QED BY <1>2, <2>3, <2>4, ReservationStep
<1> QED BY <1>2 DEF GrantsArePast, ReservationIsCurrent

(* A reservation of the current epoch was granted on what holds now.       *)
THEOREM ReservationsAreCurrent == Spec => []ReservationIsCurrent
<1>1. Init => GrantsArePast /\ ReservationIsCurrent
  BY DEF Init, GrantsArePast, ReservationIsCurrent
<1> QED BY <1>1, TypingInit, TypingStep, ReservationInvariance, PTL DEF Spec

-----------------------------------------------------------------------------
(* Verdicts and releases                                                   *)

LEMMA VerdictInvariance ==
  ASSUME TypeOK, VerdictIsCurrent, [Next]_vars
  PROVE  VerdictIsCurrent'
<1> USE DEF facts
<1>1. CASE UNCHANGED <<facts, passed>>
  BY <1>1 DEF VerdictIsCurrent
<1>2. CASE Invalidate /\ UNCHANGED passed
  BY <1>2 DEF Invalidate, VerdictIsCurrent
<1>3. CASE Build
  BY <1>3 DEF Build, VerdictIsCurrent
<1>4. CASE /\ state = "verified" /\ state' = "released"
           /\ UNCHANGED <<revision, testedRevision, testedDigest, passed>>
  BY <1>4 DEF VerdictIsCurrent
<1>5. CASE \E r \in Revisions :
             /\ r = revision
             /\ testedRevision' = r
             /\ testedDigest' = seen[r]
             /\ state' = "verified"
             /\ passed' = passed \cup {<<r, seen[r]>>}
             /\ UNCHANGED revision
  BY <1>5 DEF VerdictIsCurrent
<1>6. ASSUME Release
      PROVE  \/ Invalidate /\ UNCHANGED passed
             \/ /\ state = "verified" /\ state' = "released"
                /\ UNCHANGED <<revision, testedRevision, testedDigest, passed>>
  BY <1>6 DEF Release, Current, Permitted
<1>7. ASSUME NEW r \in Revisions, Observe(r)
      PROVE  \/ UNCHANGED <<facts, passed>>
             \/ Invalidate /\ UNCHANGED passed
             \/ /\ r = revision
                /\ testedRevision' = r
                /\ testedDigest' = seen[r]
                /\ state' = "verified"
                /\ passed' = passed \cup {<<r, seen[r]>>}
                /\ UNCHANGED revision
  BY <1>7 DEF Observe, Outdated
<1>8. ASSUME NEW r \in Revisions, Withdraw(r)
      PROVE  Invalidate /\ UNCHANGED passed
  BY <1>8 DEF Withdraw
<1>9. \/ UNCHANGED <<facts, passed>> \/ Build \/ Release
      \/ \E r \in Revisions : Observe(r) \/ Withdraw(r)
  BY DEF Next, vars, Admit, Expire, Refuse, Dispatch, BuildFails,
         ReleaseFails, Read, Edit
<1> QED BY <1>1, <1>2, <1>3, <1>4, <1>5, <1>6, <1>7, <1>8, <1>9

(* Once released, every step leaves facts and file as they are: nothing    *)
(* but a dispatch is permitted any more, results are outdated, and there   *)
(* is no verdict to withdraw.                                              *)
LEMMA ReleasedStep ==
  ASSUME TypeOK, [Next]_vars, state = "released"
  PROVE  UNCHANGED <<facts, released>>
<1> USE DEF facts
<1>1. ~Permitted(<<"worker", "build">>) /\ ~Permitted(<<"worker", "release">>)
  BY DEF Permitted
<1>2. ~Build /\ ~BuildFails /\ ~Release /\ ~ReleaseFails
  BY <1>1 DEF Build, BuildFails, Release, ReleaseFails, Current
<1>3. Invalidate => UNCHANGED facts
  BY DEF Invalidate
<1>4. ASSUME NEW r \in Revisions, Observe(r) \/ Withdraw(r)
      PROVE  UNCHANGED <<facts, released>>
  BY <1>3, <1>4 DEF Observe, Outdated, Withdraw
<1> QED BY <1>2, <1>4 DEF Next, vars, Admit, Expire, Refuse, Dispatch, Read,
                          Edit

LEMMA ReleaseInvariance ==
  ASSUME TypeOK, VerdictIsCurrent, ReleasedIsTested, [Next]_vars
  PROVE  ReleasedIsTested'
<1> USE DEF facts
<1>1. passed \subseteq passed'
  BY DEF Next, vars, Admit, Expire, Refuse, Dispatch, Build, BuildFails,
         Release, ReleaseFails, Read, Observe, Withdraw, Edit
<1>2. CASE state = "released"
  BY <1>1, <1>2, ReleasedStep DEF ReleasedIsTested
<1>3. CASE state # "released"
  <2>1. ASSUME state' = "released" PROVE Release
    BY <1>3, <2>1
    DEF Next, vars, Admit, Expire, Refuse, Dispatch, Build, BuildFails,
        ReleaseFails, Invalidate, Read, Observe, Withdraw, Edit
  <2>2. ASSUME state' = "released"
        PROVE  /\ state = "verified"
               /\ released' = testedDigest
               /\ UNCHANGED <<revision, testedDigest>>
    <3>1. Release
      BY <2>1, <2>2
    <3>2. state = "verified"
      BY <3>1 DEF Release, Current, Permitted
    <3> QED BY <1>3, <2>2, <3>1, <3>2 DEF Release, Unedited, Invalidate
  <2> QED BY <1>1, <2>2 DEF ReleasedIsTested, VerdictIsCurrent
<1> QED BY <1>2, <1>3

(* A verdict is about the last build.                                      *)
THEOREM VerdictsAreCurrent == Spec => []VerdictIsCurrent
<1>1. Init => VerdictIsCurrent
  BY DEF Init, VerdictIsCurrent
<1> QED BY <1>1, TypingInit, TypingStep, VerdictInvariance, PTL DEF Spec

(* What was released is what the tester passed for the last revision.      *)
THEOREM OnlyTestedIsReleased == Spec => []ReleasedIsTested
<1>1. Init => ReleasedIsTested
  BY DEF Init, ReleasedIsTested
<1> QED BY <1>1, TypingInit, TypingStep, VerdictsAreCurrent, ReleaseInvariance,
           PTL DEF Spec

(* A release is never undone, nor done again with other bytes.             *)
THEOREM ReleasesAreFinal == Spec => ReleaseIsFinal
<1>1. TypeOK /\ [Next]_vars =>
        [state = "released" => UNCHANGED <<facts, released>>]_vars
  BY ReleasedStep
<1> QED BY <1>1, TypingInit, TypingStep, PTL DEF Spec, ReleaseIsFinal
=============================================================================
