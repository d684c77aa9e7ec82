----------------------------- MODULE Supervisor -----------------------------
(***************************************************************************)
(* examples/supervisory-control/supervisor.py and the part of demo.py that *)
(* drives it: one delivery session.  An admission is a reservation, used   *)
(* later by a separate call; between the two the other threads build, test *)
(* and invalidate, and anybody may edit the artifact.  Every method holds  *)
(* the lock throughout, except test_artifact, which reads the artifact,    *)
(* reports what it saw and withdraws it in three steps.                    *)
(*                                                                         *)
(* A denied admission and a call without a reservation change nothing and  *)
(* are no step.                                                            *)
(***************************************************************************)
EXTENDS Naturals

CONSTANTS
  Good,          \* the bytes a build writes and the tester accepts
  Contents,      \* what artifact.txt and released.txt may hold
  Missing,       \* there is no such file
  NoGrant,       \* no reservation
  MaxRevision    \* bound on the number of builds

Actors  == {"codex", "worker"}
Actions == {"dispatch", "build", "release"}
Pairs   == Actors \X Actions
States  == {"draft", "built", "verified", "released"}
Revisions == 1 .. MaxRevision
Files   == Contents \cup {Missing}

Bases  == [state : States, revision : 0 .. MaxRevision, digest : Files]
Grants == [epoch : Nat, fresh : BOOLEAN, basis : Bases]

ASSUME SupervisorAssumption ==
  /\ Good \in Contents
  /\ Missing \notin Contents
  /\ NoGrant \notin Grants
  /\ MaxRevision \in Nat

VARIABLES
  state,
  revision,
  testedRevision,  \* 0 for None
  testedDigest,    \* the bytes behind the digest, Missing for None
  epoch,
  dispatched,
  pending,         \* <<actor, action>> -> its reservation, or NoGrant
  artifact,        \* artifact.txt
  released,        \* released.txt
  tester,          \* revision -> where its test_artifact call is
  seen,            \* revision -> the bytes that call read
  passed           \* <<revision, bytes>> the tester passed (history)

facts == <<state, revision, testedRevision, testedDigest, epoch>>

vars == <<facts, dispatched, pending, artifact, released, tester, seen, passed>>

Init ==
  /\ state = "draft"
  /\ revision = 0
  /\ testedRevision = 0
  /\ testedDigest = Missing
  /\ epoch = 0
  /\ dispatched = FALSE
  /\ pending = [p \in Pairs |-> NoGrant]
  /\ artifact \in Files
  /\ released = Missing
  /\ tester = [r \in Revisions |-> "none"]
  /\ seen = [r \in Revisions |-> Missing]
  /\ passed = {}

(* Variants named X_Fault are X with a plausible mistake in it; a property *)
(* that no such variant can break would say nothing about the code.        *)

-----------------------------------------------------------------------------
(* Admission                                                               *)

Permitted_AnyActor(p) ==
  \/ p[2] = "dispatch" /\ ~dispatched /\ state = "draft"
  \/ p[2] = "build" /\ state # "released"
  \/ p[2] = "release" /\ state = "verified" /\ testedRevision = revision

Permitted(p) ==
  \/ p = <<"codex", "dispatch">> /\ ~dispatched /\ state = "draft"
  \/ p = <<"worker", "build">> /\ state # "released"
  \/ p = <<"worker", "release">> /\ state = "verified"
       /\ testedRevision = revision

(* What an admission is granted on; the source keeps only the epoch.       *)
Basis == [state |-> state, revision |-> revision, digest |-> testedDigest]

Admit(p) ==
  /\ Permitted(p)
  /\ pending' = [pending EXCEPT ![p] =
                   [epoch |-> epoch, fresh |-> TRUE, basis |-> Basis]]
  /\ UNCHANGED <<facts, dispatched, artifact, released, tester, seen, passed>>

(* Thirty seconds pass.                                                    *)
Expire(p) ==
  /\ pending[p] # NoGrant
  /\ pending[p].fresh
  /\ pending' = [pending EXCEPT ![p].fresh = FALSE]
  /\ UNCHANGED <<facts, dispatched, artifact, released, tester, seen, passed>>

-----------------------------------------------------------------------------
(* Execution: the reservation is consumed whatever comes of it             *)

Consume(p) ==
  /\ pending[p] # NoGrant
  /\ pending' = [pending EXCEPT ![p] = NoGrant]

(* It is still current, and what it was given for still permitted.         *)
Current(p) ==
  /\ pending[p].epoch = epoch
  /\ pending[p].fresh
  /\ Permitted(p)

Refuse(p) ==
  /\ Consume(p)
  /\ ~Current(p)
  /\ UNCHANGED <<facts, dispatched, artifact, released, tester, seen, passed>>

Dispatch ==
  LET p == <<"codex", "dispatch">> IN
  /\ Consume(p) /\ Current(p)
  /\ dispatched' = TRUE
  /\ UNCHANGED <<facts, artifact, released, tester, seen, passed>>

(* The artifact is written and its revision handed to a tester.            *)
Build ==
  LET p == <<"worker", "build">> IN
  /\ revision < MaxRevision
  /\ Consume(p) /\ Current(p)
  /\ artifact' = Good
  /\ revision' = revision + 1
  /\ epoch' = epoch + 1
  /\ state' = "built"
  /\ testedRevision' = 0
  /\ testedDigest' = Missing
  /\ tester' = [tester EXCEPT ![revision + 1] = "reading"]
  /\ UNCHANGED <<dispatched, released, seen, passed>>

(* Writing the artifact raises, before or after some of it was written.    *)
BuildFails ==
  LET p == <<"worker", "build">> IN
  /\ Consume(p) /\ Current(p)
  /\ artifact' \in Files
  /\ UNCHANGED <<facts, dispatched, released, tester, seen, passed>>

Invalidate_Anytime ==
  /\ state' = "built"
  /\ testedRevision' = 0
  /\ testedDigest' = Missing
  /\ epoch' = epoch + 1
  /\ UNCHANGED revision

Invalidate_SameEpoch ==
  \/ /\ state \in {"built", "verified"}
     /\ state' = "built"
     /\ testedRevision' = 0
     /\ testedDigest' = Missing
     /\ UNCHANGED <<epoch, revision>>
  \/ /\ state \notin {"built", "verified"}
     /\ UNCHANGED facts

Invalidate ==
  \/ /\ state \in {"built", "verified"}
     /\ state' = "built"
     /\ testedRevision' = 0
     /\ testedDigest' = Missing
     /\ epoch' = epoch + 1
     /\ UNCHANGED revision
  \/ /\ state \notin {"built", "verified"}
     /\ UNCHANGED facts

(* The bytes to release have the digest the tester saw.                    *)
Unedited_Unchecked == TRUE
Unedited == artifact = testedDigest

Release ==
  LET p == <<"worker", "release">> IN
  /\ Consume(p) /\ Current(p)
  /\ artifact # Missing
  /\ \/ /\ ~Unedited
        /\ Invalidate
        /\ UNCHANGED released
     \/ /\ Unedited
        /\ released' = artifact
        /\ state' = "released"
        /\ epoch' = epoch + 1
        /\ UNCHANGED <<revision, testedRevision, testedDigest>>
  /\ UNCHANGED <<dispatched, artifact, tester, seen, passed>>

(* Reading the artifact raises, or writing bytes that passed the check.    *)
ReleaseFails ==
  LET p == <<"worker", "release">> IN
  /\ Consume(p) /\ Current(p)
  /\ released' \in Files
  /\ Unedited \/ released' = released
  /\ UNCHANGED <<facts, dispatched, artifact, tester, seen, passed>>

-----------------------------------------------------------------------------
(* test_artifact, in a thread of its own for each build                    *)

To(r, place) == tester' = [tester EXCEPT ![r] = place]

Read(r) ==
  /\ tester[r] = "reading"
  /\ \/ artifact = Missing /\ To(r, "done")
     \/ artifact # Missing /\ To(r, "reporting")
  /\ seen' = [seen EXCEPT ![r] = artifact]
  /\ UNCHANGED <<facts, dispatched, pending, artifact, released, passed>>

(* The result is not about what was built last.                            *)
Outdated_StateOnly(r) == state # "built"
Outdated(r) == state # "built" \/ r # revision

(* observe_tests; a missing artifact raises where it is read again.        *)
Observe(r) ==
  /\ tester[r] = "reporting"
  /\ \/ /\ Outdated(r)
        /\ To(r, "done")
        /\ UNCHANGED <<facts, passed>>
     \/ /\ ~Outdated(r)
        /\ seen[r] # Good \/ seen[r] # artifact
        /\ To(r, "done")
        /\ IF seen[r] = Good /\ artifact = Missing
             THEN UNCHANGED facts
             ELSE Invalidate
        /\ UNCHANGED passed
     \/ /\ ~Outdated(r)
        /\ seen[r] = Good /\ seen[r] = artifact
        /\ testedRevision' = r
        /\ testedDigest' = seen[r]
        /\ state' = "verified"
        /\ epoch' = epoch + 1
        /\ passed' = passed \cup {<<r, seen[r]>>}
        /\ To(r, IF r = 1 THEN "withdrawing" ELSE "done")
        /\ UNCHANGED revision
  /\ UNCHANGED <<dispatched, pending, artifact, released, seen>>

(* The environment of the first revision changes after its test passed.    *)
Withdraw(r) ==
  /\ tester[r] = "withdrawing"
  /\ Invalidate
  /\ To(r, "done")
  /\ UNCHANGED <<dispatched, pending, artifact, released, seen, passed>>

(* Anybody edits or removes the artifact (external).                       *)
Edit ==
  /\ artifact' \in Files
  /\ UNCHANGED <<facts, dispatched, pending, released, tester, seen, passed>>

Next ==
  \/ \E p \in Pairs : Admit(p) \/ Expire(p) \/ Refuse(p)
  \/ Dispatch \/ Build \/ BuildFails \/ Release \/ ReleaseFails
  \/ \E r \in Revisions : Read(r) \/ Observe(r) \/ Withdraw(r)
  \/ Edit

Spec == Init /\ [][Next]_vars

-----------------------------------------------------------------------------
(* Properties                                                              *)

(* Every variable holds a value of its kind, and only the actor whose role *)
(* it is ever holds a reservation for an action.                           *)
TypeOK ==
  /\ state \in States
  /\ revision \in 0 .. MaxRevision
  /\ testedRevision \in 0 .. MaxRevision
  /\ testedDigest \in Files
  /\ epoch \in Nat
  /\ dispatched \in BOOLEAN
  /\ pending \in [Pairs -> Grants \cup {NoGrant}]
  /\ artifact \in Files /\ released \in Files
  /\ tester \in [Revisions -> {"none", "reading", "reporting", "withdrawing",
                               "done"}]
  /\ seen \in [Revisions -> Files]
  /\ passed \subseteq Revisions \X Contents
  /\ \A p \in Pairs : pending[p] # NoGrant =>
       p \in {<<"codex", "dispatch">>, <<"worker", "build">>,
              <<"worker", "release">>}

(* A verdict is about the last build: whenever the session is verified or  *)
(* released, the tester passed the current revision with the recorded      *)
(* bytes, and otherwise no verdict stands.  A result that comes back after *)
(* a newer build is ignored (supervisor.py:104-121).                       *)
VerdictIsCurrent ==
  IF state \in {"verified", "released"}
    THEN testedRevision = revision /\ <<revision, testedDigest>> \in passed
    ELSE testedRevision = 0 /\ testedDigest = Missing

(* "The specification forbids releasing an unverified or changed artifact" *)
(* (examples/supervisory-control/README.md, System and specification):     *)
(* what was released is byte for byte what the tester passed for the last  *)
(* revision, however the artifact was edited since.                        *)
ReleasedIsTested ==
  state = "released" => /\ released = testedDigest
                        /\ <<revision, released>> \in passed

(* "A changed state invalidates permissions issued against older state"    *)
(* (supervisor.py:22): a reservation whose epoch is current was granted on *)
(* the very state, revision and verdict that hold now.                     *)
ReservationIsCurrent ==
  \A p \in Pairs :
    pending[p] # NoGrant /\ pending[p].epoch = epoch =>
      pending[p].basis = Basis

(* A release is final: no late test result, and no invalidation that was   *)
(* already on its way, takes the session out of "released" or touches the  *)
(* released file (supervisor.py:123-129, 135-137).                         *)
ReleaseIsFinal ==
  [][state = "released" => UNCHANGED <<facts, released>>]_vars
=============================================================================
