------------------------- MODULE HydrateSlotProofs -------------------------
(***************************************************************************)
(* Theorems of HydrateSlot for any number of processes and versions, with  *)
(* crashes between any two steps.  That a slot is written once does not    *)
(* rest on the lock alone, since a shim that leaves the loop removes a     *)
(* lock that is not its own.  While the slot is empty, nobody removes a    *)
(* lock but its holder, so whoever may still write holds it; once the slot *)
(* is filled, nobody may write any more, and the lock has lost its use.    *)
(***************************************************************************)
EXTENDS HydrateSlot, TLAPS

Vouched(v) == \E F \in SUBSET {Speaks[v]} : <<v, F>> \in vouched

(* What a process knows where it is.                                       *)
ProcInv ==
  \A p \in Procs :
    /\ pc[p] \in {"idle", "check", "lock", "slept", "recheck", "fetch"} =>
         got[p] = "none"
    /\ pc[p] = "publish" => got[p] = "release"
    /\ pc[p] = "unlock" => slot[ver[p]] = "release"
    /\ pc[p] \in {"lock", "slept", "recheck"} => ~Lockless(p)
    /\ role[p] = "upgrade" /\ pc[p] \in {"validate", "truncate", "write"} =>
         slot[ver[p]] = "release"
    /\ role[p] = "upgrade" /\ pc[p] \in {"truncate", "write"} =>
         Vouched(ver[p])

(* Who failed to remove a lock has left the start behind.                  *)
StuckInv == \A p \in Procs : p \in stuck => pc[p] # "idle"

(* A holder is somebody who locks.                                         *)
HolderLocks == \A v \in Versions : lock[v] # Nobody => ~Lockless(lock[v])

(* On POSIX: before the slot is filled, and after.                         *)
OnceInv ==
  platform = "posix" =>
    \A v \in Versions :
      /\ slot[v] = "none" =>
           /\ writes[v] = 0
           /\ \A p \in Procs :
                ver[p] = v /\ pc[p] \in {"recheck", "fetch", "verify",
                                         "publish", "abort"} => lock[v] = p
      /\ slot[v] = "release" =>
           /\ writes[v] \in {0, 1}
           /\ \A p \in Procs :
                ver[p] = v => pc[p] \notin {"fetch", "verify", "publish"}

Inv == /\ TypeOK /\ ProcInv /\ StuckInv /\ HolderLocks /\ OnceInv
       /\ LockIsAccounted /\ PinIsReady

(* The steps of one process.                                               *)
Act(p) ==
  \/ \E v \in Versions : StartUpgrade(p, v) \/ StartInit(p, v)
  \/ StartShim(p)
  \/ Check(p) \/ Lock(p) \/ Sleep(p) \/ Wake(p) \/ GiveUp(p) \/ Recheck(p)
  \/ Fetch(p) \/ Verify(p) \/ Publish(p) \/ Unlock(p)
  \/ Exec(p) \/ Validate(p) \/ Truncate(p) \/ Write(p)
  \/ Crash(p)

LEMMA InitInv == Init => Inv
<1> USE SlotAssumption DEF Init, SlotAssumption
<1>1. Init => TypeOK
  BY DEF TypeOK, Roles, Working, Ended, Archives
<1>2. Init => ProcInv /\ StuckInv
  BY DEF ProcInv, StuckInv
<1>3. Init => HolderLocks /\ LockIsAccounted
  BY DEF HolderLocks, LockIsAccounted
<1>4. Init => OnceInv
  BY DEF OnceInv
<1>5. Init => PinIsReady
  BY DEF PinIsReady
<1> QED BY <1>1, <1>2, <1>3, <1>4, <1>5 DEF Inv

-----------------------------------------------------------------------------
(* What an action leaves alone.                                            *)

(* A step of one process moves no other, and the environment moves none.   *)
LEMMA OthersStay ==
  ASSUME NEW p \in Procs, Act(p), TypeOK, NEW q \in Procs \ {p}
  PROVE  pc'[q] = pc[q] /\ ver'[q] = ver[q] /\ got'[q] = got[q]
BY DEF Act, TypeOK, StartUpgrade, StartInit, StartShim, Check, Lock, Sleep,
       Wake, GiveUp, Recheck, Fetch, Verify, Publish, Unlock, Exec, Validate,
       Truncate, Write, Crash, To, procs

(* Who failed to remove a lock remains known.                              *)
LEMMA StuckStay ==
  ASSUME NEW p \in Procs, Act(p)
  PROVE  stuck \subseteq stuck' /\ stuck' \subseteq stuck \cup {p}
BY DEF Act, StartUpgrade, StartInit, StartShim, Check, Lock, Sleep,
       Wake, GiveUp, Recheck, Fetch, Verify, Publish, Unlock, RemoveFails,
       Exec, Validate, Truncate, Write, Crash, files, locks

LEMMA RolesStay ==
  ASSUME NEW p \in Procs, Act(p)
  PROVE  UNCHANGED <<platform, role, floors>>
BY DEF Act, StartUpgrade, StartInit, StartShim, Check, Lock, Sleep,
       Wake, GiveUp, Recheck, Fetch, Verify, Publish, Unlock, Exec, Validate,
       Truncate, Write, Crash, files, procs

LEMMA SlotStays ==
  ASSUME NEW p \in Procs, Act(p), ~Publish(p)
  PROVE  UNCHANGED <<slot, writes>>
BY DEF Act, StartUpgrade, StartInit, StartShim, Check, Lock, Sleep,
       Wake, GiveUp, Recheck, Fetch, Verify, Unlock, Exec, Validate,
       Truncate, Write, Crash, files, locks

LEMMA LockStays ==
  ASSUME NEW p \in Procs, Act(p), ~Lock(p), ~Unlock(p)
  PROVE  lock' = lock
BY DEF Act, StartUpgrade, StartInit, StartShim, Check, Sleep,
       Wake, GiveUp, Recheck, Fetch, Verify, Publish, Exec, Validate,
       Truncate, Write, Crash, files, locks

LEMMA PinStays ==
  ASSUME NEW p \in Procs, Act(p), ~Truncate(p), ~Write(p)
  PROVE  UNCHANGED <<pin, pinner>>
BY DEF Act, StartUpgrade, StartInit, StartShim, Check, Lock, Sleep,
       Wake, GiveUp, Recheck, Fetch, Verify, Publish, Unlock, Exec, Validate,
       Crash, files, locks

LEMMA VouchedStays ==
  ASSUME NEW p \in Procs, Act(p), ~Validate(p)
  PROVE  vouched' = vouched
BY DEF Act, StartUpgrade, StartInit, StartShim, Check, Lock, Sleep,
       Wake, GiveUp, Recheck, Fetch, Verify, Publish, Unlock, Exec,
       Truncate, Write, Crash

(* No slot is emptied, and no verdict of an upgrade is lost.               *)
LEMMA Kept ==
  ASSUME Inv, NEW p \in Procs, Act(p)
  PROVE  /\ \A v \in Versions : slot[v] = "release" => slot'[v] = "release"
         /\ \A v \in Versions : Vouched(v) => Vouched(v)'
<1>1. \A v \in Versions : slot[v] = "release" => slot'[v] = "release"
  <2>1. CASE Publish(p)
    BY <2>1 DEF Publish, Inv, TypeOK, ProcInv, At
  <2>2. CASE ~Publish(p)
    BY <2>2, SlotStays
  <2> QED BY <2>1, <2>2
<1>2. vouched \subseteq vouched'
  <2>1. CASE Validate(p)
    BY <2>1 DEF Validate
  <2>2. CASE ~Validate(p)
    BY <2>2, VouchedStays
  <2> QED BY <2>1, <2>2
<1> QED BY <1>1, <1>2 DEF Vouched

-----------------------------------------------------------------------------
(* One part of the invariant after the other.                              *)

LEMMA TypeStep ==
  ASSUME Inv, NEW p \in Procs, Act(p)
  PROVE  TypeOK'
<1> USE DEF Inv, TypeOK, To, At, Roles, Working, Ended, Archives, files, locks,
           procs
<1>1. CASE \E v \in Versions : StartUpgrade(p, v) \/ StartInit(p, v)
  BY <1>1 DEF StartUpgrade, StartInit
<1>2. CASE StartShim(p) \/ Check(p) \/ Lock(p)
  BY <1>2 DEF StartShim, Check, Lock, After
<1>3. CASE Sleep(p) \/ Wake(p) \/ GiveUp(p) \/ Recheck(p) \/ Crash(p)
  BY <1>3 DEF Sleep, Wake, GiveUp, Recheck, Crash
<1>4. CASE Fetch(p) \/ Verify(p)
  BY <1>4 DEF Fetch, Verify
<1>5. CASE Publish(p)
  BY <1>5 DEF Publish, ProcInv
<1>6. CASE Unlock(p)
  BY <1>6 DEF Unlock, RemoveLock, RemoveFails, After
<1>7. CASE Exec(p) \/ Truncate(p) \/ Write(p)
  BY <1>7 DEF Exec, Truncate, Write
<1>8. CASE Validate(p)
  BY <1>8 DEF Validate
<1> QED BY <1>1, <1>2, <1>3, <1>4, <1>5, <1>6, <1>7, <1>8 DEF Act

LEMMA ProcStep ==
  ASSUME Inv, NEW p \in Procs, Act(p)
  PROVE  ProcInv'
<1> DEFINE Knows(q) ==
      /\ pc[q] \in {"idle", "check", "lock", "slept", "recheck", "fetch"} =>
           got[q] = "none"
      /\ pc[q] = "publish" => got[q] = "release"
      /\ pc[q] = "unlock" => slot[ver[q]] = "release"
      /\ pc[q] \in {"lock", "slept", "recheck"} => ~Lockless(q)
      /\ role[q] = "upgrade" /\ pc[q] \in {"validate", "truncate", "write"} =>
           slot[ver[q]] = "release"
      /\ role[q] = "upgrade" /\ pc[q] \in {"truncate", "write"} =>
           Vouched(ver[q])
<1> SUFFICES ASSUME NEW q \in Procs PROVE Knows(q)'
  BY DEF ProcInv
<1>1. Knows(q) /\ Knows(p)
  BY DEF Inv, ProcInv
<1>2. UNCHANGED <<platform, role>> /\ (Lockless(q) <=> Lockless(q)')
  BY RolesStay DEF Lockless
<1>3. CASE q # p
  <2>1. pc'[q] = pc[q] /\ ver'[q] = ver[q] /\ got'[q] = got[q]
    BY <1>3, OthersStay DEF Inv
  <2>2. ver[q] \in Versions
    BY DEF Inv, TypeOK
  <2> QED BY <1>1, <1>2, <2>1, <2>2, Kept
<1>4. CASE q = p
  <2> USE <1>4 DEF To, At, Filled, After
  <2>0. /\ pc \in [Procs -> Working \cup Ended \cup {"idle"}]
        /\ slot \in [Versions -> {"none", "release"}]
        /\ ver \in [Procs -> Versions] /\ got \in [Procs -> Archives]
    BY DEF Inv, TypeOK
  <2>1. CASE \E v \in Versions : StartUpgrade(p, v)
    BY <1>1, <2>0, <2>1 DEF StartUpgrade
  <2>2. CASE \E v \in Versions : StartInit(p, v)
    BY <1>1, <2>0, <2>2 DEF StartInit
  <2>3. CASE StartShim(p)
    BY <1>1, <2>0, <2>3 DEF StartShim
  <2>4. CASE Check(p)
    BY <1>1, <1>2, <2>0, <2>4 DEF Check, files
  <2>5. CASE Lock(p) \/ Sleep(p) \/ Wake(p) \/ GiveUp(p) \/ Recheck(p)
    BY <1>1, <1>2, <2>0, <2>5 DEF Lock, Sleep, Wake, GiveUp, Recheck, files
  <2>6. CASE Fetch(p)
    BY <1>1, <2>0, <2>6 DEF Fetch
  <2>7. CASE Verify(p)
    BY <1>1, <2>0, <2>7 DEF Verify, Verified
  <2>8. CASE Publish(p)
    BY <1>1, <2>0, <2>8 DEF Publish
  <2>9. CASE Unlock(p)
    BY <1>1, <1>2, <2>0, <2>9 DEF Unlock
  <2>10. CASE Exec(p) \/ Crash(p)
    BY <1>1, <2>0, <2>10 DEF Exec, Crash, Working
  <2>11. CASE Validate(p)
    <3>1. CASE To(p, "truncate") /\ Fits(p)
      <4>1. /\ <<ver[p], floors>> \in vouched' /\ ver'[p] = ver[p]
            /\ floors \in SUBSET {Speaks[ver[p]]}
        BY <2>0, <2>11, <3>1 DEF Validate, Fits
      <4>2. Vouched(ver[p])'
        BY <4>1 DEF Vouched
      <4> QED BY <1>1, <2>0, <2>11, <3>1, <4>1, <4>2 DEF Validate, files
    <3>2. CASE To(p, "failed")
      BY <2>0, <2>11, <3>2 DEF Validate
    <3> QED BY <2>11, <3>1, <3>2 DEF Validate
  <2>12. CASE Truncate(p)
    BY <1>1, <2>0, <2>12, Kept DEF Truncate
  <2>13. CASE Write(p)
    BY <2>0, <2>13 DEF Write
  <2> QED BY <2>1, <2>2, <2>3, <2>4, <2>5, <2>6, <2>7, <2>8, <2>9, <2>10,
             <2>11, <2>12, <2>13 DEF Act
<1> QED BY <1>3, <1>4

LEMMA StuckStep ==
  ASSUME Inv, NEW p \in Procs, Act(p)
  PROVE  StuckInv'
<1>1. pc \in [Procs -> Working \cup Ended \cup {"idle"}] /\ pc'[p] # "idle"
  BY DEF Inv, TypeOK, Act, To, StartUpgrade, StartInit, StartShim, Check, Lock,
         Sleep, Wake, GiveUp, Recheck, Fetch, Verify, Publish, Unlock, Exec,
         Validate, Truncate, Write, Crash, After
<1> SUFFICES ASSUME NEW q \in Procs, q \in stuck', q # p
             PROVE  pc'[q] # "idle"
  BY <1>1 DEF StuckInv
<1>2. q \in stuck /\ pc'[q] = pc[q]
  BY StuckStay, OthersStay DEF Inv
<1> QED BY <1>2 DEF Inv, StuckInv

(* A lock passes from nobody to a process that locks, or back to nobody.   *)
LEMMA LockStep ==
  ASSUME Inv, NEW p \in Procs, Act(p)
  PROVE  HolderLocks' /\ LockIsAccounted'
<1> DEFINE Holding(q, v) ==
      /\ ~Lockless(q) /\ ver[q] = v
      /\ \/ pc[q] \in {"recheck", "fetch", "verify", "publish", "unlock",
                       "abort", "crashed"}
         \/ role[q] = "shim" /\ got[q] = "none" /\ pc[q] = "failed"
         \/ q \in stuck
<1> DEFINE Held(v) == lock[v] # Nobody => Holding(lock[v], v)
<1>1. UNCHANGED <<platform, role>>
  BY RolesStay
<1>2. SUFFICES ASSUME NEW v \in Versions PROVE Held(v)'
  BY DEF HolderLocks, LockIsAccounted
<1>3. Held(v) /\ (lock[v] # Nobody => lock[v] \in Procs)
  BY DEF Inv, TypeOK, HolderLocks, LockIsAccounted
<1>4. CASE lock'[v] = lock[v] /\ lock[v] # p
  <2> HAVE lock'[v] # Nobody
  <2>1. lock[v] \in Procs \ {p} /\ Holding(lock[v], v)
    BY <1>3, <1>4
  <2>2. PICK q \in Procs \ {p} : q = lock[v]
    BY <2>1
  <2>3. Holding(q, v)'
    BY <1>1, <2>1, <2>2, OthersStay, StuckStay DEF Inv, Lockless
  <2> QED BY <1>4, <2>2, <2>3
<1>5. CASE lock'[v] = lock[v] /\ lock[v] = p
  <2> HAVE lock'[v] # Nobody
  <2>1. /\ lock[v] = p /\ p # Nobody /\ Holding(p, v)
        /\ pc[p] \in {"recheck", "fetch"} => got[p] = "none"
    BY <1>3, <1>5 DEF Inv, ProcInv
  <2>2. /\ pc \in [Procs -> Working \cup Ended \cup {"idle"}]
        /\ lock \in [Versions -> Procs \cup {Nobody}]
    BY DEF Inv, TypeOK
  <2>3. Holding(p, v)'
    <3>1. CASE Unlock(p)
      BY <1>1, <1>5, <2>1, <2>2, <3>1
         DEF Unlock, RemoveLock, RemoveFails, Lockless
    <3>2. CASE Recheck(p)
      BY <1>1, <2>1, <2>2, <3>2 DEF Recheck, To, At, Lockless
    <3>3. CASE Fetch(p)
      BY <1>1, <2>1, <2>2, <3>3 DEF Fetch, To, At, Lockless
    <3>4. CASE Verify(p) \/ Publish(p) \/ Crash(p)
      BY <1>1, <2>1, <2>2, <3>4 DEF Verify, Publish, Crash, To, At, Lockless
    <3>5. CASE ~(Unlock(p) \/ Recheck(p) \/ Fetch(p) \/ Verify(p) \/ Publish(p)
                  \/ Crash(p))
      <4>1. p \in stuck => p \in stuck'
        BY StuckStay
      <4>2. p \in stuck /\ ver'[p] = ver[p] => Holding(p, v)'
        BY <1>1, <2>1, <4>1 DEF Lockless
      <4>3. p \in stuck => ver' = ver
        BY <2>1, <3>5
           DEF Act, At, Inv, StuckInv, StartUpgrade, StartInit, StartShim,
               Check, Lock, Sleep, Wake, GiveUp, Exec, Validate, Truncate,
               Write
      <4> QED BY <2>1, <2>2, <3>5, <4>2, <4>3
         DEF Act, At, StartUpgrade, StartInit, StartShim, Check, Lock, Sleep,
             Wake, GiveUp, Exec, Validate, Truncate, Write
    <3> QED BY <3>1, <3>2, <3>3, <3>4, <3>5
  <2> QED BY <1>5, <2>3
<1>6. CASE lock'[v] # lock[v]
  <2> HAVE lock'[v] # Nobody
  <2>1. ~Unlock(p)
    BY <1>6 DEF Unlock, RemoveLock, RemoveFails, Inv, TypeOK
  <2>2. Lock(p)
    BY <1>6, <2>1, LockStays
  <2>3. /\ ver[p] = v /\ lock'[v] = p /\ ver' = ver /\ pc'[p] = "recheck"
        /\ ~Lockless(p)
    BY <1>6, <2>2 DEF Lock, At, To, Inv, TypeOK, ProcInv
  <2>4. Holding(p, v)'
    BY <1>1, <2>3 DEF Lockless
  <2> QED BY <2>3, <2>4
<1> QED BY <1>4, <1>5, <1>6

(* While the slot is empty, whoever may write it holds the lock.           *)
LEMMA EmptyStep ==
  ASSUME Inv, NEW p \in Procs, Act(p), platform = "posix",
         NEW v \in Versions, slot'[v] = "none",
         NEW q \in Procs, ver'[q] = v,
         pc'[q] \in {"recheck", "fetch", "verify", "publish", "abort"}
  PROVE  lock'[v] = q
<1> DEFINE Places == {"recheck", "fetch", "verify", "publish", "abort"}
<1>1. slot[v] = "none"
  BY Kept DEF Inv, TypeOK
<1>2. \A r \in Procs : ver[r] = v /\ pc[r] \in Places => lock[v] = r
  BY <1>1 DEF Inv, OnceInv
<1>3. /\ pc \in [Procs -> Working \cup Ended \cup {"idle"}]
      /\ lock \in [Versions -> Procs \cup {Nobody}]
      /\ ver \in [Procs -> Versions]
  BY DEF Inv, TypeOK
<1>4. ~Lockless(p)
  BY DEF Lockless
<1>5. CASE ver[q] = v /\ pc[q] \in Places
  <2>1. lock[v] = q
    BY <1>2, <1>5
  <2>2. CASE Lock(p)
    BY <2>1, <2>2, SlotAssumption DEF Lock, SlotAssumption
  <2>3. CASE Unlock(p)
    <3>1. pc[p] = "unlock" => ver[p] # v
      BY <1>1 DEF Inv, ProcInv
    <3>2. ver[p] # v
      <4>1. SUFFICES ASSUME ver[p] = v PROVE FALSE
        OBVIOUS
      <4>2. pc[p] = "abort" /\ p = q
        BY <1>2, <2>1, <2>3, <3>1, <4>1 DEF Unlock, At
      <4> QED BY <1>3, <2>3, <4>2 DEF Unlock, To, At
    <3> QED BY <1>3, <1>4, <2>1, <2>3, <3>2 DEF Unlock, RemoveLock, RemoveFails
  <2> QED BY <2>1, <2>2, <2>3, LockStays
<1>6. CASE ~(ver[q] = v /\ pc[q] \in Places)
  <2>1. q = p
    BY <1>6, OthersStay DEF Inv
  <2>2. Lock(p)
    <3>1. ver'[p] = v /\ pc'[p] \in Places
      BY <2>1
    <3>2. CASE \E w \in Versions : StartUpgrade(p, w) \/ StartInit(p, w)
      BY <1>3, <3>1, <3>2 DEF StartUpgrade, StartInit, To
    <3>3. CASE StartShim(p) \/ Sleep(p) \/ GiveUp(p) \/ Crash(p)
      BY <1>3, <3>1, <3>3 DEF StartShim, Sleep, GiveUp, Crash, To
    <3>4. CASE Check(p)
      BY <1>3, <1>4, <3>1, <3>4 DEF Check, To, After
    <3>5. CASE Wake(p)
      BY <1>1, <1>3, <3>1, <3>5 DEF Wake, To, Filled
    <3>6. CASE Recheck(p) \/ Fetch(p) \/ Verify(p) \/ Publish(p)
      BY <1>3, <1>6, <2>1, <3>1, <3>6 DEF Recheck, Fetch, Verify, Publish, To, At
    <3>7. CASE Unlock(p)
      BY <1>3, <3>1, <3>7 DEF Unlock, To, After
    <3>8. CASE Exec(p) \/ Validate(p) \/ Truncate(p) \/ Write(p)
      BY <1>3, <3>1, <3>8 DEF Exec, Validate, Truncate, Write, To
    <3> QED BY <3>2, <3>3, <3>4, <3>5, <3>6, <3>7, <3>8 DEF Act
  <2> QED BY <1>3, <2>1, <2>2 DEF Lock
<1> QED BY <1>5, <1>6

(* Once it is filled, nobody is on the way to write it.                    *)
LEMMA FilledStep ==
  ASSUME Inv, NEW p \in Procs, Act(p), platform = "posix",
         NEW v \in Versions, slot'[v] = "release",
         NEW q \in Procs, ver'[q] = v
  PROVE  pc'[q] \notin {"fetch", "verify", "publish"}
<1> DEFINE Writing == {"fetch", "verify", "publish"}
<1>1. /\ pc \in [Procs -> Working \cup Ended \cup {"idle"}]
      /\ slot \in [Versions -> {"none", "release"}]
      /\ ver \in [Procs -> Versions]
  BY DEF Inv, TypeOK
<1>2. ~Lockless(p)
  BY DEF Lockless
<1>3. CASE slot[v] = "none"
  <2>1. Publish(p) /\ ver[p] = v
    <3>1. Publish(p)
      BY <1>3, SlotStays
    <3> QED BY <1>1, <1>3, <3>1 DEF Publish
  <2>2. \A r \in Procs : ver[r] = v /\ pc[r] \in Writing => lock[v] = r
    BY <1>3 DEF Inv, OnceInv
  <2>3. CASE q = p
    BY <1>1, <2>1, <2>3 DEF Publish, To
  <2>4. CASE q # p
    <3>1. lock[v] = p
      BY <2>1, <2>2 DEF Publish, At
    <3>2. ver[q] = v /\ pc'[q] = pc[q]
      BY <2>4, OthersStay DEF Inv
    <3> QED BY <2>2, <2>4, <3>1, <3>2
  <2> QED BY <2>3, <2>4
<1>4. CASE slot[v] = "release"
  <2>1. \A r \in Procs : ver[r] = v => pc[r] \notin Writing
    BY <1>4 DEF Inv, OnceInv
  <2>2. CASE q # p
    BY <2>1, <2>2, OthersStay DEF Inv
  <2>3. CASE q = p
    <3> USE <2>3 DEF To, At
    <3>1. CASE \E w \in Versions : StartUpgrade(p, w) \/ StartInit(p, w)
      BY <1>1, <3>1 DEF StartUpgrade, StartInit
    <3>2. CASE StartShim(p) \/ Sleep(p) \/ Wake(p) \/ GiveUp(p) \/ Crash(p) \/ Lock(p)
      BY <1>1, <3>2 DEF StartShim, Sleep, Wake, GiveUp, Crash, Lock
    <3>3. CASE Check(p) \/ Recheck(p)
      BY <1>1, <1>2, <1>4, <3>3 DEF Check, Recheck, After, Filled
    <3>4. CASE Fetch(p) \/ Verify(p)
      BY <1>1, <2>1, <3>4 DEF Fetch, Verify
    <3>5. CASE Publish(p) \/ Unlock(p)
      BY <1>1, <3>5 DEF Publish, Unlock, After
    <3>6. CASE Exec(p) \/ Validate(p) \/ Truncate(p) \/ Write(p)
      BY <1>1, <3>6 DEF Exec, Validate, Truncate, Write
    <3> QED BY <3>1, <3>2, <3>3, <3>4, <3>5, <3>6 DEF Act
  <2> QED BY <2>2, <2>3
<1>5. slot[v] \in {"none", "release"}
  BY <1>1
<1> QED BY <1>3, <1>4, <1>5

LEMMA OnceStep ==
  ASSUME Inv, NEW p \in Procs, Act(p)
  PROVE  OnceInv'
<1>1. platform' = platform
  BY RolesStay
<1> SUFFICES ASSUME platform = "posix", NEW v \in Versions
             PROVE  /\ slot'[v] = "none" => writes'[v] = 0
                    /\ slot'[v] = "release" => writes'[v] \in {0, 1}
  BY <1>1, EmptyStep, FilledStep DEF OnceInv
<1>2. /\ slot[v] = "none" => writes[v] = 0
      /\ slot[v] = "release" =>
           writes[v] \in {0, 1} /\ ~(pc[p] = "publish" /\ ver[p] = v)
      /\ slot[v] \in {"none", "release"}
  BY DEF Inv, OnceInv, TypeOK
<1>3. CASE Publish(p)
  BY <1>2, <1>3 DEF Publish, At, Inv, TypeOK, ProcInv
<1>4. CASE ~Publish(p)
  BY <1>2, <1>4, SlotStays
<1> QED BY <1>3, <1>4

LEMMA PinStep ==
  ASSUME Inv, NEW p \in Procs, Act(p)
  PROVE  PinIsReady'
<1> DEFINE Ready(v) == slot[v] = "release" /\ Vouched(v)
<1>1. \A v \in Versions : Ready(v) => Ready(v)'
  BY Kept
<1>2. CASE Truncate(p)
  <2>1. pin' = Truncated \/ UNCHANGED <<pin, pinner>>
    BY <1>2 DEF Truncate
  <2> QED BY <1>1, <2>1, SlotAssumption
          DEF Inv, PinIsReady, Vouched, SlotAssumption
<1>3. CASE Write(p)
  <2>1. PICK v \in Versions : v = ver[p]
    BY DEF Inv, TypeOK
  <2>2. pin' = v /\ pinner' = role[p]
    BY <1>3, <2>1 DEF Write
  <2>3. role[p] = "upgrade" => Ready(v)
    BY <1>3, <2>1 DEF Write, At, Inv, ProcInv
  <2>4. role[p] = "upgrade" => Ready(v)'
    BY <1>1, <2>3
  <2> QED BY <2>2, <2>4 DEF PinIsReady, Vouched
<1>4. CASE ~Truncate(p) /\ ~Write(p)
  <2>1. UNCHANGED <<pin, pinner>>
    BY <1>4, PinStays
  <2> QED BY <1>1, <2>1 DEF Inv, PinIsReady, Vouched
<1> QED BY <1>2, <1>3, <1>4

(* What is stated of these variables survives a step that leaves them.     *)
LEMMA Unmoved ==
  ASSUME Inv,
         UNCHANGED <<platform, pin, pinner, slot, writes, stuck, vouched, pc,
                     role, ver, got, calls, exit>>
  PROVE  /\ ProcInv' /\ StuckInv' /\ PinIsReady'
         /\ lock' = lock => HolderLocks' /\ LockIsAccounted' /\ OnceInv'
<1> USE DEF Inv
<1>1. ProcInv' /\ StuckInv'
  BY DEF ProcInv, StuckInv, Vouched, Lockless
<1>2. PinIsReady'
  BY DEF PinIsReady
<1>3. lock' = lock => HolderLocks'
  BY DEF HolderLocks, Lockless
<1>4. lock' = lock => LockIsAccounted'
  BY DEF LockIsAccounted
<1>5. lock' = lock => OnceInv'
  BY DEF OnceInv
<1> QED BY <1>1, <1>2, <1>3, <1>4, <1>5

LEMMA StepInv ==
  ASSUME Inv, [Next]_vars
  PROVE  Inv'
<1>1. ASSUME NEW p \in Procs, Act(p) PROVE Inv'
  BY <1>1, TypeStep, ProcStep, StuckStep, LockStep, OnceStep, PinStep DEF Inv
<1>2. ASSUME NEW f \in Protocols, AddTenant(f) PROVE Inv'
  <2>1. TypeOK'
    BY <1>2 DEF AddTenant, locks, procs, Inv, TypeOK
  <2> QED BY <1>2, <2>1, Unmoved DEF AddTenant, locks, procs, Inv
<1>3. ASSUME NEW v \in Versions, UnlockByHand(v) PROVE Inv'
  <2>1. /\ lock' = [lock EXCEPT ![v] = Nobody]
        /\ UNCHANGED <<platform, pin, pinner, slot, writes, stuck, floors,
                       vouched, pc, role, ver, got, calls, exit>>
    BY <1>3 DEF UnlockByHand, procs
  <2>2. lock[v] # Nobody /\ pc[lock[v]] \in Ended
    BY <1>3 DEF UnlockByHand
  <2>3. TypeOK'
    BY <2>1 DEF Inv, TypeOK
  <2>4. \A w \in Versions : lock'[w] = lock[w] \/ lock'[w] = Nobody
    BY <2>1 DEF Inv, TypeOK
  <2>5. HolderLocks'
    BY <2>1, <2>4 DEF Inv, HolderLocks, Lockless
  <2>6. LockIsAccounted'
    BY <2>1, <2>4 DEF Inv, LockIsAccounted
  <2>7. OnceInv'
    BY <2>1, <2>2 DEF Inv, OnceInv, TypeOK, Ended
  <2> QED BY <2>1, <2>3, <2>5, <2>6, <2>7, Unmoved DEF Inv
<1>4. CASE UNCHANGED vars
  <2>1. TypeOK'
    BY <1>4 DEF vars, files, locks, procs, Inv, TypeOK
  <2> QED BY <1>4, <2>1, Unmoved DEF vars, files, locks, procs, Inv
<1> QED BY <1>1, <1>2, <1>3, <1>4 DEF Next, Act

-----------------------------------------------------------------------------
(* No slot ever holds anything but a verified release, whoever filled it   *)
(* and whoever died on the way (Ensure, the shims), and every variable     *)
(* keeps a value of its kind.                                              *)
THEOREM SlotTyping == Spec => []TypeOK
<1>1. Inv => TypeOK
  BY DEF Inv
<1>2. Inv /\ [Next]_vars => Inv'
  BY StepInv
<1> QED BY <1>1, <1>2, InitInv, PTL DEF Spec

(* A slot is written at most once beside the POSIX shim, although that     *)
(* shim removes locks that are not its own.                                *)
THEOREM WrittenOnce == Spec => []PublishedOnce
<1>1. Inv => PublishedOnce
  BY DEF Inv, TypeOK, OnceInv, PublishedOnce
<1>2. Inv /\ [Next]_vars => Inv'
  BY StepInv
<1> QED BY <1>1, <1>2, InitInv, PTL DEF Spec

(* Only a process that died holding it, a shim that failed before its trap *)
(* was set, or a failed removal leaves a lock directory behind.            *)
THEOREM LockAccounted == Spec => []LockIsAccounted
<1>1. Inv => LockIsAccounted
  BY DEF Inv
<1>2. Inv /\ [Next]_vars => Inv'
  BY StepInv
<1> QED BY <1>1, <1>2, InitInv, PTL DEF Spec

(* A pin that an upgrade moved names a filled slot, and a version whose    *)
(* protocol every tenant required when it was checked (runUpgrade).        *)
THEOREM PinReady == Spec => []PinIsReady
<1>1. Inv => PinIsReady
  BY DEF Inv
<1>2. Inv /\ [Next]_vars => Inv'
  BY StepInv
<1> QED BY <1>1, <1>2, InitInv, PTL DEF Spec
=============================================================================
