---------------------------- MODULE HydrateSlot ----------------------------
(***************************************************************************)
(* hydrate/hydrate.go, cmd/pitot/upgrade.go and the shims of               *)
(* cmd/pitot/shim.go: processes that fill the binary's cache slot and move *)
(* the pin.  A process is an upgrade (which calls Ensure), a shim, or an   *)
(* init that writes the pin of a repository without one.                   *)
(*                                                                         *)
(* A process that fails before it touched a file takes no step: a shim     *)
(* without a valid pin, an upgrade to the version that is pinned.          *)
(***************************************************************************)
EXTENDS Naturals, FiniteSets

CONSTANTS
  Procs,
  Versions,
  Protocols,
  Speaks,     \* version -> the protocol its binary speaks
  Nobody,     \* no lock directory
  Unpinned,   \* .pitot/version does not exist
  Truncated   \* it exists and is empty

ASSUME SlotAssumption ==
  /\ Versions # {}
  /\ Speaks \in [Versions -> Protocols]
  /\ Nobody \notin Procs
  /\ {Unpinned, Truncated} \cap Versions = {}
  /\ Unpinned # Truncated

VARIABLES
  platform,   \* "posix" or "windows": which shim runs
  pin,        \* .pitot/version
  pinner,     \* what wrote it last: "commit", "init" or "upgrade" (history)
  slot,       \* version -> what its slot holds
  writes,     \* version -> how often its slot was written (history)
  lock,       \* version -> who made .hydrate-lock, or Nobody
  stuck,      \* who failed to remove its own lock (history)
  floors,     \* the protocols the tenants' fragments require
  vouched,    \* <<version, floors>> an upgrade found to fit (history)
  pc,
  role,
  ver,        \* the version the process works on
  got,        \* the archive it downloaded
  calls,      \* how often it ran the binary
  exit        \* how the last of these ended

locks == <<lock, stuck>>
files == <<pin, pinner, slot, writes, locks, floors>>
procs == <<pc, role, ver, got, calls, exit>>
vars  == <<platform, files, vouched, procs>>

Roles    == {"upgrade", "shim", "init"}
Ended    == {"done", "failed", "crashed"}
Working  == {"check", "lock", "slept", "recheck", "fetch", "verify", "publish",
             "unlock", "abort", "exec", "validate", "truncate", "write"}

(* What a download yields: nothing, the release, or something else.        *)
Archives == {"none", "release", "damaged"}

Init ==
  /\ platform \in {"posix", "windows"}
  /\ pin \in Versions \cup {Unpinned}
  /\ pinner = "commit"
  /\ slot \in [Versions -> {"none", "release"}]
  /\ writes = [v \in Versions |-> 0]
  /\ lock = [v \in Versions |-> Nobody]
  /\ stuck = {}
  /\ floors \in SUBSET Protocols
  /\ vouched = {}
  /\ pc = [p \in Procs |-> "idle"]
  /\ role \in [Procs -> Roles]
  /\ ver = [p \in Procs |-> CHOOSE v \in Versions : TRUE]
  /\ got = [p \in Procs |-> "none"]
  /\ calls = [p \in Procs |-> 0]
  /\ exit = [p \in Procs |-> "none"]

At(p, place) == pc[p] = place
To(p, place) == pc' = [pc EXCEPT ![p] = place]

(* A shim that takes no lock: the Windows one.                             *)
Lockless(p) == platform = "windows" /\ role[p] = "shim"

Filled(p) == slot[ver[p]] # "none"

(* Where a process goes once the slot is filled.                           *)
After(p) == IF role[p] = "upgrade" THEN "validate" ELSE "exec"

-----------------------------------------------------------------------------
(* Start                                                                   *)

StartUpgrade(p, v) ==
  /\ At(p, "idle") /\ role[p] = "upgrade"
  /\ pin # v
  /\ ver' = [ver EXCEPT ![p] = v]
  /\ To(p, "check")
  /\ UNCHANGED <<platform, files, vouched, role, got, calls, exit>>

(* The shim takes the version from the pin and nothing else.               *)
StartShim(p) ==
  /\ At(p, "idle") /\ role[p] = "shim"
  /\ pin \in Versions
  /\ ver' = [ver EXCEPT ![p] = pin]
  /\ To(p, "check")
  /\ UNCHANGED <<platform, files, vouched, role, got, calls, exit>>

(* A released binary pins itself where there is no pin.                    *)
StartInit(p, v) ==
  /\ At(p, "idle") /\ role[p] = "init"
  /\ pin = Unpinned
  /\ ver' = [ver EXCEPT ![p] = v]
  /\ To(p, "truncate")
  /\ UNCHANGED <<platform, files, vouched, role, got, calls, exit>>

-----------------------------------------------------------------------------
(* The lock                                                                *)

(* A filled slot is used as it is; a miss may meet the kill switch.        *)
Check(p) ==
  /\ At(p, "check")
  /\ \/ Filled(p) /\ To(p, After(p))
     \/ ~Filled(p) /\ To(p, IF Lockless(p) THEN "fetch" ELSE "lock")
     \/ ~Filled(p) /\ To(p, "failed")
  /\ UNCHANGED <<platform, files, vouched, role, ver, got, calls, exit>>

Lock(p) ==
  /\ At(p, "lock")
  /\ lock[ver[p]] = Nobody
  /\ lock' = [lock EXCEPT ![ver[p]] = p]
  /\ To(p, "recheck")
  /\ UNCHANGED <<platform, pin, pinner, slot, writes, stuck, floors, vouched,
                 role, ver, got, calls, exit>>

Sleep(p) ==
  /\ At(p, "lock")
  /\ lock[ver[p]] # Nobody
  /\ To(p, "slept")
  /\ UNCHANGED <<platform, files, vouched, role, ver, got, calls, exit>>

(* The shim leaves the loop once the slot is there, without the lock.      *)
Wake(p) ==
  /\ At(p, "slept")
  /\ To(p, IF role[p] = "shim" /\ Filled(p) THEN "recheck" ELSE "lock")
  /\ UNCHANGED <<platform, files, vouched, role, ver, got, calls, exit>>

(* The deadline, a cancelled context, or an error other than "exists".     *)
GiveUp(p) ==
  /\ At(p, "lock")
  /\ To(p, "failed")
  /\ UNCHANGED <<platform, files, vouched, role, ver, got, calls, exit>>

Recheck_Blind(p) ==
  /\ At(p, "recheck")
  /\ To(p, "fetch")
  /\ UNCHANGED <<platform, files, vouched, role, ver, got, calls, exit>>

(* Another process may have filled the slot.  The shim's mktemp may fail   *)
(* here, before its trap is set: the lock directory stays behind.          *)
Recheck(p) ==
  /\ At(p, "recheck")
  /\ \/ Filled(p) /\ To(p, "unlock")
     \/ ~Filled(p) /\ To(p, "fetch")
     \/ ~Filled(p) /\ role[p] = "shim" /\ To(p, "failed")
  /\ UNCHANGED <<platform, files, vouched, role, ver, got, calls, exit>>

-----------------------------------------------------------------------------
(* Download, verify, publish                                               *)

Fetch(p) ==
  /\ At(p, "fetch")
  /\ \E a \in Archives :
       /\ got' = [got EXCEPT ![p] = a]
       /\ To(p, IF a = "none" THEN "abort" ELSE "verify")
  /\ UNCHANGED <<platform, files, vouched, role, ver, calls, exit>>

Verified(p) == got[p] = "release"

(* The checksum decides; extracting and staging may still fail.            *)
Verify(p) ==
  /\ At(p, "verify")
  /\ \/ Verified(p) /\ To(p, "publish")
     \/ To(p, "abort")
  /\ UNCHANGED <<platform, files, vouched, role, ver, got, calls, exit>>

(* One rename.  Move-Item refuses to replace a file that is there.         *)
Publish(p) ==
  /\ At(p, "publish")
  /\ \/ /\ ~(Lockless(p) /\ Filled(p))
        /\ slot' = [slot EXCEPT ![ver[p]] = got[p]]
        /\ writes' = [writes EXCEPT ![ver[p]] = @ + 1]
        /\ To(p, "unlock")
     \/ To(p, "abort") /\ UNCHANGED <<slot, writes>>
  /\ UNCHANGED <<platform, pin, pinner, locks, floors, vouched, role, ver, got,
                 calls, exit>>

RemoveLock_OnSuccess(p) ==
  lock' = IF Lockless(p) \/ At(p, "abort") THEN lock
            ELSE [lock EXCEPT ![ver[p]] = Nobody]

(* Whoever's the directory is: neither rmdir nor os.Remove asks.           *)
RemoveLock(p) ==
  lock' = IF Lockless(p) THEN lock ELSE [lock EXCEPT ![ver[p]] = Nobody]

(* An error of the removal is nobody's: it is not looked at.               *)
RemoveFails(p) ==
  /\ ~Lockless(p) /\ lock[ver[p]] # Nobody
  /\ stuck' = stuck \cup ({p} \cap {lock[ver[p]]})
  /\ UNCHANGED lock

Unlock(p) ==
  /\ \/ At(p, "unlock") /\ To(p, After(p))
     \/ At(p, "abort") /\ To(p, "failed")
  /\ \/ RemoveLock(p) /\ UNCHANGED stuck
     \/ RemoveFails(p)
  /\ UNCHANGED <<platform, pin, pinner, slot, writes, floors, vouched, role,
                 ver, got, calls, exit>>

-----------------------------------------------------------------------------
(* What follows                                                            *)

(* Somebody has only just put the binary there.                            *)
JustPublished(p) ==
  \E q \in Procs \ {p} : At(q, "unlock") /\ ver[q] = ver[p]
                          /\ got[q] = "release"

(* The shell runs under set -e, so the first failure ends the shim and the *)
(* loop around the call never comes round again.                           *)
Exec(p) ==
  /\ At(p, "exec")
  /\ \E code \in {"ok", "busy"} :
       /\ code = "busy" => platform = "posix" /\ JustPublished(p)
       /\ exit' = [exit EXCEPT ![p] = code]
  /\ calls' = [calls EXCEPT ![p] = @ + 1]
  /\ To(p, "done")
  /\ UNCHANGED <<platform, files, vouched, role, ver, got>>

Fits_Anyway(p) == TRUE
Fits(p) == floors \subseteq {Speaks[ver[p]]}

(* The configuration must be sound and every fragment's protocol spoken.   *)
Validate(p) ==
  /\ At(p, "validate")
  /\ \/ /\ Fits(p)
        /\ To(p, "truncate")
        /\ vouched' = vouched \cup {<<ver[p], floors>>}
     \/ To(p, "failed") /\ UNCHANGED vouched
  /\ UNCHANGED <<platform, files, role, ver, got, calls, exit>>

(* os.WriteFile empties the file and then writes it.                       *)
Truncate(p) ==
  /\ At(p, "truncate")
  /\ \/ To(p, "write") /\ pin' = Truncated
     \/ To(p, "failed") /\ UNCHANGED pin
  /\ UNCHANGED <<platform, pinner, slot, writes, locks, floors, vouched, role,
                 ver, got, calls, exit>>

Write(p) ==
  /\ At(p, "write")
  /\ pin' = ver[p]
  /\ pinner' = role[p]
  /\ To(p, "done")
  /\ UNCHANGED <<platform, slot, writes, locks, floors, vouched, role, ver, got,
                 calls, exit>>

-----------------------------------------------------------------------------
(* Around them (external)                                                  *)

Crash(p) ==
  /\ pc[p] \in Working
  /\ To(p, "crashed")
  /\ UNCHANGED <<platform, files, vouched, role, ver, got, calls, exit>>

(* A tool registers a fragment.                                            *)
AddTenant(f) ==
  /\ floors' = floors \cup {f}
  /\ UNCHANGED <<platform, pin, pinner, slot, writes, locks, vouched, procs>>

(* "remove it if the holder crashed"                                       *)
UnlockByHand(v) ==
  /\ lock[v] # Nobody
  /\ pc[lock[v]] \in Ended
  /\ lock' = [lock EXCEPT ![v] = Nobody]
  /\ UNCHANGED <<platform, pin, pinner, slot, writes, stuck, floors, vouched,
                 procs>>

Next ==
  \/ \E p \in Procs :
       \/ \E v \in Versions : StartUpgrade(p, v) \/ StartInit(p, v)
       \/ StartShim(p)
       \/ Check(p) \/ Lock(p) \/ Sleep(p) \/ Wake(p) \/ GiveUp(p) \/ Recheck(p)
       \/ Fetch(p) \/ Verify(p) \/ Publish(p) \/ Unlock(p)
       \/ Exec(p) \/ Validate(p) \/ Truncate(p) \/ Write(p)
       \/ Crash(p)
  \/ \E f \in Protocols : AddTenant(f)
  \/ \E v \in Versions : UnlockByHand(v)

Spec == Init /\ [][Next]_vars

-----------------------------------------------------------------------------
(* Properties                                                              *)

(* Every variable holds a value of its kind, and no slot anything but a    *)
(* binary of a verified release archive, whoever filled it.                *)
TypeOK ==
  /\ platform \in {"posix", "windows"}
  /\ pin \in Versions \cup {Unpinned, Truncated}
  /\ pinner \in Roles \cup {"commit"}
  /\ slot \in [Versions -> {"none", "release"}]
  /\ writes \in [Versions -> Nat]
  /\ lock \in [Versions -> Procs \cup {Nobody}]
  /\ stuck \subseteq Procs
  /\ floors \subseteq Protocols
  /\ vouched \subseteq Versions \X SUBSET Protocols
  /\ pc \in [Procs -> Working \cup Ended \cup {"idle"}]
  /\ role \in [Procs -> Roles]
  /\ ver \in [Procs -> Versions]
  /\ got \in [Procs -> Archives]
  /\ calls \in [Procs -> Nat]
  /\ exit \in [Procs -> {"none", "ok", "busy"}]

(* "Slot returns the write-once binary path" (hydrate.go:108): a slot only *)
(* ever holds a verified release, and with the POSIX shim it is written at *)
(* most once, whoever waits for whom, who crashes, and although a shim     *)
(* that leaves the loop removes a lock that is not its own (shim.go:81-83, *)
(* 119).  The Windows shim takes no lock, and beside it an upgrade can     *)
(* replace what the shim has just put there.                               *)
PublishedOnce ==
  \A v \in Versions :
    /\ slot[v] \in {"none", "release"}
    /\ platform = "posix" => writes[v] <= 1

(* A lock directory is left behind only by a process that died holding it  *)
(* (it crashed, or was a shim whose mktemp failed before the trap was set, *)
(* shim.go:86-88), or whose removal of it failed (hydrate.go:236).  Every  *)
(* other failure gives the lock back.                                      *)
LockIsAccounted ==
  \A v \in Versions : lock[v] # Nobody =>
    LET p == lock[v] IN
      /\ ver[p] = v
      /\ \/ pc[p] \in {"recheck", "fetch", "verify", "publish", "unlock",
                       "abort", "crashed"}
         \/ role[p] = "shim" /\ got[p] = "none" /\ pc[p] = "failed"
         \/ p \in stuck

(* "The new binary must exist and verify before the pin moves", and "every *)
(* tenant must still hold under the new binary" (upgrade.go:80, 85): a pin *)
(* an upgrade wrote names a filled slot and a version whose protocol every *)
(* tenant of the time of the check required.                               *)
PinIsReady ==
  pin \in Versions /\ pinner = "upgrade" =>
    /\ slot[pin] = "release"
    /\ \E F \in SUBSET {Speaks[pin]} : <<pin, F>> \in vouched

(* "retry a few times before giving up" (shim.go:123-124): no shim ends on *)
(* text-file-busy after a single invocation of the binary.                 *)
BusyIsRetried == \A p \in Procs : exit[p] = "busy" => calls[p] > 1
=============================================================================
