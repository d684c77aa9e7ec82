-------------------------- MODULE RuntimeOwnership --------------------------
(***************************************************************************)
(* runtime/transport.go and runtime/ownership.go: processes that start a   *)
(* runtime on one descriptor path (Server.Serve), the advisory lock beside *)
(* it, the descriptor file, and the loopback ports it may name.  Every     *)
(* process may crash between any two steps: the operating system then      *)
(* drops its lock and its listener, and the descriptor file stays.  Other  *)
(* programs (external) may take a port a crashed runtime had.              *)
(***************************************************************************)
EXTENDS Naturals

CONSTANTS
  Starters,   \* processes that run Serve on this path
  Ports,      \* loopback ports the system may hand out
  Free,       \* nobody holds the lock or the port
  Other,      \* a program that is no runtime of this path
  Absent,     \* no descriptor file
  Damaged,    \* a descriptor file that does not load or names no loopback
  MaxStarts   \* bound on the number of runtimes ever started

Descriptor == [instance : 0 .. MaxStarts, port : Ports]
Files == Descriptor \cup {Absent, Damaged}

ASSUME OwnershipAssumption ==
  /\ Free \notin Starters \cup {Other} /\ Other \notin Starters
  /\ Absent # Damaged /\ {Absent, Damaged} \cap Descriptor = {}
  /\ MaxStarts \in Nat

VARIABLES
  pc,          \* where each process is in Serve
  lock,        \* who holds the companion lock file
  descriptor,  \* the descriptor file
  listener,    \* port -> the process that listens on it
  instance,    \* the instance ID of each process, 0 before it has one
  starts       \* how many instance IDs were handed out

vars == <<pc, lock, descriptor, listener, instance, starts>>

(* The path is clean, damaged, or holds what instance 0 left in a crash.   *)
Init ==
  /\ pc = [s \in Starters |-> "down"]
  /\ lock = Free
  /\ descriptor \in {Absent, Damaged}
                      \cup {[instance |-> 0, port |-> p] : p \in Ports}
  /\ listener \in [Ports -> {Free, Other}]
  /\ instance = [s \in Starters |-> 0]
  /\ starts = 0

(* Variants named X_Fault are X with a plausible mistake in it; a property *)
(* that no such variant can break would say nothing about the code.        *)

Move(s, from, to) == pc[s] = from /\ pc' = [pc EXCEPT ![s] = to]

-----------------------------------------------------------------------------
(* Start-up                                                                *)

LockFree_Unchecked == TRUE
LockFree == lock = Free

(* acquireRuntimeOwnership: an exclusive, non-blocking lock.  A process    *)
(* that does not get it returns an error and is no step here.              *)
Acquire(s) ==
  /\ starts < MaxStarts
  /\ LockFree
  /\ Move(s, "down", "locked")
  /\ lock' = s
  /\ starts' = starts + 1
  /\ instance' = [instance EXCEPT ![s] = starts + 1]
  /\ UNCHANGED <<descriptor, listener>>

(* The listeners once process s has closed its own, if it has any.         *)
Closed(s) == [p \in Ports |-> IF listener[p] = s THEN Free ELSE listener[p]]

(* An error return before the descriptor is published: the listener and    *)
(* the lock are released by the deferred calls.  The end of the process    *)
(* releases the same.                                                      *)
GiveUp(s) ==
  /\ pc' = [pc EXCEPT ![s] = "down"]
  /\ lock' = IF lock = s THEN Free ELSE lock
  /\ listener' = Closed(s)
  /\ UNCHANGED <<descriptor, instance, starts>>

(* The file loads, and its endpoint refuses a direct connection: nobody    *)
(* listens there.                                                          *)
Stale_OrDamaged(file) == file \in Descriptor => listener[file.port] = Free
Stale(file) == file \in Descriptor /\ listener[file.port] = Free

(* prepareRuntimePath looks at the descriptor: without one the path is     *)
(* clear, and only a refused connection shows its owner dead.  A damaged   *)
(* file, a listener that answers as the runtime or as something else, a    *)
(* probe that times out and a failing Stat all end the start.              *)
Probe(s) ==
  /\ pc[s] = "locked"
  /\ \/ /\ descriptor = Absent
        /\ Move(s, "locked", "clear")
        /\ UNCHANGED <<lock, descriptor, listener, instance, starts>>
     \/ /\ descriptor # Absent
        /\ Stale(descriptor)
        /\ Move(s, "locked", "removing")
        /\ UNCHANGED <<lock, descriptor, listener, instance, starts>>
     \/ GiveUp(s)

(* Its last step: os.Remove of the stale file, which may fail.             *)
RemoveStale(s) ==
  \/ /\ Move(s, "removing", "clear")
     /\ descriptor' = Absent
     /\ UNCHANGED <<lock, listener, instance, starts>>
  \/ pc[s] = "removing" /\ GiveUp(s)

(* net.Listen on port 0: the system picks a free port, or fails.           *)
Listen(s) ==
  \/ /\ Move(s, "clear", "listening")
     /\ \E p \in Ports : /\ listener[p] = Free
                         /\ listener' = [listener EXCEPT ![p] = s]
     /\ UNCHANGED <<lock, descriptor, instance, starts>>
  \/ pc[s] = "clear" /\ GiveUp(s)

(* writeDescriptor renames a complete file into place, or fails before it. *)
(* When the check after the rename fails, Serve returns with the file      *)
(* still there, for the next start to find stale.                          *)
Publish(s) ==
  \/ \E p \in Ports :
       /\ listener[p] = s
       /\ descriptor' = [instance |-> instance[s], port |-> p]
       /\ \/ /\ Move(s, "listening", "serving")
             /\ UNCHANGED <<lock, listener>>
          \/ /\ Move(s, "listening", "down")
             /\ lock' = Free
             /\ listener' = Closed(s)
       /\ UNCHANGED <<instance, starts>>
  \/ pc[s] = "listening" /\ GiveUp(s)

-----------------------------------------------------------------------------
(* Shut-down: the deferred calls run in the reverse of their order         *)

(* server.Shutdown and server.Close end the listener.                      *)
StopServing_Unlocks(s) ==
  /\ Move(s, "serving", "stopped")
  /\ listener' = Closed(s)
  /\ lock' = Free
  /\ UNCHANGED <<descriptor, instance, starts>>

StopServing(s) ==
  /\ Move(s, "serving", "stopped")
  /\ listener' = Closed(s)
  /\ UNCHANGED <<lock, descriptor, instance, starts>>

(* removeDescriptorIfOwned reads the file, compares the instance, and only *)
(* then removes it.                                                        *)
CheckOwn(s) ==
  /\ \/ /\ descriptor \in Descriptor /\ descriptor.instance = instance[s]
        /\ Move(s, "stopped", "disowning")
     \/ /\ ~(descriptor \in Descriptor /\ descriptor.instance = instance[s])
        /\ Move(s, "stopped", "released")
  /\ UNCHANGED <<lock, descriptor, listener, instance, starts>>

(* os.Remove, whose error is ignored.                                      *)
RemoveOwn(s) ==
  /\ Move(s, "disowning", "released")
  /\ descriptor' \in {Absent, descriptor}
  /\ UNCHANGED <<lock, listener, instance, starts>>

Unlock(s) ==
  /\ Move(s, "released", "down")
  /\ lock' = IF lock = s THEN Free ELSE lock
  /\ UNCHANGED <<descriptor, listener, instance, starts>>

Crash(s) ==
  /\ pc[s] # "down"
  /\ GiveUp(s)

-----------------------------------------------------------------------------
(* Other programs (external)                                               *)

OtherListens(p) ==
  /\ listener[p] = Free
  /\ listener' = [listener EXCEPT ![p] = Other]
  /\ UNCHANGED <<pc, lock, descriptor, instance, starts>>

OtherLeaves(p) ==
  /\ listener[p] = Other
  /\ listener' = [listener EXCEPT ![p] = Free]
  /\ UNCHANGED <<pc, lock, descriptor, instance, starts>>

Serve(s) ==
  \/ Acquire(s) \/ Probe(s) \/ RemoveStale(s) \/ Listen(s) \/ Publish(s)
  \/ StopServing(s) \/ CheckOwn(s) \/ RemoveOwn(s) \/ Unlock(s)

Next ==
  \/ \E s \in Starters : Serve(s) \/ Crash(s)
  \/ \E p \in Ports : OtherListens(p) \/ OtherLeaves(p)

Spec == Init /\ [][Next]_vars

-----------------------------------------------------------------------------
(* Properties                                                              *)

Starting == {"locked", "removing", "clear", "listening"}
Stopping == {"stopped", "disowning", "released"}
Places   == {"down", "serving"} \cup Starting \cup Stopping

(* Every variable holds a value of its kind, and only a process that       *)
(* started to listen and has not ended still holds a port.                 *)
TypeOK ==
  /\ pc \in [Starters -> Places]
  /\ lock \in Starters \cup {Free}
  /\ descriptor \in Files
  /\ listener \in [Ports -> Starters \cup {Free, Other}]
  /\ instance \in [Starters -> 0 .. MaxStarts]
  /\ starts \in 0 .. MaxStarts
  /\ \A p \in Ports, s \in Starters :
       listener[p] = s => pc[s] \in {"listening", "serving"}

(* One owner per path: of all processes past the lock at most one is       *)
(* alive, so two runtimes never serve the same path (ownership.go:10-11).  *)
SingleOwner ==
  \A s \in Starters : pc[s] # "down" <=> lock = s

(* A live runtime can be found: while a process serves, the path names its *)
(* instance and a port it really listens on.  No other starter, and no     *)
(* late clean-up of an older runtime, removes or replaces that file        *)
(* (transport.go:55-86, 437-486).                                          *)
LiveRuntimeIsPublished ==
  \A s \in Starters :
    pc[s] = "serving" =>
      /\ descriptor \in Descriptor
      /\ descriptor.instance = instance[s]
      /\ listener[descriptor.port] = s

(* removeDescriptorIfOwned compares the instance and removes the path in   *)
(* two steps; what it removes is nevertheless always the file of the       *)
(* process itself (transport.go:481-486).                                  *)
CleanupRemovesOwn ==
  [][\A s \in Starters :
       pc[s] = "disowning" /\ descriptor' # descriptor =>
         descriptor \in Descriptor /\ descriptor.instance = instance[s]
    ]_vars

(* A damaged descriptor is kept for the operator: no start removes or      *)
(* overwrites it, whoever crashes (transport.go:446-449).                  *)
DamagedIsKept == [][descriptor = Damaged => descriptor' = Damaged]_vars
=============================================================================
