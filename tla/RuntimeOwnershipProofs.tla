----------------------- MODULE RuntimeOwnershipProofs -----------------------
(***************************************************************************)
(* Theorems of RuntimeOwnership for any number of processes, ports and     *)
(* starts, whatever crashes.  That a live runtime stays published follows  *)
(* from two facts: everybody past the lock is its holder, and a starter    *)
(* that may still touch the file found it neither damaged nor alive.       *)
(***************************************************************************)
EXTENDS RuntimeOwnership, TLAPS

Own(s) == descriptor \in Descriptor /\ descriptor.instance = instance[s]

(* What a process past the probe knows of the file it may still replace or *)
(* remove.                                                                 *)
FileInv ==
  \A s \in Starters :
    /\ pc[s] \in {"removing", "clear", "listening"} => descriptor # Damaged
    /\ pc[s] = "disowning" => Own(s)

Inv == TypeOK /\ SingleOwner /\ LiveRuntimeIsPublished /\ FileInv

LEMMA InitInv == Init => Inv
BY OwnershipAssumption
   DEF Init, Inv, TypeOK, SingleOwner, LiveRuntimeIsPublished, FileInv, Files,
       Descriptor, Places, Starting, Stopping, OwnershipAssumption

LEMMA GiveUpInv ==
  ASSUME Inv, NEW s \in Starters, GiveUp(s), pc[s] # "down"
  PROVE  Inv'
<1>1. /\ pc' = [pc EXCEPT ![s] = "down"] /\ lock = s /\ lock' = Free
      /\ UNCHANGED <<descriptor, instance, starts>>
      /\ \A p \in Ports : listener'[p] = IF listener[p] = s THEN Free ELSE listener[p]
      /\ listener' \in [Ports -> Starters \cup {Free, Other}]
  BY DEF GiveUp, Closed, Inv, SingleOwner, TypeOK
<1>2. \A t \in Starters : pc'[t] = "down"
  BY <1>1 DEF Inv, SingleOwner, TypeOK
<1>3. Free \notin Starters
  BY OwnershipAssumption DEF OwnershipAssumption
<1> QED BY <1>1, <1>2, <1>3
        DEF Inv, TypeOK, SingleOwner, LiveRuntimeIsPublished, FileInv, Places

LEMMA StepInv ==
  ASSUME Inv, [Next]_vars
  PROVE  Inv'
<1> USE OwnershipAssumption DEF OwnershipAssumption, Inv
<1>1. ASSUME NEW s \in Starters, Acquire(s) PROVE Inv'
  <2>1. \A t \in Starters : pc[t] = "down"
    BY <1>1 DEF Acquire, LockFree, SingleOwner
  <2> QED BY <1>1, <2>1
          DEF Acquire, Move, TypeOK, SingleOwner, LiveRuntimeIsPublished,
              FileInv, Places, Starting
<1>2. ASSUME NEW s \in Starters, Probe(s) PROVE Inv'
  <2>1. CASE GiveUp(s)
    BY <1>2, <2>1, GiveUpInv DEF Probe
  <2>2. CASE ~GiveUp(s)
    <3>1. descriptor # Damaged
      BY <1>2, <2>2 DEF Probe, Stale
    <3> QED BY <1>2, <2>2, <3>1
            DEF Probe, Move, TypeOK, SingleOwner, LiveRuntimeIsPublished,
                FileInv, Places, Starting, Own
  <2> QED BY <2>1, <2>2
<1>3. ASSUME NEW s \in Starters, RemoveStale(s) PROVE Inv'
  <2>1. CASE GiveUp(s)
    BY <1>3, <2>1, GiveUpInv DEF RemoveStale, Move
  <2>2. CASE ~GiveUp(s)
    <3>1. \A t \in Starters : t # s => pc[t] = "down"
      BY <1>3 DEF RemoveStale, Move, SingleOwner
    <3> QED BY <1>3, <2>2, <3>1
            DEF RemoveStale, Move, TypeOK, SingleOwner, LiveRuntimeIsPublished,
                FileInv, Places, Starting, Files
  <2> QED BY <2>1, <2>2
<1>4. ASSUME NEW s \in Starters, Listen(s) PROVE Inv'
  <2>1. CASE GiveUp(s)
    BY <1>4, <2>1, GiveUpInv DEF Listen, Move
  <2>2. CASE ~GiveUp(s)
    <3>1. \A t \in Starters : t # s => pc[t] = "down"
      BY <1>4 DEF Listen, Move, SingleOwner
    <3>2. PICK p \in Ports : /\ listener[p] = Free
                             /\ listener' = [listener EXCEPT ![p] = s]
      BY <1>4, <2>2 DEF Listen
    <3> QED BY <1>4, <2>2, <3>1, <3>2
            DEF Listen, Move, TypeOK, SingleOwner, LiveRuntimeIsPublished,
                FileInv, Places, Starting
  <2> QED BY <2>1, <2>2
<1>5. ASSUME NEW s \in Starters, Publish(s) PROVE Inv'
  <2>1. CASE pc[s] = "listening" /\ GiveUp(s)
    BY <2>1, GiveUpInv
  <2>2. CASE ~(pc[s] = "listening" /\ GiveUp(s))
    <3>1. pc[s] = "listening" /\ \A t \in Starters : t # s => pc[t] = "down"
      BY <1>5 DEF Publish, Move, SingleOwner
    <3>2. PICK p \in Ports :
            /\ listener[p] = s
            /\ descriptor' = [instance |-> instance[s], port |-> p]
            /\ \/ /\ Move(s, "listening", "serving")
                  /\ UNCHANGED <<lock, listener>>
               \/ /\ Move(s, "listening", "down")
                  /\ lock' = Free
                  /\ listener' = Closed(s)
            /\ UNCHANGED <<instance, starts>>
      BY <1>5, <2>2 DEF Publish
    <3>3. descriptor' \in Descriptor
      BY <3>2 DEF Descriptor, TypeOK
    <3>4. CASE Move(s, "listening", "serving") /\ UNCHANGED <<lock, listener>>
      BY <3>1, <3>2, <3>3, <3>4
         DEF Move, TypeOK, SingleOwner, LiveRuntimeIsPublished, FileInv, Places,
             Files
    <3>5. CASE /\ Move(s, "listening", "down") /\ lock' = Free
               /\ listener' = Closed(s)
      BY <3>1, <3>2, <3>3, <3>5
         DEF Closed, Move, TypeOK, SingleOwner, LiveRuntimeIsPublished, FileInv,
             Places, Files
    <3> QED BY <3>2, <3>4, <3>5
  <2> QED BY <2>1, <2>2
<1>6. ASSUME NEW s \in Starters, StopServing(s) PROVE Inv'
  <2>1. \A t \in Starters : t # s => pc[t] = "down"
    BY <1>6 DEF StopServing, Move, SingleOwner
  <2> QED BY <1>6, <2>1
          DEF StopServing, Closed, Move, TypeOK, SingleOwner,
              LiveRuntimeIsPublished, FileInv, Places, Stopping
<1>7. ASSUME NEW s \in Starters, CheckOwn(s) PROVE Inv'
  BY <1>7 DEF CheckOwn, Move, TypeOK, SingleOwner, LiveRuntimeIsPublished,
              FileInv, Own, Places, Stopping
<1>8. ASSUME NEW s \in Starters, RemoveOwn(s) PROVE Inv'
  <2>1. \A t \in Starters : t # s => pc[t] = "down"
    BY <1>8 DEF RemoveOwn, Move, SingleOwner
  <2> QED BY <1>8, <2>1
          DEF RemoveOwn, Move, TypeOK, SingleOwner, LiveRuntimeIsPublished,
              FileInv, Places, Stopping, Files
<1>9. ASSUME NEW s \in Starters, Unlock(s) PROVE Inv'
  BY <1>9 DEF Unlock, Move, TypeOK, SingleOwner, LiveRuntimeIsPublished,
              FileInv, Own, Places, Stopping
<1>10. ASSUME NEW s \in Starters, Crash(s) PROVE Inv'
  BY <1>10, GiveUpInv DEF Crash
<1>11. ASSUME NEW p \in Ports, OtherListens(p) \/ OtherLeaves(p) PROVE Inv'
  BY <1>11 DEF OtherListens, OtherLeaves, TypeOK, SingleOwner,
               LiveRuntimeIsPublished, FileInv, Own, Descriptor
<1>12. CASE UNCHANGED vars
  BY <1>12 DEF vars, TypeOK, SingleOwner, LiveRuntimeIsPublished, FileInv, Own
<1> QED BY <1>1, <1>2, <1>3, <1>4, <1>5, <1>6, <1>7, <1>8, <1>9, <1>10,
           <1>11, <1>12
        DEF Next, Serve

-----------------------------------------------------------------------------
(* Every variable holds a value of its kind, and ports belong to processes *)
(* that listen or serve.                                                   *)
THEOREM OwnershipTyping == Spec => []TypeOK
<1>1. Inv => TypeOK
  BY DEF Inv
<1>2. Inv /\ [Next]_vars => Inv'
  BY StepInv
<1> QED BY <1>1, <1>2, InitInv, PTL DEF Spec

(* At most one process of a path is past the lock.                         *)
THEOREM OneOwner == Spec => []SingleOwner
<1>1. Inv => SingleOwner
  BY DEF Inv
<1>2. Inv /\ [Next]_vars => Inv'
  BY StepInv
<1> QED BY <1>1, <1>2, InitInv, PTL DEF Spec

(* While a runtime serves, the descriptor leads to it.                     *)
THEOREM LiveIsPublished == Spec => []LiveRuntimeIsPublished
<1>1. Inv => LiveRuntimeIsPublished
  BY DEF Inv
<1>2. Inv /\ [Next]_vars => Inv'
  BY StepInv
<1> QED BY <1>1, <1>2, InitInv, PTL DEF Spec

(* A clean-up removes its own descriptor only, although it compares and    *)
(* removes in two steps.                                                   *)
THEOREM CleanupIsOwn == Spec => CleanupRemovesOwn
<1>1. Inv /\ [Next]_vars =>
        [\A s \in Starters :
           pc[s] = "disowning" /\ descriptor' # descriptor =>
             descriptor \in Descriptor /\ descriptor.instance = instance[s]]_vars
  BY DEF Inv, FileInv, Own
<1>2. Inv /\ [Next]_vars => Inv'
  BY StepInv
<1> QED BY <1>1, <1>2, InitInv, PTL DEF Spec, CleanupRemovesOwn

(* No start removes or overwrites a damaged descriptor.                    *)
THEOREM DamagedStays == Spec => DamagedIsKept
<1>1. Inv /\ [Next]_vars => [descriptor = Damaged => descriptor' = Damaged]_vars
  <2> SUFFICES ASSUME Inv, Next, descriptor = Damaged PROVE descriptor' = Damaged
    BY DEF vars
  <2>1. \A s \in Starters : pc[s] \notin {"removing", "clear", "listening", "disowning"}
    BY OwnershipAssumption DEF Inv, FileInv, Own, OwnershipAssumption
  <2>2. \A s \in Starters : ~RemoveStale(s) /\ ~Publish(s) /\ ~RemoveOwn(s)
    BY <2>1 DEF RemoveStale, Publish, RemoveOwn, Move
  <2> QED BY <2>2 DEF Next, Serve, Acquire, Probe, Listen, StopServing, CheckOwn,
                      Unlock, Crash, GiveUp, OtherListens, OtherLeaves
<1>2. Inv /\ [Next]_vars => Inv'
  BY StepInv
<1> QED BY <1>1, <1>2, InitInv, PTL DEF Spec, DamagedIsKept
=============================================================================
