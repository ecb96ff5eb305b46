----------------------------- MODULE TimersProofs -----------------------------
(***************************************************************************)
(* Proofs about Timers: types, and that a timer deletes each part once,    *)
(* leaves none out, and deletes no version but its own.                    *)
(***************************************************************************)
EXTENDS Timers, TLAPS

Create == {"none", "pending", "sending", "succeeded", "failed", "superseded"}

(* TypeOK in three parts.                                                  *)
SettingOK ==
    /\ stored \in BOOLEAN
    /\ cached \in [Worker -> Cached]
    /\ commands \in 0..MaxCommands

MessageOK ==
    /\ planned \in BOOLEAN /\ tombstone \in BOOLEAN
    /\ version \in 0..MaxEdits
    /\ create \in Create
    /\ part \in [Part -> PartState]
    /\ revokes \in [Part -> Nat]

RowOK ==
    /\ timer \in TimerState
    /\ target \in 0..MaxEdits
    /\ due \in BOOLEAN /\ expired \in BOOLEAN
    /\ owner \in Worker \cup {Nobody}
    /\ (owner # Nobody) = (timer = "leased")

LoopsOK ==
    /\ found \in [Worker -> BOOLEAN] /\ busy \in [Worker -> BOOLEAN]
    /\ held \in [Worker -> SUBSET Part]
    /\ faults \in 0..MaxFaults

(* Until the timer is done it has planned nothing, and until the message   *)
(* is buried none of its parts is marked.                                  *)
Before ==
    /\ ~planned => timer = "none"
    /\ timer # "done" => \A p \in Part : revokes[p] = 0
    /\ ~tombstone => \A p \in Part : part[p] # "deleted"

(* Afterwards it has planned the deletion of what is marked, once, and the *)
(* message is closed to edits.                                             *)
After ==
    timer = "done" =>
        /\ tombstone
        /\ version = target
        /\ \A p \in Part :
              /\ revokes[p] \in {0, 1}
              /\ part[p] # "live"
              /\ part[p] = "deleted" => revokes[p] = 1

TInv == SettingOK /\ MessageOK /\ RowOK /\ LoopsOK /\ Before /\ After

USE TimersAssumption

------------------------------------------------------------------------------
(* Each kind of step keeps the invariant.                                  *)

LEMMA InitInvariant == Init => TInv
  <1> SUFFICES ASSUME Init PROVE TInv
    OBVIOUS
  <1>1. SettingOK
    <2>1. stored \in BOOLEAN
      BY DEF Init
    <2>2. cached \in [Worker -> Cached] /\ commands \in 0..MaxCommands
      BY DEF Init, Cached
    <2> QED
      BY <2>1, <2>2 DEF SettingOK
  <1>2. MessageOK
    <2>1. planned \in BOOLEAN /\ tombstone \in BOOLEAN
      BY DEF Init
    <2>2. version \in 0..MaxEdits /\ create \in Create
      BY DEF Init, Create
    <2>3. part \in [Part -> PartState] /\ revokes \in [Part -> Nat]
      BY DEF Init, PartState
    <2> QED
      BY <2>1, <2>2, <2>3 DEF MessageOK
  <1>3. RowOK
    <2>1. due \in BOOLEAN /\ expired \in BOOLEAN
      BY DEF Init
    <2>2. timer \in TimerState /\ target \in 0..MaxEdits
      BY DEF Init, TimerState
    <2>3. owner \in Worker \cup {Nobody} /\ (owner # Nobody) = (timer = "leased")
      BY DEF Init
    <2> QED
      BY <2>1, <2>2, <2>3 DEF RowOK
  <1>5. LoopsOK
    <2>1. found \in [Worker -> BOOLEAN] /\ busy \in [Worker -> BOOLEAN]
      BY DEF Init
    <2>2. held \in [Worker -> SUBSET Part] /\ faults \in 0..MaxFaults
      BY DEF Init
    <2> QED
      BY <2>1, <2>2 DEF LoopsOK
  <1>4. Before /\ After
    BY DEF Init, Before, After
  <1> QED
    BY <1>1, <1>2, <1>3, <1>4, <1>5 DEF TInv

LEMMA SettingInvariant ==
    ASSUME TInv, NEW w \in Worker, NEW on \in BOOLEAN, SetChatTimer(w, on)
    PROVE  TInv'
  <1> USE DEF TInv, SetChatTimer, Store, Fault, message, copy, row, loops
  <1>1. SettingOK' /\ LoopsOK'
    BY DEF SettingOK, LoopsOK, Cached
  <1>2. MessageOK' /\ RowOK' /\ Before' /\ After'
    BY DEF MessageOK, RowOK, Before, After
  <1> QED
    BY <1>1, <1>2

LEMMA PlanMessageInvariant ==
    ASSUME TInv, NEW w \in Worker, PlanMessage(w) PROVE TInv'
  <1> USE DEF TInv, PlanMessage, Schedule, loops
  <1>1. SettingOK'
    BY DEF SettingOK, Remembers, Cached
  <1>2. MessageOK'
    BY DEF MessageOK, SettingOK, Create
  <1>3. RowOK' /\ LoopsOK'
    BY DEF RowOK, LoopsOK, MessageOK, TimerState, Before
  <1>4. Before' /\ After'
    BY DEF Before, After
  <1> QED
    BY <1>1, <1>2, <1>3, <1>4

LEMMA HandlerInvariant ==
    ASSUME TInv, NEW w \in Worker, FindParts(w) \/ PlanEdit(w) PROVE TInv'
  <1> USE DEF TInv, FindParts, PlanEdit, Plans, Suppressed, setting, message, copy, row
  <1>1. SettingOK' /\ LoopsOK'
    BY DEF SettingOK, LoopsOK
  <1>2. MessageOK' /\ RowOK'
    BY DEF MessageOK, RowOK
  <1>3. Before' /\ After'
    BY DEF Before, After, MessageOK
  <1> QED
    BY <1>1, <1>2, <1>3

(* What burying a message does to its copy.                                *)
LEMMA Buried ==
    ASSUME MessageOK, Bury
    PROVE  /\ tombstone'
           /\ create' \in Create
           /\ part' \in [Part -> PartState]
           /\ \A p \in Part :
                 /\ part'[p] # "live"
                 /\ part'[p] = "deleted" => part[p] \in {"live", "deleted"}
  BY DEF MessageOK, Bury, Unbegun, Live, Create, PartState

LEMMA PlanRevokeInvariant ==
    ASSUME TInv, NEW w \in Worker, PlanRevoke(w) PROVE TInv'
  <1> USE DEF TInv, PlanRevoke, setting, row
  <1>1. SettingOK' /\ RowOK' /\ LoopsOK'
    BY DEF SettingOK, RowOK, LoopsOK, Plans
  <1>2. MessageOK' /\ Before'
    BY Buried DEF MessageOK, Before, Bury
  <1>3. After'
    BY Buried DEF After
  <1> QED
    BY <1>1, <1>2, <1>3

LEMMA DeliveryInvariant ==
    ASSUME TInv, BeginSend \/ CompleteCreate \/ CreateFails PROVE TInv'
  <1> USE DEF TInv, BeginSend, CompleteCreate, CreateFails, Fault, setting, message, row, loops
  <1>1. SettingOK' /\ RowOK' /\ LoopsOK'
    BY DEF SettingOK, RowOK, LoopsOK
  <1>2. MessageOK'
    BY DEF MessageOK, Create, PartState
  <1>3. Before' /\ After'
    BY DEF Before, After, MessageOK
  <1> QED
    BY <1>1, <1>2, <1>3

LEMMA ClaimInvariant ==
    ASSUME TInv, NEW w \in Worker, CancelStale(w) \/ ClaimTimer(w) PROVE TInv'
  <1> USE DEF TInv, CancelStale, ClaimTimer, setting, message, copy
  <1>1. SettingOK' /\ MessageOK'
    BY DEF SettingOK, MessageOK
  <1>2. RowOK'
    BY DEF RowOK, TimerState
  <1>3. LoopsOK'
    BY DEF LoopsOK, loops, Live
  <1>4. Before' /\ After'
    BY DEF Before, After
  <1> QED
    BY <1>1, <1>2, <1>3, <1>4

LEMMA CompleteInvariant ==
    ASSUME TInv, NEW w \in Worker, CompleteTimer(w) PROVE TInv'
  <1> USE DEF TInv, CompleteTimer, setting
  <1>1. SettingOK' /\ RowOK' /\ LoopsOK'
    BY DEF SettingOK, RowOK, LoopsOK, TimerState, StepEnds
  <1>2. MessageOK'
    BY Buried DEF MessageOK, Bury, Revoke
  <1>3. Before'
    BY Buried DEF Before, MessageOK, RowOK, Holds
  <1>4. ASSUME NEW p \in Part
        PROVE  /\ revokes'[p] \in {0, 1}
               /\ part'[p] = "deleted" => revokes'[p] = 1
    <2>1. revokes[p] = 0 /\ part[p] # "deleted"
      BY DEF Before, Holds, Stale
    <2>2. revokes'[p] = IF part[p] = "live" THEN 1 ELSE 0
      BY <2>1 DEF Revoke, Covers, Live, MessageOK
    <2> QED
      BY <2>1, <2>2, Buried
  <1>5. After'
    BY <1>4, Buried DEF After, Stale
  <1> QED
    BY <1>1, <1>2, <1>3, <1>5

LEMMA LeaseInvariant ==
    ASSUME TInv,
           \/ \E w \in Worker : CompleteTimerFails(w) \/ Restart(w)
           \/ RecoverExpiredLeases \/ Deadline \/ ExpireLease
    PROVE  TInv'
  <1> USE DEF TInv, CompleteTimerFails, Restart, RecoverExpiredLeases, Deadline, ExpireLease,
              Fault, setting, message, copy, row, loops
  <1>1. SettingOK' /\ MessageOK'
    BY DEF SettingOK, MessageOK, Cached
  <1>2. RowOK'
    BY DEF RowOK, TimerState, Recoverable, Requeue
  <1>3. LoopsOK'
    <2>1. CASE \E w \in Worker : CompleteTimerFails(w)
      <3> PICK w \in Worker : CompleteTimerFails(w)
        BY <2>1
      <3>1. found' \in [Worker -> BOOLEAN] /\ busy' \in [Worker -> BOOLEAN]
        BY DEF LoopsOK, StepEnds
      <3>2. held' \in [Worker -> SUBSET Part]
        BY DEF LoopsOK, StepEnds
      <3>3. faults' \in 0..MaxFaults
        BY DEF LoopsOK
      <3> QED
        BY <3>1, <3>2, <3>3 DEF LoopsOK
    <2>2. CASE \E w \in Worker : Restart(w)
      BY <2>2 DEF LoopsOK
    <2>3. CASE RecoverExpiredLeases \/ Deadline \/ ExpireLease
      BY <2>3 DEF LoopsOK
    <2> QED
      BY <2>1, <2>2, <2>3
  <1>4. Before' /\ After'
    BY DEF Before, After, Recoverable, Requeue
  <1> QED
    BY <1>1, <1>2, <1>3, <1>4

LEMMA NextInvariant == TInv /\ [Next]_vars => TInv'
  <1> SUFFICES ASSUME TInv, [Next]_vars PROVE TInv'
    OBVIOUS
  <1>1. CASE Next
    BY <1>1, SettingInvariant, PlanMessageInvariant, HandlerInvariant, PlanRevokeInvariant,
       DeliveryInvariant, ClaimInvariant, CompleteInvariant, LeaseInvariant
       DEF Next, StepTimer
  <1>2. CASE UNCHANGED vars
    BY <1>2 DEF vars, setting, message, copy, row, loops, TInv, SettingOK, MessageOK, RowOK,
                LoopsOK, Before, After
  <1> QED
    BY <1>1, <1>2

LEMMA Invariant == Spec => []TInv
  BY InitInvariant, NextInvariant, PTL DEF Spec

------------------------------------------------------------------------------
(* The theorems.                                                           *)

(* Every variable keeps its type, and a row has an owner while it is leased.*)
THEOREM TimersTypeCorrect == Spec => []TypeOK
  <1>1. TInv => TypeOK
    BY DEF TInv, SettingOK, MessageOK, RowOK, LoopsOK, TypeOK, Create
  <1> QED
    BY <1>1, Invariant, PTL

(* No part is deleted twice by its timer.                                  *)
THEOREM NoPartTwice == Spec => []RevokedOnce
  <1>1. TInv => RevokedOnce
    BY DEF TInv, MessageOK, Before, After, RevokedOnce
  <1> QED
    BY <1>1, Invariant, PTL

(* A timer that is done has left nothing out.                              *)
THEOREM NoPartLeftOut == Spec => []DeletionsArePlanned
  <1>1. TInv => DeletionsArePlanned
    BY DEF TInv, After, DeletionsArePlanned
  <1> QED
    BY <1>1, Invariant, PTL

(* A timer buries the version it was set for, and no edit follows.         *)
THEOREM NoOtherVersion == Spec => []OnlyItsVersion
  <1>1. TInv => OnlyItsVersion
    BY DEF TInv, After, OnlyItsVersion
  <1> QED
    BY <1>1, Invariant, PTL
==============================================================================
