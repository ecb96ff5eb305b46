----------------------- MODULE OutboxRefinementProofs -----------------------
(***************************************************************************)
(* Proof that the outbox implements the courier: every step of a planner,  *)
(* a worker, the clock or the network is one step of the courier or none.  *)
(***************************************************************************)
EXTENDS OutboxRefinement, OutboxOutcomeProofs

LEMMA StatusTable ==
    /\ StatusOf("none") = "none"
    /\ StatusOf("pending") = "queued" /\ StatusOf("leased") = "queued"
    /\ StatusOf("sending") = "trying"
    /\ StatusOf("succeeded") = "delivered"
    /\ StatusOf("uncertain") = "unknown"
    /\ StatusOf("blocked") = "blocked"
    /\ StatusOf("dead") = "failed"
    /\ StatusOf("superseded") = "cancelled"
BY DEF StatusOf

(* A step of the outbox that leaves the courier alone.                     *)
LEMMA Stutters ==
    ASSUME \A i \in Id : StatusOf(state'[i]) = StatusOf(state[i]),
           \A i \in Id : row'[i].of = row[i].of
    PROVE  UNCHANGED courier!cvars
BY DEF courier!cvars

(* One row changes its status, and no row its message.                     *)
LEMMA OneEntry ==
    ASSUME RowsOK, NEW i \in Id, NEW s, state' = [state EXCEPT ![i] = s], row' = row
    PROVE  /\ [j \in Id |-> StatusOf(state[j])]'
                = [[j \in Id |-> StatusOf(state[j])] EXCEPT ![i] = StatusOf(s)]
           /\ UNCHANGED [j \in Id |-> row[j].of]
BY DEF RowsOK

(* A row that has been claimed is the first of its message not settled.    *)
LEMMA Turns ==
    ASSUME RowsOK, NoOvertaking, NEW i \in Id, state[i] \in {"leased", "sending"}
    PROVE  \A j \in 1..(i - 1) :
             row[j].of = row[i].of
               => StatusOf(state[j]) \in {"delivered", "failed", "cancelled"}
<1>1. SUFFICES ASSUME NEW j \in 1..(i - 1), row[j].of = row[i].of
               PROVE  StatusOf(state[j]) \in {"delivered", "failed", "cancelled"}
  OBVIOUS
<1>2. j \in Id /\ j < i
  BY BoundsAssumption DEF Id
<1>3. state[j] \in Settled
  BY <1>1, <1>2 DEF NoOvertaking
<1> QED
  BY <1>3, StatusTable DEF Settled

-----------------------------------------------------------------------------
(* The planners: what Put inserts is accepted, what it supersedes is       *)
(* cancelled, and a Put that does neither changes nothing.                 *)
LEMMA PutAccepts ==
    ASSUME RowsOK, Numbered, NEW m \in Message, NEW n \in Nat, NEW r, NEW kinds,
           n > 0 => r.of = m, Put(n, r, Unsent(m, kinds))
    PROVE  [courier!Next]_courier!cvars
<1> DEFINE new  == {i \in Id : i > lastId /\ i <= lastId + n}
           gone == Unsent(m, kinds)
<1>0. /\ lastId \in Nat /\ MaxRows \in Nat /\ lastId + n <= MaxRows
      /\ \A i \in Id : i \in 1..MaxRows /\ i \in Nat
  BY BoundsAssumption DEF RowsOK, Put, Id
<1>1. \A i \in Id : i \in new <=> i \in (lastId + 1)..(lastId + n)
  BY <1>0
<1>2. /\ \A i \in Id : row'[i] = IF i \in new THEN r ELSE row[i]
      /\ \A i \in Id : state'[i] = IF i \in new THEN "pending"
                                   ELSE IF i \in gone THEN "superseded"
                                   ELSE state[i]
  BY <1>1 DEF Put
<1>3. \A i \in Id : i \in new <=> i > lastId /\ i <= lastId + n
  OBVIOUS
<1>4. /\ new \in SUBSET Id /\ gone \in SUBSET Id
      /\ \A i \in gone : state[i] \in {"pending", "leased"} /\ row[i].of = m
  BY DEF Unsent
<1>5. new # {} => n > 0
  BY <1>0
<1> HIDE DEF new, gone
<1>6. ASSUME NEW i \in new
      PROVE  /\ state[i] = "none"
             /\ \A j \in 1..(i - 1) : j \in Id /\ (state[j] # "none" \/ j \in new)
  <2>1. i \in Id /\ i > lastId /\ i <= lastId + n /\ n > 0
    BY <1>3, <1>4, <1>5
  <2>2. ASSUME NEW j \in 1..(i - 1)
        PROVE  j \in Id /\ (state[j] # "none" \/ j \in new)
    <3>1. j \in Id /\ j <= lastId + n /\ (j > lastId \/ ~(j > lastId))
      BY <1>0, <2>1, <2>2 DEF Id
    <3> QED
      BY <1>3, <3>1 DEF Numbered
  <2> QED
    BY <2>1, <2>2 DEF Numbered
<1>7. CASE new \cup gone = {}
  <2>1. \A i \in Id : state'[i] = state[i] /\ row'[i] = row[i]
    BY <1>2, <1>7
  <2> QED
    BY <2>1, Stutters
<1>8. CASE new \cup gone # {}
  <2>1. \A i \in gone : StatusOf(state[i]) = "queued" /\ row[i].of = m
    BY <1>4, StatusTable
  <2>2. \A i \in new : /\ StatusOf(state[i]) = "none"
                       /\ \A j \in 1..(i - 1) : StatusOf(state[j]) # "none" \/ j \in new
    <3>1. \A j \in Id : StatusOf(state[j]) = "none" => state[j] = "none"
      BY DEF StatusOf, RowsOK, RowState
    <3> QED
      BY <1>6, <3>1, StatusTable
  <2>3. /\ \A i \in Id : StatusOf(state'[i]) = IF i \in new THEN "queued"
                                             ELSE IF i \in gone THEN "cancelled"
                                             ELSE StatusOf(state[i])
        /\ \A i \in Id : row'[i].of = IF i \in new THEN m ELSE row[i].of
    BY <1>2, <1>5, StatusTable
  <2>4. courier!Accept(m)
    <3>1. /\ [i \in Id |-> StatusOf(state[i])]'
               = [i \in Id |-> IF i \in new THEN "queued"
                               ELSE IF i \in gone THEN "cancelled"
                               ELSE [j \in Id |-> StatusOf(state[j])][i]]
          /\ [i \in Id |-> row[i].of]'
               = [i \in Id |-> IF i \in new THEN m
                               ELSE [j \in Id |-> row[j].of][i]]
      BY <2>3
    <3>2. \A i \in gone : /\ [j \in Id |-> StatusOf(state[j])][i] = "queued"
                          /\ [j \in Id |-> row[j].of][i] = m
      BY <1>4, <2>1
    <3>3. \A i \in new :
            /\ [j \in Id |-> StatusOf(state[j])][i] = "none"
            /\ \A k \in 1..(i - 1) : \/ [j \in Id |-> StatusOf(state[j])][k] # "none"
                                     \/ k \in new
      BY <1>4, <1>6, <2>2
    <3>4. new \in SUBSET courier!Id /\ gone \in SUBSET courier!Id
      BY <1>4 DEF courier!Id, Id
    <3> QED
      BY <1>8, <3>1, <3>2, <3>3, <3>4 DEF courier!Accept, courier!Id, Id
  <2> QED
    BY <2>4 DEF courier!Next
<1> QED
  BY <1>7, <1>8

LEMMA PlanRefines ==
    ASSUME TypeOK, Numbered, Plan
    PROVE  [courier!Next]_courier!cvars
<1>a. RowsOK /\ PlannerOK /\ 0 \in Nat /\ 1 \in Nat
  BY DEF TypeOK
<1>b. \A m : Unsent(m, {}) = {}
  BY DEF Unsent
<1>c. ASSUME UNCHANGED rows PROVE [courier!Next]_courier!cvars
  BY <1>c, Stutters DEF rows
<1>1. ASSUME NEW m \in Message, PlanCreate(m) PROVE [courier!Next]_courier!cvars
  <2>1. Unsent(m, {}) = {}
    BY <1>b
  <2>2. PICK p \in Platform, k \in 1..MaxChunks :
          Put(1, [kind |-> "create", of |-> m, on |-> Other(p), mine |-> TRUE,
                  ver |-> 1, calls |-> k], {})
    BY <1>1 DEF PlanCreate
  <2>3. \E r : r.of = m /\ Put(1, r, Unsent(m, {}))
    BY <2>1, <2>2
  <2> QED
    BY <1>a, <2>3, PutAccepts
<1>2. ASSUME NEW m \in Message, PlanEdit(m) PROVE [courier!Next]_courier!cvars
  <2>1. UNCHANGED rows \/ \E r : r.of = m /\ Put(1, r, Unsent(m, {"edit"}))
    BY <1>2 DEF PlanEdit
  <2> QED
    BY <1>a, <1>c, <2>1, PutAccepts
<1>3. ASSUME NEW m \in Message, PlanReaction(m) PROVE [courier!Next]_courier!cvars
  <2>1. UNCHANGED rows \/ \E r : r.of = m /\ Put(1, r, Unsent(m, {}))
    BY <1>3, <1>b DEF PlanReaction
  <2> QED
    BY <1>a, <1>c, <2>1, PutAccepts
<1>4. ASSUME NEW m \in Message, PlanRevoke(m) PROVE [courier!Next]_courier!cvars
  <2>1. \E r : r.of = m /\ Put(1, r, Unsent(m, {"create", "edit", "reaction"}))
    BY <1>4 DEF PlanRevoke
  <2> QED
    BY <1>a, <2>1, PutAccepts
<1>5. ASSUME NEW m \in Message, TimerExpire(m) PROVE [courier!Next]_courier!cvars
  <2> DEFINE n == IF message[m].copy = "live" THEN message[m].parts ELSE 0
  <2>1. n \in Nat
    BY <1>a, BoundsAssumption DEF PlannerOK, MessageState
  <2>2. \E r : r.of = m /\ Put(n, r, Unsent(m, {"create", "edit", "reaction"}))
    BY <1>5 DEF TimerExpire
  <2> HIDE DEF n
  <2> QED
    BY <1>a, <2>1, <2>2, PutAccepts
<1>6. ASSUME NEW m \in Message, AdminDelete(m) PROVE [courier!Next]_courier!cvars
  <2>1. Put(0, NoRow, Unsent(m, {"create", "edit", "reaction"})) /\ ~(0 > 0)
    BY <1>6 DEF AdminDelete
  <2> QED
    BY <1>a, <2>1, PutAccepts
<1>7. ASSUME NEW m \in Message, ReadParts(m) PROVE [courier!Next]_courier!cvars
  BY <1>c, <1>7 DEF ReadParts
<1>8. CASE GiveUpReading
  BY <1>c, <1>8 DEF GiveUpReading
<1> QED
  BY <1>1, <1>2, <1>3, <1>4, <1>5, <1>6, <1>7, <1>8 DEF Plan

-----------------------------------------------------------------------------
(* The delivery loop: BeginSend tries a row, its outcome concludes it, and *)
(* a row that is reported dead before it began is dropped.                 *)
LEMMA BeginSendTries ==
    ASSUME RowsOK, LoopOK, NoOvertaking, NEW w \in Workers, BeginSend(w)
    PROVE  courier!Next
<1> DEFINE i == job[w]
<1>1. /\ i \in Id /\ state[i] = "leased" /\ row' = row
      /\ state' = [state EXCEPT ![i] = "sending"]
  BY DEF BeginSend, Holds, LoopOK
<1> HIDE DEF i
<1>a. /\ [j \in Id |-> StatusOf(state[j])]'
           = [[j \in Id |-> StatusOf(state[j])] EXCEPT ![i] = StatusOf("sending")]
      /\ UNCHANGED [j \in Id |-> row[j].of]
  BY <1>1, OneEntry
<1>2. /\ [j \in Id |-> StatusOf(state[j])]'
           = [[j \in Id |-> StatusOf(state[j])] EXCEPT ![i] = "trying"]
      /\ UNCHANGED [j \in Id |-> row[j].of]
  BY <1>a, StatusTable
<1>3. /\ [j \in Id |-> StatusOf(state[j])][i] = "queued"
      /\ i \in courier!Id
  BY <1>1, StatusTable DEF courier!Id, Id
<1>4. \A j \in 1..(i - 1) :
        [k \in Id |-> row[k].of][j] = [k \in Id |-> row[k].of][i]
          => [k \in Id |-> StatusOf(state[k])][j] \in courier!Finished
  <2>1. \A j \in 1..(i - 1) : j \in Id
    BY <1>1, BoundsAssumption DEF Id
  <2> QED
    BY <1>1, <2>1, Turns DEF courier!Finished
<1>5. courier!Try(i)
  BY <1>2, <1>3, <1>4 DEF courier!Try
<1> QED
  BY <1>3, <1>5 DEF courier!Next

LEMMA CompleteConcludes ==
    ASSUME RowsOK, LoopOK, NEW w \in Workers, CompleteDelivery(w)
    PROVE  [courier!Next]_courier!cvars
<1> DEFINE i == job[w]
<1>1. CASE UNCHANGED state
  BY <1>1, Stutters DEF CompleteDelivery
<1>2. CASE Holds(w, {"sending"}) /\ Release(i, "succeeded")
  <2>1. /\ i \in Id /\ state[i] = "sending" /\ row' = row
        /\ state' = [state EXCEPT ![i] = "succeeded"]
    BY <1>2 DEF CompleteDelivery, Holds, Release, LoopOK
  <2> HIDE DEF i
  <2>a. /\ [j \in Id |-> StatusOf(state[j])]'
             = [[j \in Id |-> StatusOf(state[j])] EXCEPT ![i] = StatusOf("succeeded")]
        /\ UNCHANGED [j \in Id |-> row[j].of]
    BY <2>1, OneEntry
  <2>2. /\ [j \in Id |-> StatusOf(state[j])]'
             = [[j \in Id |-> StatusOf(state[j])] EXCEPT ![i] = "delivered"]
        /\ UNCHANGED [j \in Id |-> row[j].of]
    BY <2>a, StatusTable
  <2>3. [j \in Id |-> StatusOf(state[j])][i] = "trying" /\ i \in courier!Id
    BY <2>1, StatusTable DEF courier!Id, Id
  <2>4. courier!Conclude(i)
    BY <2>2, <2>3 DEF courier!Conclude
  <2> QED
    BY <2>3, <2>4 DEF courier!Next
<1> QED
  BY <1>1, <1>2 DEF CompleteDelivery

LEMMA FailConcludes ==
    ASSUME RowsOK, LoopOK, Begun, Marked, NoOvertaking, NEW w \in Workers,
           Grounded(w), FailDelivery(w)
    PROVE  [courier!Next]_courier!cvars
<1> DEFINE i == job[w]
           v == verdict[w]
<1>1. CASE UNCHANGED state
  BY <1>1, Stutters DEF FailDelivery
<1>2. CASE /\ Holds(w, {"leased", "sending"})
           /\ ~(started[i] /\ v = "pending")
           /\ Release(i, v)
  <2>1. /\ i \in Id /\ state[i] \in {"leased", "sending"} /\ row' = row
        /\ state' = [state EXCEPT ![i] = v]
        /\ v \in {"pending", "uncertain", "blocked", "dead"}
        /\ v \notin {"pending", "dead"} => started[i]
    BY <1>2 DEF FailDelivery, Holds, Release, LoopOK, Verdict, Grounded
  <2>2. /\ state[i] = "leased" => ~started[i]
        /\ state[i] = "sending" => started[i]
    BY <2>1 DEF Begun, BegunStates, Marked
  <2>3. \/ state[i] = "leased" /\ v \in {"pending", "dead"}
        \/ state[i] = "sending" /\ v \in {"uncertain", "blocked", "dead"}
    BY <1>2, <2>1, <2>2
  <2> HIDE DEF i, v
  <2>4. /\ [j \in Id |-> StatusOf(state[j])]'
             = [[j \in Id |-> StatusOf(state[j])] EXCEPT ![i] = StatusOf(v)]
        /\ UNCHANGED [j \in Id |-> row[j].of]
        /\ i \in courier!Id
        /\ [j \in Id |-> StatusOf(state[j])][i] = StatusOf(state[i])
    BY <2>1, OneEntry DEF courier!Id, Id
  <2>5. CASE state[i] = "leased" /\ v = "pending"
    <3>1. \A j \in Id : StatusOf(state'[j]) = StatusOf(state[j])
      BY <2>1, <2>5, StatusTable DEF RowsOK
    <3> QED
      BY <2>1, <3>1, Stutters
  <2>6. CASE state[i] = "leased" /\ v = "dead"
    <3>1. \A j \in 1..(i - 1) :
            [k \in Id |-> row[k].of][j] = [k \in Id |-> row[k].of][i]
              => [k \in Id |-> StatusOf(state[k])][j] \in courier!Finished
      <4>1. \A j \in 1..(i - 1) : j \in Id
        BY <2>1, BoundsAssumption DEF Id
      <4> QED
        BY <2>1, <4>1, Turns DEF courier!Finished
    <3>2. courier!Drop(i)
      BY <2>4, <2>6, <3>1, StatusTable DEF courier!Drop
    <3> QED
      BY <2>4, <3>2 DEF courier!Next
  <2>7. CASE state[i] = "sending" /\ v \in {"uncertain", "blocked", "dead"}
    <3>1. StatusOf(v) \in {"unknown", "blocked", "failed"} /\ StatusOf(state[i]) = "trying"
      BY <2>7, StatusTable
    <3>2. courier!Conclude(i)
      BY <2>4, <3>1 DEF courier!Conclude
    <3> QED
      BY <2>4, <3>2 DEF courier!Next
  <2> QED
    BY <2>3, <2>5, <2>6, <2>7
<1> QED
  BY <1>1, <1>2 DEF FailDelivery

LEMMA WorkerRefines ==
    ASSUME IInv, IntentInv, OutcomeInv, NEW w \in Workers, Step(w) \/ Trouble(w)
    PROVE  [courier!Next]_courier!cvars
<1>a. /\ RowsOK /\ LoopOK /\ Begun /\ Marked /\ NoOvertaking
      /\ Grounded(w)
  BY DEF IInv, TypeOK, IntentInv, OutcomeInv, AtRow, Work
<1>1. CASE ClaimDelivery(w)
  <2>1. \A i \in Id : StatusOf(state'[i]) = StatusOf(state[i])
    BY <1>a, <1>1, StatusTable DEF ClaimDelivery, Eligible, RowsOK
  <2> QED
    BY <1>1, <2>1, Stutters DEF ClaimDelivery
<1>2. CASE UNCHANGED rows
  BY <1>2, Stutters DEF rows
<1> QED
  BY <1>a, <1>1, <1>2, BeginSendTries, CompleteConcludes, FailConcludes
  DEF Step, Trouble, NotConnected, BeginSendFails, Issue, Refuse, Answered,
      Rejected, Lost, OutcomeNotRecorded, Crash

-----------------------------------------------------------------------------
(* The clock and the network: a lapsed row that has begun is lost track    *)
(* of; nothing else shows.                                                 *)
LEMMA RecoverLosesTrack ==
    ASSUME RowsOK, Begun, Marked, RecoverExpiredLeases
    PROVE  [courier!Next]_courier!cvars
<1> DEFINE lost == {i \in Id : state[i] = "sending" /\ expired[i]}
<1>1. \A i \in Id : StatusOf(state'[i]) = IF i \in lost THEN "unknown"
                                          ELSE StatusOf(state[i])
  <2>1. SUFFICES ASSUME NEW i \in Id
                 PROVE  StatusOf(state'[i]) = IF i \in lost THEN "unknown"
                                              ELSE StatusOf(state[i])
    OBVIOUS
  <2>2. CASE state[i] = "sending" /\ expired[i]
    <3>1. state'[i] = "uncertain"
      BY <2>2 DEF RecoverExpiredLeases, AfterLease, Marked
    <3> QED
      BY <2>2, <3>1, StatusTable
  <2>3. CASE state[i] = "leased" /\ expired[i]
    <3>1. state'[i] = "pending"
      BY <2>3 DEF RecoverExpiredLeases, AfterLease, Begun, BegunStates
    <3> QED
      BY <2>3, <3>1, StatusTable
  <2>4. CASE ~(state[i] \in {"leased", "sending"} /\ expired[i])
    <3>1. state'[i] = state[i]
      BY <2>4 DEF RecoverExpiredLeases
    <3> QED
      BY <2>4, <3>1
  <2> QED
    BY <2>2, <2>3, <2>4
<1>2. row' = row
  BY DEF RecoverExpiredLeases
<1>3. /\ lost \in SUBSET courier!Id
      /\ \A i \in lost : i \in Id /\ StatusOf(state[i]) = "trying"
  BY StatusTable DEF courier!Id, Id
<1> HIDE DEF lost
<1>4. CASE lost = {}
  BY <1>1, <1>2, <1>4, Stutters
<1>5. CASE lost # {}
  <2>1. /\ [i \in Id |-> StatusOf(state[i])]'
             = [i \in Id |-> IF i \in lost THEN "unknown"
                             ELSE [j \in Id |-> StatusOf(state[j])][i]]
        /\ UNCHANGED [i \in Id |-> row[i].of]
        /\ \A i \in lost : [j \in Id |-> StatusOf(state[j])][i] = "trying"
    BY <1>1, <1>2, <1>3
  <2>2. courier!LoseTrack
    BY <1>3, <1>5, <2>1 DEF courier!LoseTrack, courier!Id, Id
  <2> QED
    BY <2>2 DEF courier!Next
<1> QED
  BY <1>4, <1>5

LEMMA NextRefines ==
    IInv /\ IntentInv /\ OutcomeInv /\ [Next]_vars => [courier!Next]_courier!cvars
<1> SUFFICES ASSUME IInv, IntentInv, OutcomeInv, [Next]_vars
             PROVE  [courier!Next]_courier!cvars
  OBVIOUS
<1>a. TypeOK /\ RowsOK /\ Numbered /\ Begun /\ Marked
  BY DEF IInv, TypeOK, IntentInv
<1>1. CASE UNCHANGED <<state, row>>
  BY <1>1, Stutters
<1>2. CASE Clock \/ Network \/ UNCHANGED vars
  BY <1>1, <1>2, <1>a, RecoverLosesTrack
  DEF Clock, Network, ExpireLease, BecomeReady, Land, Vanish, vars, rows
<1> QED
  BY <1>a, <1>2, PlanRefines, WorkerRefines DEF Next

LEMMA InitRefines == Init => courier!Init
BY StatusTable DEF Init, courier!Init, courier!Id, Id, NoRow

(* The outbox keeps the promises of the courier for every number of        *)
(* workers, messages, rows and faults: whatever leases, recoveries and     *)
(* requests do, a row is tried at most once, in the order of its message,  *)
(* and what became of it stays (ClaimDelivery, BeginSend,                  *)
(* CompleteDelivery, FailDelivery, RecoverExpiredLeases).                  *)
THEOREM Implementation == Spec => ImplementsCourier
BY InitRefines, NextRefines, Invariance, IntentInvariance, OutcomeInvariance, PTL
DEF Spec, ImplementsCourier, courier!Spec

=============================================================================
