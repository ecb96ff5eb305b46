---------------------------- MODULE OutboxProofs ----------------------------
(***************************************************************************)
(* Proofs about the outbox, for every number of workers, messages, rows,   *)
(* chunks and faults.                                                      *)
(***************************************************************************)
EXTENDS Outbox, TLAPS

(* Ids are handed out in order.                                            *)
Numbered == \A i \in Id : state[i] = "none" <=> i > lastId

(* send_started_at_ms is set only on rows that never go back to the queue. *)
BegunStates == {"sending", "succeeded", "uncertain", "blocked", "dead"}
Begun == \A i \in Id : started[i] => state[i] \in BegunStates

(* Where a worker is in its row: it makes requests only for a row that has *)
(* begun, and none from the request it is at onwards has been made; it     *)
(* gets to the notice with the error it would return already at hand.      *)
Sending(w) == pc[w] \in {"call", "wait"}

InRow(w) ==
    /\ pc[w] = "claimed" => at[w] = 0
    /\ Sending(w) => started[job[w]]
    /\ Sending(w) /\ at[w] = Notice => verdict[w] # "none"
    /\ pc[w] = "call" => \A k \in Call : k >= at[w] => issued[job[w]][k] = 0
    /\ pc[w] = "wait" => \A k \in Call : k > at[w] => issued[job[w]][k] = 0

Calling == \A w \in Workers : InRow(w)

(* No two workers make requests for one row.                               *)
Apart == \A v, w \in Workers : v # w /\ Sending(v) /\ Sending(w) => job[v] # job[w]

(* No request was made for a row that has not begun.                       *)
Untouched == \A i \in Id, k \in Call : ~started[i] => issued[i][k] = 0

(* The inductive invariant.                                                *)
IInv ==
    /\ TypeOK
    /\ Numbered
    /\ Begun
    /\ Calling
    /\ Apart
    /\ Untouched
    /\ AtMostOnce
    /\ NoOvertaking

-----------------------------------------------------------------------------
(* Types.                                                                  *)

LEMMA VerdictOnType ==
    \A class \in ErrorClass : VerdictOn(class) \in Verdict \ {"none", "pending"}
BY DEF ErrorClass, VerdictOn, Verdict

(* What Put does to the table is well typed, whatever is superseded.       *)
LEMMA PutType ==
    ASSUME RowsOK, NEW n \in Nat, NEW r, r \in Row \/ n = 0, NEW cancel,
           Put(n, r, cancel)
    PROVE  RowsOK'
BY BoundsAssumption DEF RowsOK, Put, Id, RowState

LEMMA InitType == Init => TypeOK
<1> SUFFICES ASSUME Init PROVE TypeOK
  OBVIOUS
<1>0. MaxChunks \in Nat \ {0} /\ MaxRows \in Nat /\ MaxFaults \in Nat
  BY BoundsAssumption
<1>1. RowsOK
  BY <1>0 DEF Init, RowsOK, RowState
<1>2. PlannerOK
  BY <1>0 DEF Init, PlannerOK, Unknown, MessageState, Platform
<1>3. LoopOK
  BY <1>0 DEF Init, LoopOK, PC, Call, Verdict
<1>4. NetworkOK
  BY <1>0 DEF Init, NetworkOK
<1> QED
  BY <1>0, <1>1, <1>2, <1>3, <1>4 DEF Init, TypeOK

(* A worker that has no error to return yet takes one from the class.      *)
LEMMA FinalVerdictType ==
    ASSUME LoopOK, Calling, NEW w \in Workers, Sending(w), NEW class \in ErrorClass
    PROVE  FinalVerdict(w, class) \in Verdict \ {"none"}
<1>1. VerdictOn(class) \in Verdict \ {"none"}
  BY VerdictOnType
<1>2. at[w] = Notice => verdict[w] \in Verdict \ {"none"}
  BY DEF LoopOK, Calling, InRow
<1> QED
  BY <1>1, <1>2 DEF FinalVerdict

LEMMA DecideType ==
    ASSUME LoopOK, NEW w \in Workers, pc[w] # "idle", NEW v \in Verdict \ {"none"},
           Decide(w, v)
    PROVE  LoopOK'
BY DEF LoopOK, Decide, PC

LEMMA RestType ==
    ASSUME LoopOK, NEW w \in Workers, Rest(w)
    PROVE  LoopOK'
<1>1. 0 \in Call /\ "none" \in Verdict /\ "idle" \in PC
  BY BoundsAssumption DEF Call, Verdict, PC
<1> QED
  BY <1>1 DEF LoopOK, Rest

LEMMA CallFailsType ==
    ASSUME LoopOK, Calling, NEW w \in Workers, Sending(w), NEW class \in ErrorClass,
           CallFails(w, class)
    PROVE  LoopOK'
<1>1. FinalVerdict(w, class) \in Verdict \ {"none"} /\ VerdictOn(class) \in Verdict
  BY FinalVerdictType, VerdictOnType
<1>2. Notice \in Call
  BY BoundsAssumption DEF Notice, Call
<1>3. CASE Decide(w, FinalVerdict(w, class))
  BY <1>1, <1>3, DecideType DEF Sending
<1>4. CASE /\ pc' = [pc EXCEPT ![w] = "call"]
           /\ at' = [at EXCEPT ![w] = Notice]
           /\ verdict' = [verdict EXCEPT ![w] = VerdictOn(class)]
           /\ UNCHANGED job
  BY <1>1, <1>2, <1>4 DEF LoopOK, Sending, PC
<1> QED
  BY <1>3, <1>4 DEF CallFails

LEMMA AimType ==
    ASSUME PlannerOK, NEW m \in Message, NEW kind, NEW a \in Aim(m, kind)
    PROVE  a.on \in Platform /\ a.mine \in BOOLEAN
<1> DEFINE o == message[m].origin
<1>1. o \in Platform /\ Other(o) \in Platform
  BY DEF PlannerOK, MessageState, Other, Platform
<1>2. a = [on |-> Other(o), mine |-> TRUE] \/ a = [on |-> o, mine |-> FALSE]
  BY DEF Aim
<1> HIDE DEF o
<1>3. CASE a = [on |-> Other(o), mine |-> TRUE]
  BY <1>1, <1>3
<1>4. CASE a = [on |-> o, mine |-> FALSE]
  BY <1>1, <1>4
<1> QED
  BY <1>2, <1>3, <1>4

LEMMA BuryType ==
    ASSUME NEW rec \in MessageState, NEW v \in Nat
    PROVE  Bury(rec, v) \in MessageState
BY DEF Bury, MessageState

(* The planners keep the types.                                            *)
LEMMA PlanType ==
    ASSUME TypeOK, Plan
    PROVE  TypeOK'
<1>0. MaxChunks \in Nat \ {0} /\ 1 \in Nat /\ 0 \in Nat
  BY BoundsAssumption
<1>a. RowsOK /\ PlannerOK /\ LoopOK /\ NetworkOK
  BY DEF TypeOK
<1>b. ASSUME UNCHANGED <<loop, network, faults>>, RowsOK', PlannerOK'
      PROVE  TypeOK'
  BY <1>a, <1>b DEF TypeOK, LoopOK, NetworkOK, loop, network
<1>c. ASSUME UNCHANGED rows PROVE RowsOK'
  BY <1>a, <1>c DEF RowsOK, rows
<1>1. ASSUME NEW m \in Message, PlanCreate(m) PROVE TypeOK'
  <2>1. PICK p \in Platform, n \in 1..MaxChunks, t \in BOOLEAN :
          /\ message' = [message EXCEPT ![m] =
                           [ver |-> 1, origin |-> p, tomb |-> FALSE,
                            copy |-> "none", parts |-> 1, timer |-> t]]
          /\ Put(1, [kind |-> "create", of |-> m, on |-> Other(p), mine |-> TRUE,
                     ver |-> 1, calls |-> n], {})
    BY <1>1 DEF PlanCreate
  <2>2. [kind |-> "create", of |-> m, on |-> Other(p), mine |-> TRUE,
         ver |-> 1, calls |-> n] \in Row
    BY DEF Row, Kind, Platform, Other
  <2>3. [ver |-> 1, origin |-> p, tomb |-> FALSE, copy |-> "none",
         parts |-> 1, timer |-> t] \in MessageState
    BY <1>0 DEF MessageState
  <2>4. PlannerOK'
    BY <1>a, <1>1, <2>1, <2>3 DEF PlannerOK, PlanCreate
  <2> QED
    BY <1>0, <1>a, <1>b, <1>1, <2>1, <2>2, <2>4, PutType DEF PlanCreate
<1>2. ASSUME NEW m \in Message, ReadParts(m) PROVE TypeOK'
  BY <1>a, <1>b, <1>c, <1>2 DEF ReadParts, PlannerOK
<1>3. ASSUME NEW m \in Message, PlanEdit(m) PROVE TypeOK'
  <2>1. CASE Suppressed(m) /\ UNCHANGED <<rows, message>>
    BY <1>a, <1>b, <1>c, <1>3, <2>1 DEF PlanEdit, PlannerOK
  <2>2. CASE ~(Suppressed(m) /\ UNCHANGED <<rows, message>>)
    <3>1. PICK a \in Aim(m, "edit") :
            Put(1, [kind |-> "edit", of |-> m, on |-> a.on, mine |-> a.mine,
                    ver |-> message[m].ver + 1, calls |-> 1], Unsent(m, {"edit"}))
      BY <1>3, <2>2 DEF PlanEdit
    <3>2. a.on \in Platform /\ a.mine \in BOOLEAN
      BY <1>a, AimType
    <3>3. [kind |-> "edit", of |-> m, on |-> a.on, mine |-> a.mine,
           ver |-> message[m].ver + 1, calls |-> 1] \in Row
      BY <3>2, <1>0, <1>a DEF Row, Kind, PlannerOK, MessageState
    <3>4. message' = [message EXCEPT ![m].ver = @ + 1] /\ reading' = NotRead
      BY <1>3, <2>2 DEF PlanEdit
    <3>5. PlannerOK'
      BY <1>a, <3>4 DEF PlannerOK, MessageState
    <3>6. UNCHANGED <<loop, network, faults>>
      BY <1>3 DEF PlanEdit
    <3> QED
      BY <1>0, <1>a, <1>b, <3>1, <3>3, <3>5, <3>6, PutType
  <2> QED
    BY <2>1, <2>2
<1>4. ASSUME NEW m \in Message, PlanReaction(m) PROVE TypeOK'
  <2>0. PlannerOK' /\ UNCHANGED <<loop, network, faults>>
    BY <1>a, <1>4 DEF PlanReaction, PlannerOK
  <2>1. CASE Suppressed(m) /\ UNCHANGED rows
    BY <1>b, <1>c, <2>0, <2>1
  <2>2. CASE ~(Suppressed(m) /\ UNCHANGED rows)
    <3>1. PICK a \in Aim(m, "reaction") :
            Put(1, [kind |-> "reaction", of |-> m, on |-> a.on, mine |-> a.mine,
                    ver |-> message[m].ver, calls |-> 1], {})
      BY <1>4, <2>2 DEF PlanReaction
    <3>2. a.on \in Platform /\ a.mine \in BOOLEAN
      BY <1>a, AimType
    <3>3. [kind |-> "reaction", of |-> m, on |-> a.on, mine |-> a.mine,
           ver |-> message[m].ver, calls |-> 1] \in Row
      BY <3>2, <1>0, <1>a DEF Row, Kind, PlannerOK, MessageState
    <3> QED
      BY <1>0, <1>a, <1>b, <2>0, <3>1, <3>3, PutType
  <2> QED
    BY <2>1, <2>2
<1>5. ASSUME NEW m \in Message, PlanRevoke(m) PROVE TypeOK'
  <2>1. PICK a \in Aim(m, "revoke") :
          Put(1, [kind |-> "revoke", of |-> m, on |-> a.on, mine |-> a.mine,
                  ver |-> message[m].ver + 1, calls |-> message[m].parts],
              Unsent(m, {"create", "edit", "reaction"}))
    BY <1>5 DEF PlanRevoke
  <2>2. a.on \in Platform /\ a.mine \in BOOLEAN
    BY <1>a, AimType
  <2>3. [kind |-> "revoke", of |-> m, on |-> a.on, mine |-> a.mine,
         ver |-> message[m].ver + 1, calls |-> message[m].parts] \in Row
    BY <2>2, <1>a DEF Row, Kind, PlannerOK, MessageState
  <2>4. message[m] \in MessageState /\ message[m].ver + 1 \in Nat
    BY <1>a DEF PlannerOK, MessageState
  <2>5. PlannerOK'
    BY <1>a, <1>5, <2>4, BuryType DEF PlanRevoke, PlannerOK
  <2>6. UNCHANGED <<loop, network, faults>>
    BY <1>5 DEF PlanRevoke
  <2> QED
    BY <1>0, <1>a, <1>b, <2>1, <2>3, <2>5, <2>6, PutType
<1>6. ASSUME NEW m \in Message, TimerExpire(m) PROVE TypeOK'
  <2> DEFINE n == IF message[m].copy = "live" THEN message[m].parts ELSE 0
             r == [kind |-> "revoke", of |-> m, on |-> Other(message[m].origin),
                   mine |-> TRUE, ver |-> 1, calls |-> message[m].parts]
  <2>1. Put(n, r, Unsent(m, {"create", "edit", "reaction"}))
    BY <1>6 DEF TimerExpire
  <2>2. n \in Nat /\ r \in Row
    BY <1>0, <1>a DEF PlannerOK, MessageState, Row, Kind, Other, Platform
  <2>3. PlannerOK'
    <3>1. message[m] \in MessageState /\ message[m].ver \in Nat
      BY <1>a DEF PlannerOK, MessageState
    <3> QED
      BY <1>a, <1>6, <3>1, BuryType DEF TimerExpire, PlannerOK
  <2>4. UNCHANGED <<loop, network, faults>>
    BY <1>6 DEF TimerExpire
  <2> HIDE DEF n, r
  <2> QED
    BY <1>a, <1>b, <2>1, <2>2, <2>3, <2>4, PutType
<1>7. ASSUME NEW m \in Message, AdminDelete(m) PROVE TypeOK'
  <2>1. PlannerOK'
    <3>1. message[m] \in MessageState /\ message[m].ver \in Nat
      BY <1>a DEF PlannerOK, MessageState
    <3> QED
      BY <1>a, <1>7, <3>1, BuryType DEF AdminDelete, PlannerOK
  <2> QED
    BY <1>0, <1>a, <1>b, <1>7, <2>1, PutType DEF AdminDelete
<1>8. CASE GiveUpReading
  BY <1>a, <1>b, <1>c, <1>8 DEF GiveUpReading, PlannerOK
<1> QED
  BY <1>1, <1>2, <1>3, <1>4, <1>5, <1>6, <1>7, <1>8 DEF Plan

(* The rest of the types: workers, clock and network.                      *)
LEMMA WorkerType ==
    ASSUME TypeOK, Calling, NEW w \in Workers, Step(w) \/ Trouble(w)
    PROVE  TypeOK'
<1>0. MaxChunks \in Nat \ {0} /\ 0 \in Call /\ "none" \in Verdict
  BY BoundsAssumption DEF Call, Verdict
<1>a. RowsOK /\ PlannerOK /\ LoopOK /\ NetworkOK /\ faults \in 0..MaxFaults
  BY DEF TypeOK
<1>b. ASSUME UNCHANGED rows PROVE RowsOK'
  BY <1>a, <1>b DEF RowsOK, rows
<1>c. ASSUME UNCHANGED <<message, reading>> PROVE PlannerOK'
  BY <1>a, <1>c DEF PlannerOK
<1>d. ASSUME UNCHANGED network PROVE NetworkOK'
  BY <1>a, <1>d DEF NetworkOK, network
<1>e. ASSUME Fault \/ UNCHANGED faults PROVE faults' \in 0..MaxFaults
  BY <1>a, <1>e, BoundsAssumption DEF Fault
<1>f. ASSUME pc[w] # "idle" PROVE job[w] \in Id
  BY <1>a, <1>f DEF LoopOK
<1>1. CASE ClaimDelivery(w)
  <2>1. RowsOK'
    BY <1>a, <1>1 DEF ClaimDelivery, RowsOK, RowState
  <2>2. LoopOK'
    <3>1. PICK i \in Id : job' = [job EXCEPT ![w] = i]
      BY <1>1 DEF ClaimDelivery
    <3>2. i # 0
      BY BoundsAssumption DEF Id
    <3> QED
      BY <1>0, <1>a, <1>1, <3>1, <3>2 DEF ClaimDelivery, LoopOK, PC
  <2> QED
    BY <1>1, <1>c, <1>d, <1>e, <2>1, <2>2 DEF ClaimDelivery, TypeOK
<1>2. CASE NotConnected(w)
  <2>1. LoopOK'
    BY <1>a, <1>2, DecideType DEF NotConnected, Verdict
  <2> QED
    BY <1>2, <1>b, <1>c, <1>d, <1>e, <2>1 DEF NotConnected, TypeOK
<1>3. CASE BeginSend(w)
  <2>1. RowsOK'
    BY <1>a, <1>f, <1>3 DEF BeginSend, RowsOK, RowState
  <2>2. LoopOK'
    BY <1>a, <1>3 DEF BeginSend, LoopOK, PC
  <2> QED
    BY <1>3, <1>c, <1>d, <1>e, <2>1, <2>2 DEF BeginSend, TypeOK
<1>4. CASE BeginSendFails(w)
  <2>1. LoopOK'
    BY <1>a, <1>4, DecideType DEF BeginSendFails, Verdict
  <2> QED
    BY <1>4, <1>b, <1>c, <1>d, <1>e, <2>1 DEF BeginSendFails, TypeOK
<1>5. CASE Issue(w)
  <2>1. LoopOK'
    BY <1>a, <1>5 DEF Issue, LoopOK, PC
  <2>2. NetworkOK'
    <3>1. job[w] \in Id /\ at[w] \in Call
      BY <1>a, <1>f, <1>5 DEF Issue, LoopOK
    <3> QED
      BY <1>a, <1>5, <3>1 DEF Issue, NetworkOK
  <2> QED
    BY <1>5, <1>b, <1>c, <1>e, <2>1, <2>2 DEF Issue, TypeOK
<1>6. CASE Refuse(w)
  <2>1. PICK class \in ErrorClass : CallFails(w, class)
    BY <1>6 DEF Refuse, ErrorClass
  <2>2. LoopOK'
    BY <1>a, <1>6, <2>1, CallFailsType DEF Refuse, Sending
  <2> QED
    BY <1>6, <1>b, <1>c, <1>d, <1>e, <2>2 DEF Refuse, TypeOK
<1>7. CASE Answered(w)
  <2>1. LoopOK'
    <3>1. CASE More(w) /\ pc' = [pc EXCEPT ![w] = "call"]
               /\ at' = [at EXCEPT ![w] = @ + 1] /\ UNCHANGED <<job, verdict>>
      <4>1. at[w] + 1 \in Call
        BY <1>0, <1>a, <3>1 DEF More, Notice, Call, LoopOK
      <4> QED
        BY <1>a, <1>7, <3>1, <4>1 DEF Answered, LoopOK, PC
    <3>2. CASE Decide(w, "succeeded")
      BY <1>a, <1>7, <3>2, DecideType DEF Answered, Verdict
    <3> QED
      BY <1>7, <3>1, <3>2 DEF Answered
  <2>2. NetworkOK'
    <3>1. job[w] \in Id /\ at[w] \in Call
      BY <1>a, <1>f, <1>7 DEF Answered, LoopOK
    <3> QED
      BY <1>a, <1>7, <3>1 DEF Answered, NetworkOK
  <2> QED
    BY <1>7, <1>b, <1>c, <1>e, <2>1, <2>2 DEF Answered, TypeOK
<1>8. CASE CompleteDelivery(w)
  <2>0. pc[w] # "idle" /\ LoopOK'
    BY <1>a, <1>8, RestType DEF CompleteDelivery
  <2>1. RowsOK'
    BY <1>a, <1>f, <1>8, <2>0 DEF CompleteDelivery, Release, RowsOK, RowState
  <2>2. PlannerOK'
    <3>1. CASE UNCHANGED message
      BY <1>8, <1>c, <3>1 DEF CompleteDelivery
    <3>2. CASE message' = Recorded(job[w])
      <4>1. row[job[w]] \in Row \cup {NoRow}
        BY <1>a, <1>f, <2>0 DEF RowsOK
      <4>2. CASE row[job[w]].kind = "create"
        <5>1. row[job[w]] \in Row
          BY <4>1, <4>2 DEF NoRow
        <5>2. row[job[w]].calls \in 1..MaxChunks /\ row[job[w]].of \in Message
          BY <5>1 DEF Row
        <5> DEFINE m == message[row[job[w]].of]
                   c == IF m.tomb THEN "deleted" ELSE "live"
                   n == [m EXCEPT !.copy = c, !.parts = row[job[w]].calls]
        <5>3. n \in MessageState
          BY <1>a, <5>2 DEF PlannerOK, MessageState
        <5>4. message' = [message EXCEPT ![row[job[w]].of] = n]
          BY <3>2, <4>2 DEF Recorded
        <5> HIDE DEF m, c, n
        <5> QED
          BY <1>a, <1>8, <5>3, <5>4 DEF CompleteDelivery, PlannerOK
      <4>3. CASE row[job[w]].kind # "create"
        BY <1>a, <1>8, <3>2, <4>3
        DEF CompleteDelivery, Recorded, PlannerOK, MessageState
      <4> QED
        BY <4>2, <4>3
    <3> QED
      BY <1>8, <3>1, <3>2 DEF CompleteDelivery
  <2> QED
    BY <1>8, <1>d, <1>e, <2>0, <2>1, <2>2 DEF CompleteDelivery, TypeOK
<1>9. CASE FailDelivery(w)
  <2>0. pc[w] # "idle" /\ LoopOK'
    BY <1>a, <1>9, RestType DEF FailDelivery
  <2>1. verdict[w] \in RowState
    BY <1>a DEF LoopOK, Verdict, RowState
  <2>2. RowsOK'
    BY <1>a, <1>f, <1>9, <2>0, <2>1 DEF FailDelivery, Release, RowsOK
  <2> QED
    BY <1>9, <1>c, <1>d, <1>e, <2>0, <2>2 DEF FailDelivery, TypeOK
<1>10. CASE Rejected(w) \/ Lost(w)
  <2>1. PICK class \in ErrorClass : CallFails(w, class)
    BY <1>10 DEF Rejected, Lost, ErrorClass
  <2>2. LoopOK'
    BY <1>a, <1>10, <2>1, CallFailsType DEF Rejected, Lost, Sending
  <2>3. NetworkOK'
    BY <1>a, <1>10 DEF Rejected, Lost, NetworkOK, network
  <2> QED
    BY <1>10, <1>b, <1>c, <1>e, <2>2, <2>3 DEF Rejected, Lost, TypeOK
<1>11. CASE OutcomeNotRecorded(w) \/ Crash(w)
  <2>1. LoopOK'
    BY <1>a, <1>11, RestType DEF OutcomeNotRecorded, Crash
  <2> QED
    BY <1>11, <1>b, <1>c, <1>d, <1>e, <2>1 DEF OutcomeNotRecorded, Crash, TypeOK
<1> QED
  BY <1>1, <1>2, <1>3, <1>4, <1>5, <1>6, <1>7, <1>8, <1>9, <1>10, <1>11
  DEF Step, Trouble

LEMMA ClockType ==
    ASSUME TypeOK, Clock \/ Network
    PROVE  TypeOK'
<1>a. RowsOK /\ PlannerOK /\ LoopOK /\ NetworkOK /\ faults \in 0..MaxFaults
  BY DEF TypeOK
<1>b. ASSUME UNCHANGED <<message, reading, loop>> PROVE PlannerOK' /\ LoopOK'
  BY <1>a, <1>b DEF PlannerOK, LoopOK, loop
<1>c. ASSUME UNCHANGED network PROVE NetworkOK'
  BY <1>a, <1>c DEF NetworkOK, network
<1>1. CASE RecoverExpiredLeases
  <2>1. RowsOK'
    BY <1>a, <1>1 DEF RecoverExpiredLeases, AfterLease, RowsOK, RowState
  <2> QED
    BY <1>a, <1>b, <1>c, <1>1, <2>1 DEF RecoverExpiredLeases, TypeOK
<1>2. CASE \E i \in Id : ExpireLease(i) \/ BecomeReady(i)
  <2>1. RowsOK'
    BY <1>a, <1>2 DEF ExpireLease, BecomeReady, RowsOK
  <2>2. faults' \in 0..MaxFaults
    BY <1>a, <1>2, BoundsAssumption DEF ExpireLease, BecomeReady, Fault
  <2> QED
    BY <1>b, <1>c, <1>2, <2>1, <2>2 DEF ExpireLease, BecomeReady, TypeOK
<1>3. CASE Network
  <2>1. NetworkOK'
    BY <1>a, <1>3 DEF Network, Land, Vanish, NetworkOK
  <2>2. RowsOK'
    BY <1>a, <1>3 DEF Network, Land, Vanish, RowsOK, rows
  <2> QED
    BY <1>a, <1>b, <1>3, <2>1, <2>2 DEF Network, Land, Vanish, TypeOK
<1> QED
  BY <1>1, <1>2, <1>3 DEF Clock

LEMMA NextType ==
    ASSUME TypeOK, Calling, [Next]_vars
    PROVE  TypeOK'
<1>1. CASE UNCHANGED vars
  BY <1>1 DEF TypeOK, vars, rows, loop, network, RowsOK, PlannerOK, LoopOK, NetworkOK
<1> QED
  BY <1>1, PlanType, WorkerType, ClockType DEF Next

-----------------------------------------------------------------------------
(* The table.  What one step may do to a row: nothing, plan it, supersede  *)
(* it, claim it, begin it, let go of it or recover it.                     *)
Kept(i)   == state'[i] = state[i] /\ started'[i] = started[i]
Planned(i) == state[i] = "none" /\ state'[i] = "pending" /\ started'[i] = started[i]
Dropped(i) == /\ state[i] \in {"pending", "leased"} /\ ~started[i]
              /\ state'[i] = "superseded" /\ started'[i] = started[i]
Claimed(i) == /\ Eligible(i) /\ state'[i] = "leased" /\ started'[i] = started[i]
Sent(i)    == state[i] = "leased" /\ state'[i] = "sending" /\ started'[i]
Freed(i)   == /\ state[i] \in {"leased", "sending"} /\ started'[i] = started[i]
              /\ state'[i] \in (BegunStates \cup {"pending"}) \ {"sending"}
              /\ started[i] => state'[i] # "pending"

Turn(i) == Kept(i) \/ Planned(i) \/ Dropped(i) \/ Claimed(i) \/ Sent(i) \/ Freed(i)

TableStep ==
    /\ \A i \in Id : Turn(i)
    /\ \A i \in Id : i <= lastId => row'[i] = row[i]
    /\ \A i \in Id : state'[i] = "none" <=> i > lastId'

(* A step that leaves the table alone, or changes one row that exists.     *)
LEMMA StillTable ==
    ASSUME Numbered, UNCHANGED <<lastId, row, state, started>>
    PROVE  TableStep
BY DEF Numbered, TableStep, Turn, Kept

LEMMA OneRow ==
    ASSUME RowsOK, Numbered, NEW i \in Id, NEW s \in RowState \ {"none"},
           state[i] # "none",
           state' = [state EXCEPT ![i] = s], UNCHANGED <<lastId, row>>,
           \A j \in Id \ {i} : started'[j] = started[j],
           Turn(i)
    PROVE  TableStep
<1>1. ASSUME NEW j \in Id, j # i PROVE Turn(j)
  BY <1>1 DEF RowsOK, Turn, Kept
<1>2. \A j \in Id : state'[j] = "none" <=> j > lastId'
  BY DEF RowsOK, Numbered
<1> QED
  BY <1>1, <1>2 DEF TableStep

LEMMA PutTable ==
    ASSUME RowsOK, Numbered, NEW n \in Nat, NEW r,
           NEW m, NEW kinds, NEW cancel \in SUBSET Unsent(m, kinds),
           Put(n, r, cancel)
    PROVE  TableStep
<1> DEFINE new == (lastId + 1)..(lastId + n)
<1>0. lastId \in Nat /\ MaxRows \in Nat /\ lastId + n <= MaxRows
  BY BoundsAssumption DEF RowsOK, Put
<1>1. /\ lastId' = lastId + n
      /\ \A i \in Id : row'[i] = IF i \in new THEN r ELSE row[i]
      /\ \A i \in Id : state'[i] = IF i \in new THEN "pending"
                                   ELSE IF i \in cancel THEN "superseded"
                                   ELSE state[i]
      /\ started' = started
  BY DEF Put
<1>2. \A i \in cancel : state[i] \in {"pending", "leased"} /\ ~started[i]
  BY DEF Unsent
<1>3. \A i \in Id : i \in new <=> state[i] = "none" /\ i <= lastId'
  BY <1>0, <1>1 DEF Numbered, Id
<1> HIDE DEF new
<1>4. ASSUME NEW i \in Id PROVE Turn(i)
  <2>1. CASE i \in new
    BY <1>1, <1>3, <2>1 DEF Turn, Planned
  <2>2. CASE i \notin new /\ i \in cancel
    BY <1>1, <1>2, <2>2 DEF Turn, Dropped
  <2>3. CASE i \notin new /\ i \notin cancel
    BY <1>1, <2>3 DEF Turn, Kept
  <2> QED
    BY <2>1, <2>2, <2>3
<1>5. \A i \in Id : i <= lastId => row'[i] = row[i]
  BY <1>0, <1>1, <1>3 DEF Numbered, Id
<1>6. \A i \in Id : state'[i] = "none" <=> i > lastId'
  <2>1. \A i \in Id : i <= lastId => i <= lastId'
    BY <1>0, <1>1 DEF Id
  <2>2. \A i \in Id : i > lastId' <=> ~(i <= lastId')
    BY <1>0, <1>1 DEF Id
  <2> QED
    BY <1>0, <1>1, <1>2, <1>3, <2>1, <2>2 DEF Numbered, Id
<1> QED
  BY <1>4, <1>5, <1>6 DEF TableStep

LEMMA PlanTable ==
    ASSUME TypeOK, Numbered, Plan
    PROVE  TableStep
<1>a. RowsOK /\ PlannerOK /\ 0 \in Nat /\ 1 \in Nat
  BY DEF TypeOK
<1>b. {} \subseteq Unsent({}, {})
  OBVIOUS
<1>c. ASSUME UNCHANGED rows PROVE TableStep
  BY <1>c, StillTable DEF rows
<1>1. ASSUME NEW m \in Message, PlanCreate(m) PROVE TableStep
  BY <1>a, <1>b, <1>1, PutTable DEF PlanCreate
<1>2. ASSUME NEW m \in Message, PlanEdit(m) PROVE TableStep
  BY <1>a, <1>c, <1>2, PutTable DEF PlanEdit
<1>3. ASSUME NEW m \in Message, PlanReaction(m) PROVE TableStep
  <2>1. UNCHANGED rows \/ \E r : Put(1, r, {})
    BY <1>3 DEF PlanReaction
  <2> QED
    BY <1>a, <1>b, <1>c, <2>1, PutTable
<1>4. ASSUME NEW m \in Message, PlanRevoke(m) PROVE TableStep
  BY <1>a, <1>4, PutTable DEF PlanRevoke
<1>5. ASSUME NEW m \in Message, TimerExpire(m) PROVE TableStep
  <2> DEFINE n == IF message[m].copy = "live" THEN message[m].parts ELSE 0
  <2>1. n \in Nat
    BY <1>a, BoundsAssumption DEF PlannerOK, MessageState
  <2>2. \E r : Put(n, r, Unsent(m, {"create", "edit", "reaction"}))
    BY <1>5 DEF TimerExpire
  <2> HIDE DEF n
  <2> QED
    BY <1>a, <2>1, <2>2, PutTable
<1>6. ASSUME NEW m \in Message, AdminDelete(m) PROVE TableStep
  BY <1>a, <1>6, PutTable DEF AdminDelete
<1>7. ASSUME NEW m \in Message, ReadParts(m) PROVE TableStep
  BY <1>c, <1>7 DEF ReadParts
<1>8. CASE GiveUpReading
  BY <1>c, <1>8 DEF GiveUpReading
<1> QED
  BY <1>1, <1>2, <1>3, <1>4, <1>5, <1>6, <1>7, <1>8 DEF Plan

LEMMA WorkerTable ==
    ASSUME TypeOK, Numbered, NEW w \in Workers, Step(w) \/ Trouble(w)
    PROVE  TableStep
<1>a. RowsOK /\ LoopOK
  BY DEF TypeOK
<1>b. ASSUME UNCHANGED rows PROVE TableStep
  BY <1>b, StillTable DEF rows
<1>c. ASSUME pc[w] # "idle" PROVE job[w] \in Id
  BY <1>a, <1>c DEF LoopOK
<1>1. CASE ClaimDelivery(w)
  <2>1. PICK i \in Id : Eligible(i) /\ state' = [state EXCEPT ![i] = "leased"]
    BY <1>1 DEF ClaimDelivery
  <2>2. Turn(i)
    BY <1>a, <1>1, <2>1 DEF RowsOK, ClaimDelivery, Turn, Claimed
  <2> QED
    BY <1>a, <1>1, <2>1, <2>2, OneRow DEF ClaimDelivery, Eligible, RowState
<1>2. CASE BeginSend(w)
  <2>1. job[w] \in Id /\ state[job[w]] = "leased"
    BY <1>c, <1>2 DEF BeginSend, Holds
  <2>2. Turn(job[w]) /\ \A j \in Id \ {job[w]} : started'[j] = started[j]
    BY <1>a, <1>2, <2>1 DEF RowsOK, BeginSend, Turn, Sent
  <2> QED
    BY <1>a, <1>2, <2>1, <2>2, OneRow DEF BeginSend, RowState
<1>3. CASE CompleteDelivery(w)
  <2>1. CASE UNCHANGED <<state, owner, message>>
    BY <1>3, <2>1, StillTable DEF CompleteDelivery
  <2>2. CASE Holds(w, {"sending"}) /\ Release(job[w], "succeeded")
    <3>1. job[w] \in Id /\ state[job[w]] = "sending"
      BY <1>c, <1>3, <2>2 DEF CompleteDelivery, Holds
    <3>2. Turn(job[w])
      BY <1>a, <1>3, <2>2, <3>1
      DEF RowsOK, CompleteDelivery, Release, Turn, Freed, BegunStates
    <3> QED
      BY <1>a, <1>3, <2>2, <3>1, <3>2, OneRow DEF CompleteDelivery, Release, RowState
  <2> QED
    BY <1>3, <2>1, <2>2 DEF CompleteDelivery
<1>4. CASE FailDelivery(w)
  <2>1. CASE UNCHANGED <<state, owner, ready>>
    BY <1>4, <2>1, StillTable DEF FailDelivery
  <2>2. CASE /\ Holds(w, {"leased", "sending"})
             /\ ~(started[job[w]] /\ verdict[w] = "pending")
             /\ Release(job[w], verdict[w])
    <3>1. job[w] \in Id /\ state[job[w]] \in {"leased", "sending"}
      BY <1>c, <1>4, <2>2 DEF FailDelivery, Holds
    <3>2. verdict[w] \in {"pending", "uncertain", "blocked", "dead"}
      BY <1>a, <1>4 DEF FailDelivery, LoopOK, Verdict
    <3>3. Turn(job[w])
      BY <1>a, <1>4, <2>2, <3>1, <3>2
      DEF RowsOK, FailDelivery, Release, Turn, Freed, BegunStates
    <3> QED
      BY <1>a, <1>4, <2>2, <3>1, <3>2, <3>3, OneRow
      DEF FailDelivery, Release, RowState
  <2> QED
    BY <1>4, <2>1, <2>2 DEF FailDelivery
<1>5. CASE UNCHANGED rows
  BY <1>b, <1>5
<1> QED
  BY <1>1, <1>2, <1>3, <1>4, <1>5
  DEF Step, Trouble, NotConnected, BeginSendFails, Issue, Refuse, Answered,
      Rejected, Lost, OutcomeNotRecorded, Crash

LEMMA NextTable ==
    ASSUME TypeOK, Numbered, [Next]_vars
    PROVE  TableStep
<1>1. CASE RecoverExpiredLeases
  <2>1. RowsOK
    BY DEF TypeOK
  <2>2. \A i \in Id : Turn(i)
    BY <1>1, <2>1 DEF RecoverExpiredLeases, AfterLease, RowsOK, Turn, Freed, Kept,
                      BegunStates
  <2> QED
    BY <1>1, <2>1, <2>2 DEF RecoverExpiredLeases, AfterLease, RowsOK, Numbered, TableStep
<1>2. CASE UNCHANGED <<lastId, row, state, started>>
  BY <1>2, StillTable
<1>3. CASE \E i \in Id : ExpireLease(i) \/ BecomeReady(i)
  BY <1>2, <1>3 DEF ExpireLease, BecomeReady
<1>4. CASE Network \/ UNCHANGED vars
  BY <1>2, <1>4 DEF Network, Land, Vanish, rows, vars
<1> QED
  BY <1>1, <1>3, <1>4, PlanTable, WorkerTable DEF Next, Clock

(* What every step does to the table keeps the order of rows and the       *)
(* meaning of send_started_at_ms.                                          *)
LEMMA TableKeeps ==
    ASSUME TypeOK, TypeOK', Numbered, Begun, NoOvertaking, TableStep
    PROVE  Numbered' /\ Begun' /\ NoOvertaking'
<1>a. RowsOK /\ RowsOK'
  BY DEF TypeOK
<1>1. Numbered'
  BY DEF Numbered, TableStep
<1>2. Begun'
  <2>1. ASSUME NEW i \in Id, started'[i] PROVE state'[i] \in BegunStates
    <3>1. Turn(i) /\ (started[i] => state[i] \in BegunStates)
      BY DEF TableStep, Begun
    <3> QED
      BY <2>1, <3>1 DEF Turn, Kept, Planned, Dropped, Claimed, Sent, Freed,
                        Eligible, BegunStates
  <2> QED
    BY <2>1 DEF Begun
<1>3. NoOvertaking'
  <2>1. SUFFICES ASSUME NEW i \in Id, NEW j \in Id, i < j, row'[i].of = row'[j].of,
                        state'[j] \notin {"none", "pending", "superseded"}
                 PROVE  state'[i] \in Settled
    BY DEF NoOvertaking
  <2>2. state[j] # "none"
    BY <2>1 DEF TableStep, Turn, Kept, Planned, Dropped, Claimed, Sent, Freed, Eligible
  <2>3. j <= lastId /\ i <= lastId /\ state[i] # "none"
    BY <1>a, <2>1, <2>2 DEF Numbered, Id, RowsOK
  <2>4. row[i].of = row[j].of
    BY <2>1, <2>3 DEF TableStep
  <2>5. state[i] \in Settled
    <3>1. CASE Claimed(j)
      <4>1. state[i] \notin {"pending", "leased", "sending", "uncertain", "blocked"}
        BY <2>1, <2>4, <3>1 DEF Claimed, Eligible, Overtakes, Id
      <4> QED
        BY <1>a, <2>3, <4>1 DEF RowsOK, RowState, Settled
    <3>2. CASE ~Claimed(j)
      <4>1. state[j] \notin {"none", "pending", "superseded"}
        BY <2>1, <2>2, <3>2
        DEF TableStep, Turn, Kept, Planned, Dropped, Sent, Freed
      <4> QED
        BY <2>1, <2>4, <4>1 DEF NoOvertaking
    <3> QED
      BY <3>1, <3>2
  <2> QED
    BY <2>5 DEF TableStep, Turn, Kept, Planned, Dropped, Claimed, Sent, Freed,
                Eligible, Settled
<1> QED
  BY <1>1, <1>2, <1>3

-----------------------------------------------------------------------------
(* The workers.  A step of worker w leaves the others where they are, and  *)
(* makes requests for no row but its own.                                  *)
OthersStay(w) ==
    /\ \A v \in Workers \ {w} : /\ pc'[v] = pc[v] /\ job'[v] = job[v]
                                /\ at'[v] = at[v] /\ verdict'[v] = verdict[v]
    /\ \A i \in Id : started[i] => started'[i]

Requests == Calling /\ Apart /\ Untouched /\ AtMostOnce

(* A step after which w is not sending makes no request.                   *)
Quiet(w) ==
    /\ OthersStay(w)
    /\ ~Sending(w)'
    /\ pc'[w] = "claimed" => at'[w] = 0
    /\ issued' = issued

LEMMA QuietKeeps ==
    ASSUME LoopOK, Requests, NEW w \in Workers, Quiet(w)
    PROVE  Requests'
<1>1. ASSUME NEW v \in Workers PROVE InRow(v)'
  <2>1. CASE v = w
    BY <2>1 DEF Quiet, Sending, InRow
  <2>2. CASE v # w
    <3>1. InRow(v) /\ (Sending(v) => job[v] \in Id)
      BY DEF Requests, Calling, Sending, LoopOK
    <3> QED
      BY <2>2, <3>1 DEF Quiet, OthersStay, Sending, InRow
  <2> QED
    BY <2>1, <2>2
<1>2. Apart'
  BY DEF Requests, Apart, Quiet, OthersStay, Sending
<1>3. Untouched' /\ AtMostOnce'
  BY DEF Requests, Untouched, AtMostOnce, Quiet, OthersStay
<1> QED
  BY <1>1, <1>2, <1>3 DEF Requests, Calling

(* A step that leaves w in its row with a request to make: requests out    *)
(* are unchanged, and no other worker sends for the row.                   *)
Poised(w) ==
    /\ OthersStay(w)
    /\ pc'[w] = "call"
    /\ job'[w] = job[w]
    /\ job[w] \in Id /\ started'[job[w]]
    /\ \A v \in Workers \ {w} : Sending(v) => job[v] # job[w]
    /\ issued' = issued
    /\ \A k \in Call : k >= at'[w] => issued[job[w]][k] = 0
    /\ at'[w] = Notice => verdict'[w] # "none"

LEMMA PoisedKeeps ==
    ASSUME LoopOK, Requests, NEW w \in Workers, Poised(w)
    PROVE  Requests'
<1>1. ASSUME NEW v \in Workers PROVE InRow(v)'
  <2>1. CASE v = w
    BY <2>1 DEF Poised, Sending, InRow
  <2>2. CASE v # w
    <3>1. InRow(v) /\ (Sending(v) => job[v] \in Id)
      BY DEF Requests, Calling, Sending, LoopOK
    <3> QED
      BY <2>2, <3>1 DEF Poised, OthersStay, Sending, InRow
  <2> QED
    BY <2>1, <2>2
<1>2. Apart'
  BY DEF Requests, Apart, Poised, OthersStay, Sending
<1>3. Untouched' /\ AtMostOnce'
  BY DEF Requests, Untouched, AtMostOnce, Poised, OthersStay
<1> QED
  BY <1>1, <1>2, <1>3 DEF Requests, Calling

LEMMA IssueKeeps ==
    ASSUME TypeOK, Requests, NEW w \in Workers, Issue(w)
    PROVE  Requests'
<1> DEFINE i == job[w]
           a == at[w]
<1>a. LoopOK /\ NetworkOK
  BY DEF TypeOK
<1>0. i \in Id /\ a \in Call
  BY <1>a DEF LoopOK, Issue
<1>1. InRow(w) /\ pc[w] = "call" /\ started[i]
  BY DEF Requests, Calling, InRow, Sending, Issue
<1>2. issued[i][a] = 0
  <2>1. a >= a
    BY <1>0, BoundsAssumption DEF Call
  <2> QED
    BY <1>0, <1>1, <2>1 DEF InRow
<1>3. /\ issued'[i][a] = 1
      /\ \A k \in Call : k # a => issued'[i][k] = issued[i][k]
      /\ \A j \in Id : j # i => issued'[j] = issued[j]
  BY <1>a, <1>0, <1>2 DEF NetworkOK, Issue
<1>4. /\ \A v \in Workers : v # w => pc'[v] = pc[v]
      /\ pc'[w] = "wait"
      /\ UNCHANGED <<job, at, verdict, started>>
  BY <1>a DEF LoopOK, Issue, rows
<1> HIDE DEF i, a
<1>5. InRow(w)'
  <2>1. \A k \in Call : k > a => k # a /\ k >= a
    BY <1>0, BoundsAssumption DEF Call
  <2> QED
    BY <1>1, <1>3, <1>4, <2>1 DEF InRow, Sending, i, a
<1>6. ASSUME NEW v \in Workers, v # w PROVE InRow(v)'
  <2>1. InRow(v) /\ (Sending(v) => job[v] \in Id /\ job[v] # i)
    BY <1>a, <1>1, <1>6 DEF Requests, Calling, Apart, Sending, LoopOK, i
  <2> QED
    BY <1>3, <1>4, <1>6, <2>1 DEF InRow, Sending
<1>7. Apart'
  BY <1>1, <1>4 DEF Requests, Apart, Sending
<1>8. Untouched'
  BY <1>0, <1>1, <1>3, <1>4 DEF Requests, Untouched
<1>9. AtMostOnce'
  <2>1. SUFFICES ASSUME NEW j \in Id, NEW k \in Call PROVE issued'[j][k] <= 1
    BY DEF AtMostOnce
  <2>2. issued[j][k] <= 1
    BY DEF Requests, AtMostOnce
  <2> QED
    BY <1>3, <2>2
<1> QED
  BY <1>5, <1>6, <1>7, <1>8, <1>9 DEF Requests, Calling

(* Steps of nobody's delivery loop.                                        *)
LEMMA StillRequests ==
    ASSUME Requests, UNCHANGED <<pc, job, at, verdict, issued, started>>
    PROVE  Requests'
BY DEF Requests, Calling, InRow, Sending, Apart, Untouched, AtMostOnce

(* What moves in a step of w other than BeginSend is w's alone.            *)
LEMMA DecideQuiet ==
    ASSUME LoopOK, NEW w \in Workers, NEW v, Decide(w, v),
           UNCHANGED <<issued, started>>
    PROVE  Quiet(w)
BY DEF LoopOK, Decide, Quiet, OthersStay, Sending

LEMMA RestQuiet ==
    ASSUME LoopOK, NEW w \in Workers, Rest(w), UNCHANGED <<issued, started>>
    PROVE  Quiet(w)
BY DEF LoopOK, Rest, Quiet, OthersStay, Sending

(* A failed request is over, or followed by a notice not yet requested.    *)
LEMMA CallFailsKeeps ==
    ASSUME TypeOK, Requests, NEW w \in Workers, Sending(w), NEW class \in ErrorClass,
           CallFails(w, class), UNCHANGED <<issued, started>>
    PROVE  Requests'
<1>a. LoopOK
  BY DEF TypeOK
<1>1. CASE Decide(w, FinalVerdict(w, class))
  BY <1>a, <1>1, DecideQuiet, QuietKeeps
<1>2. CASE /\ FallsBack(w, class)
           /\ pc' = [pc EXCEPT ![w] = "call"]
           /\ at' = [at EXCEPT ![w] = Notice]
           /\ verdict' = [verdict EXCEPT ![w] = VerdictOn(class)]
           /\ UNCHANGED job
  <2>1. OthersStay(w) /\ pc'[w] = "call" /\ at'[w] = Notice
        /\ verdict'[w] = VerdictOn(class)
    BY <1>a, <1>2 DEF OthersStay, LoopOK
  <2>2. job[w] \in Id /\ started[job[w]] /\ InRow(w)
    BY <1>a DEF Requests, Calling, InRow, Sending, LoopOK
  <2>3. \A v \in Workers \ {w} : Sending(v) => job[v] # job[w]
    BY DEF Requests, Apart
  <2>4. \A k \in Call : k >= Notice => issued[job[w]][k] = 0
    <3>1. \A k \in Call : k >= Notice => k > at[w] /\ k >= at[w]
      BY <1>a, <1>2, BoundsAssumption DEF FallsBack, LoopOK, Call, Notice
    <3> QED
      BY <2>2, <3>1 DEF InRow, Sending
  <2>5. VerdictOn(class) # "none"
    BY VerdictOnType
  <2>6. Poised(w)
    BY <1>2, <2>1, <2>2, <2>3, <2>4, <2>5 DEF Poised
  <2> QED
    BY <1>a, <2>6, PoisedKeeps
<1> QED
  BY <1>1, <1>2 DEF CallFails

LEMMA BeginSendKeeps ==
    ASSUME TypeOK, Begun, Requests, NEW w \in Workers, BeginSend(w)
    PROVE  Requests'
<1>a. LoopOK /\ RowsOK
  BY DEF TypeOK
<1>1. job[w] \in Id /\ state[job[w]] = "leased"
  BY <1>a DEF BeginSend, Holds, LoopOK
<1>2. ~started[job[w]]
  BY <1>1 DEF Begun, BegunStates
<1>3. OthersStay(w) /\ pc'[w] = "call" /\ started'[job[w]]
  BY <1>a, <1>1 DEF BeginSend, OthersStay, LoopOK, RowsOK
<1>4. \A k \in Call : issued[job[w]][k] = 0
  BY <1>1, <1>2 DEF Requests, Untouched
<1>5. \A v \in Workers : Sending(v) => started[job[v]]
  BY DEF Requests, Calling, InRow
<1>6. at[w] = 0 /\ 0 # Notice
  BY BoundsAssumption DEF Requests, Calling, InRow, BeginSend, Notice
<1>7. Poised(w)
  BY <1>1, <1>2, <1>3, <1>4, <1>5, <1>6 DEF Poised, BeginSend, network
<1> QED
  BY <1>a, <1>7, PoisedKeeps

LEMMA AnsweredKeeps ==
    ASSUME TypeOK, Requests, NEW w \in Workers, Answered(w)
    PROVE  Requests'
<1>a. LoopOK /\ RowsOK /\ UNCHANGED <<issued, started>>
  BY DEF TypeOK, Answered, rows
<1>1. CASE Decide(w, "succeeded")
  BY <1>a, <1>1, DecideQuiet, QuietKeeps
<1>2. CASE /\ More(w)
           /\ pc' = [pc EXCEPT ![w] = "call"]
           /\ at' = [at EXCEPT ![w] = @ + 1]
           /\ UNCHANGED <<job, verdict>>
  <2>1. OthersStay(w) /\ pc'[w] = "call" /\ at'[w] = at[w] + 1
    BY <1>a, <1>2 DEF OthersStay, LoopOK
  <2>2. job[w] \in Id /\ started[job[w]] /\ InRow(w) /\ pc[w] = "wait"
    BY <1>a DEF Requests, Calling, InRow, Sending, LoopOK, Answered
  <2>3. \A v \in Workers \ {w} : Sending(v) => job[v] # job[w]
    BY <2>2 DEF Requests, Apart, Sending
  <2>4. \A k \in Call : k >= at[w] + 1 => issued[job[w]][k] = 0
    <3>1. \A k \in Call : k >= at[w] + 1 => k > at[w]
      BY <1>a, BoundsAssumption DEF LoopOK, Call
    <3> QED
      BY <2>2, <3>1 DEF InRow
  <2>5. at[w] + 1 # Notice
    <3>1. row[job[w]] \in Row \cup {NoRow}
      BY <1>a, <2>2 DEF RowsOK
    <3>2. row[job[w]].calls \in 0..MaxChunks
      BY <3>1, BoundsAssumption DEF Row, NoRow
    <3> QED
      BY <1>a, <1>2, <3>2, BoundsAssumption DEF More, LoopOK, Call, Notice
  <2>6. Poised(w)
    BY <1>a, <1>2, <2>1, <2>2, <2>3, <2>4, <2>5 DEF Poised
  <2> QED
    BY <1>a, <2>6, PoisedKeeps
<1> QED
  BY <1>1, <1>2 DEF Answered

LEMMA WorkerRequests ==
    ASSUME TypeOK, Begun, Requests, NEW w \in Workers, Step(w) \/ Trouble(w)
    PROVE  Requests'
<1>a. LoopOK
  BY DEF TypeOK
<1>1. CASE ClaimDelivery(w)
  <2>1. Quiet(w)
    BY <1>a, <1>1 DEF LoopOK, ClaimDelivery, Quiet, OthersStay, Sending, network
  <2> QED
    BY <1>a, <2>1, QuietKeeps
<1>2. CASE NotConnected(w) \/ BeginSendFails(w)
  BY <1>a, <1>2, DecideQuiet, QuietKeeps
  DEF NotConnected, BeginSendFails, rows, network
<1>3. CASE CompleteDelivery(w) \/ FailDelivery(w) \/ OutcomeNotRecorded(w) \/ Crash(w)
  BY <1>a, <1>3, RestQuiet, QuietKeeps
  DEF CompleteDelivery, FailDelivery, OutcomeNotRecorded, Crash, rows, network
<1>4. CASE Refuse(w) \/ Rejected(w) \/ Lost(w)
  <2>1. Sending(w) /\ UNCHANGED <<issued, started>>
    BY <1>4 DEF Refuse, Rejected, Lost, Sending, rows, network
  <2>2. PICK class \in ErrorClass : CallFails(w, class)
    BY <1>4 DEF Refuse, Rejected, Lost, ErrorClass
  <2> QED
    BY <2>1, <2>2, CallFailsKeeps
<1> QED
  BY <1>1, <1>2, <1>3, <1>4, BeginSendKeeps, IssueKeeps, AnsweredKeeps DEF Step, Trouble

LEMMA NextRequests ==
    ASSUME TypeOK, Begun, Requests, [Next]_vars
    PROVE  Requests'
<1>1. CASE Plan
  <2>1. UNCHANGED <<loop, network, started>>
    BY <1>1 DEF Plan, PlanCreate, ReadParts, PlanEdit, PlanReaction, PlanRevoke,
                TimerExpire, AdminDelete, GiveUpReading, Put, rows
  <2> QED
    BY <2>1, StillRequests DEF loop, network
<1>2. CASE Clock \/ Network \/ UNCHANGED vars
  BY <1>2, StillRequests
  DEF Clock, Network, RecoverExpiredLeases, ExpireLease, BecomeReady, Land, Vanish,
      vars, rows, loop, network
<1> QED
  BY <1>1, <1>2, WorkerRequests DEF Next

-----------------------------------------------------------------------------
(* The theorems.                                                           *)

LEMMA InitInvariant == Init => IInv
<1> SUFFICES ASSUME Init PROVE IInv
  OBVIOUS
<1>1. TypeOK
  BY InitType
<1>2. Numbered /\ Begun /\ NoOvertaking
  BY BoundsAssumption DEF Init, Numbered, Begun, NoOvertaking, Id
<1>3. Calling /\ Apart /\ Untouched /\ AtMostOnce
  BY DEF Init, Calling, InRow, Sending, Apart, Untouched, AtMostOnce
<1> QED
  BY <1>1, <1>2, <1>3 DEF IInv

LEMMA NextInvariant == IInv /\ [Next]_vars => IInv'
<1> SUFFICES ASSUME IInv, [Next]_vars PROVE IInv'
  OBVIOUS
<1>1. TypeOK'
  BY NextType DEF IInv
<1>2. Numbered' /\ Begun' /\ NoOvertaking'
  BY <1>1, NextTable, TableKeeps DEF IInv
<1>3. Calling' /\ Apart' /\ Untouched' /\ AtMostOnce'
  BY NextRequests DEF IInv, Requests
<1> QED
  BY <1>1, <1>2, <1>3 DEF IInv

(* The inductive invariant holds in every reachable state: where a worker  *)
(* is in its row, and what the store says of the row, account for every    *)
(* request made (StepDelivery, BeginSend, RecoverExpiredLeases).           *)
THEOREM Invariance == Spec => []IInv
BY InitInvariant, NextInvariant, PTL DEF Spec

(* The state of the outbox and of its workers is well typed; a worker that *)
(* comes to record an outcome has one (StepDelivery).                      *)
THEOREM TypeCorrect == Spec => []TypeOK
<1>1. IInv => TypeOK
  BY DEF IInv
<1> QED
  BY <1>1, Invariance, PTL

(* No chunk, edit, deletion, reaction or notice is ever requested twice,   *)
(* with any number of delivery loops over one database, crashes and lapsed *)
(* leases (ClaimDelivery, BeginSend, FailDelivery, RecoverExpiredLeases).  *)
THEOREM NeverTwice == Spec => []AtMostOnce
<1>1. IInv => AtMostOnce
  BY DEF IInv
<1> QED
  BY <1>1, Invariance, PTL

(* The operations on a message are taken up in the order in which they     *)
(* were planned, each after the earlier ones are done (ClaimDelivery).     *)
THEOREM InOrder == Spec => []NoOvertaking
<1>1. IInv => NoOvertaking
  BY DEF IInv
<1> QED
  BY <1>1, Invariance, PTL

(* What the store takes back into the queue, or supersedes, it has not     *)
(* handed to a platform (RecoverExpiredLeases, FailDelivery, PlanEvent).   *)
THEOREM UnsentIsUnsent == Spec => []UnsentMeansUnsent
<1>1. IInv => UnsentMeansUnsent
  BY DEF IInv, Begun, BegunStates, Untouched, UnsentMeansUnsent
<1> QED
  BY <1>1, Invariance, PTL

(* No late answer, recovery or planner changes an outcome once recorded.   *)
THEOREM OutcomesStay == Spec => SettledForGood
<1>1. ASSUME IInv, [Next]_vars
      PROVE  \A i \in Id : state[i] \in Settled \cup {"uncertain", "blocked"}
                              => state'[i] = state[i]
  <2>1. TableStep
    BY <1>1, NextTable DEF IInv
  <2> QED
    BY <2>1 DEF TableStep, Turn, Kept, Planned, Dropped, Claimed, Sent, Freed,
                Eligible, Settled
<1>2. IInv /\ [Next]_vars
        => [\A i \in Id : state[i] \in Settled \cup {"uncertain", "blocked"}
                            => state'[i] = state[i]]_vars
  BY <1>1
<1> QED
  BY <1>2, Invariance, PTL DEF Spec, SettledForGood

=============================================================================
