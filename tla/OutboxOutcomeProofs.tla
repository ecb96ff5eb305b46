------------------------- MODULE OutboxOutcomeProofs -------------------------
(***************************************************************************)
(* More proofs about the outbox: that what is still queued is what the     *)
(* message last asked for, and that what a row reports is what became of   *)
(* its requests.  The invariants here are inductive together with IInv.    *)
(***************************************************************************)
EXTENDS OutboxProofs

Queued == {"pending", "leased"}
There(i) == state[i] # "none"

-----------------------------------------------------------------------------
(* The planners' part.                                                     *)

(* Only rows that have been inserted ask for anything.                     *)
Filled == \A i \in Id : IF There(i) THEN row[i] \in Row ELSE row[i] = NoRow

(* A message whose rows, copy, tombstone or parts anybody has seen is      *)
(* known to the store, at the version of its rows at least.                *)
Known ==
    /\ \A i \in Id : There(i) => /\ message[row[i].of].ver > 0
                                 /\ message[row[i].of].ver >= row[i].ver
    /\ \A m \in Message : message[m].copy # "none" => message[m].ver > 0
    /\ reading # NotRead => message[reading.of].ver > 0

(* A revoke is planned with the tombstone, which then stays.               *)
Buried == \A i \in Id : There(i) /\ row[i].kind = "revoke" => message[row[i].of].tomb

(* A row that is being sent is marked so.                                  *)
Marked == \A i \in Id : state[i] = "sending" => started[i]

IntentInv ==
    /\ Filled
    /\ Known
    /\ Buried
    /\ Marked
    /\ LatestIntentOnly
    /\ LastRevokeIsValid

-----------------------------------------------------------------------------
(* The workers' part.                                                      *)

(* A worker at chunk k of a create has had the earlier ones carried out,   *)
(* and every one of them when it is about to record a success.             *)
Chunks(w) ==
    LET i == job[w]
    IN  pc[w] # "idle" /\ row[i].kind = "create" =>
          /\ at[w] < row[i].calls
          /\ \A k \in 0..(at[w] - 1) : <<i, k>> \in applied
          /\ pc[w] = "settle" /\ verdict[w] = "succeeded"
               => \A k \in 0..(row[i].calls - 1) : <<i, k>> \in applied

(* Nobody takes a row away from the worker that makes requests for it: it  *)
(* is that worker's, unless its lease lapsed and it was put aside.         *)
Hold(w) ==
    Sending(w) => \/ state[job[w]] = "uncertain"
                  \/ state[job[w]] = "sending" /\ owner[job[w]] = w

(* An outcome other than "not tried" is that of a row that has begun.      *)
Grounded(w) ==
    pc[w] = "settle" /\ verdict[w] \notin {"pending", "dead"} => started[job[w]]

Work(w) ==
    /\ pc[w] # "idle" => There(job[w])
    /\ Chunks(w)
    /\ Hold(w)
    /\ Grounded(w)

AtRow == \A w \in Workers : Work(w)

(* Every request out is of a row that is there.  While a chunk or a        *)
(* reaction is out, its row is not settled, and the worker that holds the  *)
(* row either waits for the answer or will report that it got none.        *)
Awaits(w, c) ==
    \/ pc[w] = "wait" /\ at[w] = c[2]
    \/ pc[w] = "settle" /\ verdict[w] = "uncertain"

OutAt(c) ==
    /\ There(c[1])
    /\ row[c[1]].kind \in {"create", "reaction"} =>
         /\ state[c[1]] \in {"sending", "uncertain"}
         /\ \A w \in Workers :
              /\ state[c[1]] = "sending" /\ owner[c[1]] = w
              /\ pc[w] # "idle" /\ job[w] = c[1]
              => Awaits(w, c)

Out == \A c \in flight : OutAt(c)

OutcomeInv ==
    /\ AtRow
    /\ Out
    /\ DeliveredInFull

-----------------------------------------------------------------------------
(* What a planner does: it gives message m the state rec, inserts n rows r *)
(* about it and supersedes its unsent rows of the given kinds.             *)
Plans(m, n, r, kinds, rec) ==
    /\ Put(n, r, Unsent(m, kinds))
    /\ message' = [message EXCEPT ![m] = rec]
    /\ rec \in MessageState /\ rec.ver > 0 /\ rec.ver >= message[m].ver
    /\ message[m].ver > 0 /\ message[m].tomb => rec.tomb
    /\ rec.tomb => rec.copy # "live"
    (* The new rows are what the message asks for.                         *)
    /\ n > 0 =>
         /\ r \in Row /\ r.of = m /\ r.ver <= rec.ver
         /\ r.kind = "edit" => r.ver = rec.ver
         /\ r.kind = "revoke" => rec.tomb /\ r.ver = rec.ver
         /\ rec.tomb => r.kind = "revoke"
    (* The old ones no longer do unless they are still current.            *)
    /\ rec.ver # message[m].ver /\ message[m].ver > 0 =>
         /\ "edit" \in kinds
         /\ ~message[m].tomb \/ n > 0
    /\ rec.tomb => message[m].tomb \/ {"create", "edit", "reaction"} \subseteq kinds

(* The table after Put: new rows, superseded ones, and the rest.           *)
LEMMA PutRows ==
    ASSUME RowsOK, Numbered, Begun, NEW m \in Message, NEW n \in Nat, NEW r, NEW kinds,
           Put(n, r, Unsent(m, kinds)), NEW i \in Id
    PROVE  /\ ~There(i) /\ state'[i] # "none" =>
                 n > 0 /\ row'[i] = r /\ state'[i] = "pending"
           /\ ~There(i) /\ state'[i] = "none" => row'[i] = row[i]
           /\ There(i) => /\ row'[i] = row[i]
                          /\ state'[i] # "none"
                          /\ state'[i] \in Queued =>
                               /\ state[i] \in Queued
                               /\ row[i].of = m => row[i].kind \notin kinds
<1> DEFINE new == (lastId + 1)..(lastId + n)
<1>0. lastId \in Nat /\ MaxRows \in Nat /\ lastId + n <= MaxRows /\ i \in 1..MaxRows
  BY BoundsAssumption DEF RowsOK, Put, Id
<1>1. /\ row'[i] = IF i \in new THEN r ELSE row[i]
      /\ state'[i] = IF i \in new THEN "pending"
                     ELSE IF i \in Unsent(m, kinds) THEN "superseded"
                     ELSE state[i]
  BY DEF Put
<1>2. i \in new => n > 0 /\ ~There(i)
  BY <1>0 DEF Numbered, There, Id
<1> HIDE DEF new
<1>3. i \in Unsent(m, kinds) => There(i)
  BY DEF Unsent, There
<1>4. state[i] \in Queued => ~started[i]
  BY DEF Begun, BegunStates, Queued
<1>5. state[i] \in Queued /\ row[i].of = m /\ row[i].kind \in kinds
        => i \in Unsent(m, kinds)
  BY <1>4 DEF Unsent, Queued
<1> QED
  BY <1>1, <1>2, <1>3, <1>5 DEF There, Queued

LEMMA PlansIntent ==
    ASSUME TypeOK, Numbered, Begun, IntentInv, UNCHANGED started,
           NEW m \in Message, NEW n \in Nat, NEW r, NEW kinds, NEW rec,
           Plans(m, n, r, kinds, rec),
           reading' \in {reading, NotRead}
    PROVE  IntentInv'
<1>a. RowsOK /\ PlannerOK
  BY DEF TypeOK
<1>b. Put(n, r, Unsent(m, kinds))
  BY DEF Plans
<1> DEFINE Is(i) == /\ ~There(i) /\ state'[i] # "none" =>
                         n > 0 /\ row'[i] = r /\ state'[i] = "pending"
                    /\ ~There(i) /\ state'[i] = "none" => row'[i] = row[i]
                    /\ There(i) => /\ row'[i] = row[i]
                                   /\ state'[i] # "none"
                                   /\ state'[i] \in Queued =>
                                        /\ state[i] \in Queued
                                        /\ row[i].of = m => row[i].kind \notin kinds
<1>1. ASSUME NEW i \in Id PROVE Is(i)
  BY <1>a, <1>b, PutRows
<1> HIDE DEF Is
<1>2. /\ message'[m] = rec
      /\ \A o \in Message : o # m => message'[o] = message[o]
  BY <1>a DEF Plans, PlannerOK
<1>3. n > 0 => /\ r \in Row /\ r.of = m /\ r.ver <= rec.ver /\ r.kind \in Kind
               /\ r.kind = "edit" => r.ver = rec.ver
               /\ r.kind = "revoke" => rec.tomb /\ r.ver = rec.ver
               /\ rec.tomb => r.kind = "revoke"
  BY DEF Plans, Row
<1>4. \A i \in Id : There(i) => row[i] \in Row /\ row[i].of \in Message
                               /\ row[i].kind \in Kind
  BY DEF IntentInv, Filled, Row
<1>5. Filled'
  <2>1. \A i \in Id : IF There(i) THEN row[i] \in Row ELSE row[i] = NoRow
    BY DEF IntentInv, Filled
  <2> QED
    BY <1>1, <1>3, <2>1 DEF Filled, There, Is
<1>6. Known'
  <2>1. ASSUME NEW i \in Id, There(i)'
        PROVE  message'[row'[i].of].ver > 0 /\ message'[row'[i].of].ver >= row'[i].ver
    <3>1. CASE There(i)
      <4>1. /\ row[i] \in Row /\ row[i].of \in Message /\ row'[i] = row[i]
            /\ message[row[i].of].ver > 0
            /\ message[row[i].of].ver >= row[i].ver
        BY <1>1, <1>4, <3>1 DEF IntentInv, Known, Is
      <4>2. row[i].ver \in Nat /\ message[row[i].of].ver \in Nat
        BY <1>a, <4>1 DEF Row, PlannerOK, MessageState
      <4>3. rec.ver \in Nat /\ rec.ver >= message[m].ver /\ rec.ver > 0
        BY DEF Plans, MessageState
      <4> QED
        BY <1>2, <4>1, <4>2, <4>3
    <3>2. CASE ~There(i)
      BY <1>1, <1>2, <1>3, <2>1, <3>2 DEF Plans, There, Is
    <3> QED
      BY <3>1, <3>2
  <2>2. \A o \in Message : message'[o].copy # "none" => message'[o].ver > 0
    BY <1>2 DEF Plans, IntentInv, Known
  <2>3. reading' # NotRead => message'[reading'.of].ver > 0
    <3>1. SUFFICES ASSUME reading' = reading, reading # NotRead
                   PROVE  message'[reading.of].ver > 0
      OBVIOUS
    <3>2. reading.of \in Message /\ message[reading.of].ver > 0
      BY <1>a, <3>1 DEF PlannerOK, IntentInv, Known
    <3> QED
      BY <1>2, <3>2 DEF Plans
  <2> QED
    BY <2>1, <2>2, <2>3 DEF Known
<1>7. Buried'
  <2>1. SUFFICES ASSUME NEW i \in Id, There(i)', row'[i].kind = "revoke"
                 PROVE  message'[row'[i].of].tomb
    BY DEF Buried
  <2>2. CASE There(i)
    <3>1. /\ row'[i] = row[i] /\ row[i].of \in Message
          /\ message[row[i].of].tomb /\ message[row[i].of].ver > 0
      BY <1>1, <1>4, <2>1, <2>2 DEF IntentInv, Buried, Known, Is
    <3> QED
      BY <1>2, <3>1 DEF Plans
  <2>3. CASE ~There(i)
    BY <1>1, <1>2, <1>3, <2>1, <2>3 DEF There, Is
  <2> QED
    BY <2>2, <2>3
<1>8. Marked'
  <2>1. ASSUME NEW i \in Id, state'[i] = "sending" PROVE started[i]
    <3>1. i \in Unsent(m, kinds) \/ state[i] = "sending" \/ ~There(i)
      BY <1>b, <2>1 DEF Put, There
    <3>2. ~(i \in Unsent(m, kinds) /\ state[i] # "sending")
      BY <1>b, <2>1 DEF Put, Unsent
    <3>3. There(i)
      BY <1>1, <2>1 DEF Is
    <3> QED
      BY <3>1, <3>2, <3>3 DEF IntentInv, Marked
  <2> QED
    BY <2>1 DEF Marked
<1>9. ASSUME NEW i \in Id, There(i), state'[i] \in Queued
      PROVE  /\ row'[i] = row[i] /\ state[i] \in Queued
             /\ row[i].of = m => row[i].kind \notin kinds
  BY <1>1, <1>9 DEF Is
<1>10. ASSUME NEW i \in Id, ~There(i), state'[i] \in Queued
       PROVE  n > 0 /\ row'[i] = r
  BY <1>1, <1>10 DEF Is, Queued
<1>11. LatestIntentOnly'
  <2>1. ASSUME NEW i \in Id, state'[i] \in Queued
        PROVE  /\ row'[i].kind = "edit" => row'[i].ver = message'[row'[i].of].ver
               /\ message'[row'[i].of].tomb => row'[i].kind = "revoke"
    <3>1. CASE ~There(i)
      BY <1>2, <1>3, <1>10, <2>1, <3>1
    <3>2. CASE There(i) /\ row[i].of # m
      BY <1>2, <1>4, <1>9, <2>1, <3>2 DEF IntentInv, LatestIntentOnly, Queued
    <3>3. CASE There(i) /\ row[i].of = m
      <4>1. /\ row'[i] = row[i] /\ row[i].kind \in Kind \ kinds
            /\ row[i].kind = "edit" => row[i].ver = message[m].ver
            /\ message[m].tomb => row[i].kind = "revoke"
            /\ message[m].ver > 0
        BY <1>4, <1>9, <2>1, <3>3 DEF IntentInv, LatestIntentOnly, Known, Queued
      <4>2. row[i].kind = "edit" => rec.ver = message[m].ver
        BY <4>1 DEF Plans
      <4>3. rec.tomb => row[i].kind = "revoke"
        BY <4>1 DEF Plans, Kind
      <4> QED
        BY <1>2, <3>3, <4>1, <4>2, <4>3
    <3> QED
      BY <3>1, <3>2, <3>3
  <2>2. \A o \in Message : message'[o].tomb => message'[o].copy # "live"
    BY <1>2 DEF Plans, IntentInv, LatestIntentOnly
  <2> QED
    BY <2>1, <2>2 DEF LatestIntentOnly, Queued
<1>12. LastRevokeIsValid'
  <2>1. SUFFICES ASSUME NEW i \in Id, state'[i] \in Queued, row'[i].kind = "revoke",
                        \A j \in Id : j > i /\ row'[j].of = row'[i].of
                                        => row'[j].kind # "revoke"
                 PROVE  row'[i].ver = message'[row'[i].of].ver
    BY DEF LastRevokeIsValid, Queued
  <2>2. CASE ~There(i)
    BY <1>2, <1>3, <1>10, <2>1, <2>2
  <2>3. CASE There(i)
    <3>1. row'[i] = row[i] /\ state[i] \in Queued /\ row[i].of \in Message
      BY <1>4, <1>9, <2>1, <2>3
    <3>2. ASSUME NEW j \in Id, j > i, row[j].of = row[i].of PROVE row[j].kind # "revoke"
      <4>1. CASE There(j)
        BY <1>1, <2>1, <3>1, <3>2, <4>1 DEF Is
      <4>2. CASE ~There(j)
        BY <4>2 DEF IntentInv, Filled, NoRow
      <4> QED
        BY <4>1, <4>2
    <3>3. row[i].ver = message[row[i].of].ver
      BY <2>1, <3>1, <3>2 DEF IntentInv, LastRevokeIsValid, Queued
    <3>4. CASE row[i].of # m
      BY <1>2, <3>1, <3>3, <3>4
    <3>5. CASE row[i].of = m
      <4>1. message[m].tomb /\ message[m].ver > 0
        BY <2>1, <2>3, <3>1, <3>5 DEF IntentInv, Buried, Known
      <4>2. rec.tomb
        BY <4>1 DEF Plans
      <4>3. n = 0
        (* Otherwise a new revoke of m comes after row i.                  *)
        <5>1. SUFFICES ASSUME n > 0 PROVE FALSE
          OBVIOUS
        <5>2. PICK j \in Id : j > i /\ ~There(j) /\ state'[j] = "pending"
          <6>1. /\ lastId \in Nat /\ MaxRows \in Nat /\ lastId + n <= MaxRows
                /\ i <= lastId /\ i \in 1..MaxRows
            BY <1>a, <1>b, <2>3, BoundsAssumption DEF RowsOK, Put, Numbered, There, Id
          <6>2. /\ lastId + 1 \in Id /\ lastId + 1 > i
                /\ lastId + 1 \in (lastId + 1)..(lastId + n)
            BY <5>1, <6>1 DEF Id
          <6>3. state'[lastId + 1] = "pending" /\ ~There(lastId + 1)
            BY <1>b, <6>1, <6>2 DEF Put, Numbered, There
          <6> QED
            BY <6>2, <6>3
        <5>3. row'[j] = r
          BY <1>10, <5>2 DEF Queued
        <5> QED
          BY <1>3, <2>1, <3>1, <3>5, <4>2, <5>1, <5>2, <5>3
      <4>4. rec.ver = message[m].ver
        BY <4>1, <4>3 DEF Plans
      <4> QED
        BY <1>2, <3>1, <3>3, <3>5, <4>4
    <3> QED
      BY <3>4, <3>5
  <2> QED
    BY <2>2, <2>3
<1> QED
  BY <1>5, <1>6, <1>7, <1>8, <1>11, <1>12 DEF IntentInv
(* A step that plans nothing: rows keep their payload, none is queued that *)
(* was not, and messages keep their version and tombstone.                 *)
PlansNothing ==
    /\ UNCHANGED <<lastId, row>>
    /\ reading' \in {reading, NotRead} \/ message[reading'.of].copy = "live"
    /\ \A i \in Id : state'[i] \in Queued => state[i] \in Queued
    /\ \A m \in Message : /\ message'[m].ver = message[m].ver
                           /\ message'[m].tomb = message[m].tomb
                           /\ \/ message'[m].copy = message[m].copy
                              \/ /\ message[m].ver > 0
                                 /\ message[m].tomb => message'[m].copy # "live"

LEMMA NothingIntent ==
    ASSUME TypeOK, TypeOK', Numbered, Numbered', IntentInv, PlansNothing, Marked',
           reading' \in {reading, NotRead} \/ reading'.of \in Message
    PROVE  IntentInv'
<1>1. \A i \in Id : There(i)' <=> There(i)
  BY DEF PlansNothing, Numbered, There
<1>2. \A i \in Id : There(i) => row[i].of \in Message
  BY DEF IntentInv, Filled, Row
<1>3. reading # NotRead => reading.of \in Message
  BY DEF TypeOK, PlannerOK
<1>4. Filled'
  BY <1>1 DEF IntentInv, Filled, PlansNothing
<1>5. Known'
  <2>1. \A i \in Id : There(i)' => /\ message'[row'[i].of].ver > 0
                                   /\ message'[row'[i].of].ver >= row'[i].ver
    BY <1>1, <1>2 DEF IntentInv, Known, PlansNothing
  <2>2. \A m \in Message : message'[m].copy # "none" => message'[m].ver > 0
    BY DEF IntentInv, Known, PlansNothing
  <2>3. reading' # NotRead => message'[reading'.of].ver > 0
    BY <1>3 DEF IntentInv, Known, PlansNothing
  <2> QED
    BY <2>1, <2>2, <2>3 DEF Known
<1>6. Buried'
  BY <1>1, <1>2 DEF IntentInv, Buried, PlansNothing
<1>7. LatestIntentOnly'
  <2>1. \A i \in Id : state'[i] \in Queued =>
          /\ row'[i].kind = "edit" => row'[i].ver = message'[row'[i].of].ver
          /\ message'[row'[i].of].tomb => row'[i].kind = "revoke"
    <3>1. \A i \in Id : state[i] \in Queued => There(i)
      BY DEF Queued, There
    <3> QED
      BY <1>2, <3>1 DEF IntentInv, LatestIntentOnly, PlansNothing, Queued
  <2>2. \A m \in Message : message'[m].tomb => message'[m].copy # "live"
    BY DEF IntentInv, LatestIntentOnly, PlansNothing
  <2> QED
    BY <2>1, <2>2 DEF LatestIntentOnly, Queued
<1>8. LastRevokeIsValid'
  <2>1. \A i \in Id : state[i] \in Queued => There(i)
    BY DEF Queued, There
  <2> QED
    BY <1>2, <2>1 DEF IntentInv, LastRevokeIsValid, PlansNothing, Queued
<1> QED
  BY <1>4, <1>5, <1>6, <1>7, <1>8 DEF IntentInv

(* Every planner plans, or leaves the table and the messages alone.        *)
LEMMA PlanIntent ==
    ASSUME TypeOK, TypeOK', Numbered, Numbered', Begun, IntentInv, Plan
    PROVE  IntentInv'
<1>a. PlannerOK /\ MaxChunks \in Nat \ {0}
  BY BoundsAssumption DEF TypeOK
<1>b. \A m \in Message : message[m] \in MessageState
  BY <1>a DEF PlannerOK
<1>c. ASSUME UNCHANGED <<rows, message>>,
             reading' \in {reading, NotRead} \/ /\ reading'.of \in Message
                                                /\ message[reading'.of].copy = "live"
      PROVE  IntentInv'
  <2>1. PlansNothing /\ Marked'
    BY <1>c DEF PlansNothing, rows, IntentInv, Marked
  <2> QED
    BY <1>c, <2>1, NothingIntent
<1>d. ASSUME NEW m \in Message, NEW n \in Nat, NEW r, NEW kinds, NEW rec,
             Plans(m, n, r, kinds, rec), reading' \in {reading, NotRead}
      PROVE  IntentInv'
  <2>1. UNCHANGED started
    BY <1>d DEF Plans, Put
  <2> QED
    BY <1>d, <2>1, PlansIntent
<1>e. /\ {} = Unsent(NoRow, {})
      /\ \A m : Unsent(m, {}) = {}
  BY DEF Unsent
<1>f. \A m \in Message : /\ message[m].ver \in Nat /\ message[m].tomb \in BOOLEAN
                         /\ message[m].parts \in 1..MaxChunks
                         /\ message[m].origin \in Platform
                         /\ Other(message[m].origin) \in Platform
  BY <1>b DEF MessageState, Other, Platform
<1>1. ASSUME NEW m \in Message, PlanCreate(m) PROVE IntentInv'
  <2>1. PICK p \in Platform, n \in 1..MaxChunks, t \in BOOLEAN :
          /\ message' = [message EXCEPT ![m] =
                           [ver |-> 1, origin |-> p, tomb |-> FALSE,
                            copy |-> "none", parts |-> 1, timer |-> t]]
          /\ Put(1, [kind |-> "create", of |-> m, on |-> Other(p), mine |-> TRUE,
                     ver |-> 1, calls |-> n], {})
    BY <1>1 DEF PlanCreate
  <2> DEFINE r == [kind |-> "create", of |-> m, on |-> Other(p), mine |-> TRUE,
                   ver |-> 1, calls |-> n]
             rec == [ver |-> 1, origin |-> p, tomb |-> FALSE,
                     copy |-> "none", parts |-> 1, timer |-> t]
  <2>2. r \in Row /\ r.of = m /\ r.ver = 1 /\ r.kind = "create"
    BY DEF Row, Kind, Platform, Other
  <2>3. rec \in MessageState /\ rec.ver = 1 /\ rec.tomb = FALSE
    BY <1>a DEF MessageState
  <2>4. Put(1, r, Unsent(m, {})) /\ message' = [message EXCEPT ![m] = rec]
    BY <1>e, <2>1
  <2>5. message[m].ver = 0
    BY <1>1 DEF PlanCreate
  <2> HIDE DEF r, rec
  <2>6. Plans(m, 1, r, {}, rec)
    BY <2>2, <2>3, <2>4, <2>5 DEF Plans
  <2> QED
    BY <1>1, <1>d, <2>6 DEF PlanCreate
<1>2. ASSUME NEW m \in Message, PlanEdit(m) PROVE IntentInv'
  <2>1. CASE Suppressed(m) /\ UNCHANGED <<rows, message>>
    BY <1>2, <1>c, <2>1 DEF PlanEdit
  <2>2. CASE ~(Suppressed(m) /\ UNCHANGED <<rows, message>>)
    <3>1. PICK a \in Aim(m, "edit") :
            Put(1, [kind |-> "edit", of |-> m, on |-> a.on, mine |-> a.mine,
                    ver |-> message[m].ver + 1, calls |-> 1], Unsent(m, {"edit"}))
      BY <1>2, <2>2 DEF PlanEdit
    <3> DEFINE r == [kind |-> "edit", of |-> m, on |-> a.on, mine |-> a.mine,
                     ver |-> message[m].ver + 1, calls |-> 1]
               rec == [message[m] EXCEPT !.ver = message[m].ver + 1]
    <3>2. a.on \in Platform /\ a.mine \in BOOLEAN
      BY <1>a, AimType
    <3>3. r \in Row /\ r.of = m /\ r.ver = message[m].ver + 1 /\ r.kind = "edit"
      BY <1>a, <1>f, <3>2 DEF Row, Kind
    <3>4. ~message[m].tomb /\ message' = [message EXCEPT ![m].ver = @ + 1]
      BY <1>2, <2>2 DEF PlanEdit, Suppressed
    <3>5. /\ rec \in MessageState /\ rec.ver = message[m].ver + 1
          /\ rec.tomb = message[m].tomb
      BY <1>b, <1>f DEF MessageState
    <3>a. ~rec.tomb
      BY <3>4, <3>5
    <3>6. Put(1, r, Unsent(m, {"edit"})) /\ message' = [message EXCEPT ![m] = rec]
      BY <3>1, <3>4
    <3> HIDE DEF r, rec
    <3>7. Plans(m, 1, r, {"edit"}, rec)
      <4>1. rec.ver > 0 /\ rec.ver >= message[m].ver /\ r.ver <= rec.ver /\ r.ver = rec.ver
        BY <1>f, <3>3, <3>5
      <4> QED
        BY <3>3, <3>4, <3>5, <3>a, <3>6, <4>1 DEF Plans
    <3> QED
      BY <1>2, <1>d, <3>7 DEF PlanEdit
  <2> QED
    BY <2>1, <2>2
<1>3. ASSUME NEW m \in Message, PlanReaction(m) PROVE IntentInv'
  <2>1. CASE UNCHANGED rows
    BY <1>3, <1>c, <2>1 DEF PlanReaction
  <2>2. CASE ~UNCHANGED rows
    <3>1. PICK a \in Aim(m, "reaction") :
            Put(1, [kind |-> "reaction", of |-> m, on |-> a.on, mine |-> a.mine,
                    ver |-> message[m].ver, calls |-> 1], {})
      BY <1>3, <2>2 DEF PlanReaction
    <3> DEFINE r == [kind |-> "reaction", of |-> m, on |-> a.on, mine |-> a.mine,
                     ver |-> message[m].ver, calls |-> 1]
    <3>2. a.on \in Platform /\ a.mine \in BOOLEAN
      BY <1>a, AimType
    <3>3. r \in Row /\ r.of = m /\ r.ver = message[m].ver /\ r.kind = "reaction"
      BY <1>a, <1>f, <3>2 DEF Row, Kind
    <3>4. ~message[m].tomb /\ message[m].ver > 0
      BY <1>3, <2>2 DEF PlanReaction, Suppressed, IntentInv, Known, NotRead
    <3>5. Put(1, r, Unsent(m, {})) /\ message' = [message EXCEPT ![m] = message[m]]
      BY <1>3, <1>a, <1>e, <3>1 DEF PlanReaction, PlannerOK
    <3> HIDE DEF r
    <3>6. Plans(m, 1, r, {}, message[m])
      BY <1>b, <1>f, <3>3, <3>4, <3>5 DEF Plans
    <3> QED
      BY <1>3, <1>d, <3>6 DEF PlanReaction
  <2> QED
    BY <2>1, <2>2
<1>4. ASSUME NEW m \in Message, NEW v \in Nat, v >= message[m].ver
      PROVE  /\ Bury(message[m], v) \in MessageState
             /\ Bury(message[m], v).ver = v
             /\ Bury(message[m], v).tomb
             /\ Bury(message[m], v).copy # "live"
  BY <1>b, <1>4, BuryType DEF Bury
<1>5. ASSUME NEW m \in Message, PlanRevoke(m) PROVE IntentInv'
  <2>1. PICK a \in Aim(m, "revoke") :
          Put(1, [kind |-> "revoke", of |-> m, on |-> a.on, mine |-> a.mine,
                  ver |-> message[m].ver + 1, calls |-> message[m].parts],
              Unsent(m, {"create", "edit", "reaction"}))
    BY <1>5 DEF PlanRevoke
  <2> DEFINE r == [kind |-> "revoke", of |-> m, on |-> a.on, mine |-> a.mine,
                   ver |-> message[m].ver + 1, calls |-> message[m].parts]
             rec == Bury(message[m], message[m].ver + 1)
  <2>2. a.on \in Platform /\ a.mine \in BOOLEAN
    BY <1>a, AimType
  <2>3. r \in Row /\ r.of = m /\ r.ver = message[m].ver + 1 /\ r.kind = "revoke"
    BY <1>f, <2>2 DEF Row, Kind
  <2>4. /\ rec \in MessageState /\ rec.ver = message[m].ver + 1
        /\ rec.tomb /\ rec.copy # "live"
    BY <1>f, <1>4
  <2>5. /\ Put(1, r, Unsent(m, {"create", "edit", "reaction"}))
        /\ message' = [message EXCEPT ![m] = rec]
    BY <1>5, <2>1 DEF PlanRevoke
  <2> HIDE DEF r, rec
  <2>6. Plans(m, 1, r, {"create", "edit", "reaction"}, rec)
    BY <1>f, <2>3, <2>4, <2>5 DEF Plans
  <2> QED
    BY <1>5, <1>d, <2>6 DEF PlanRevoke
<1>6. ASSUME NEW m \in Message, TimerExpire(m) PROVE IntentInv'
  <2> DEFINE n == IF message[m].copy = "live" THEN message[m].parts ELSE 0
             r == [kind |-> "revoke", of |-> m, on |-> Other(message[m].origin),
                   mine |-> TRUE, ver |-> 1, calls |-> message[m].parts]
             rec == Bury(message[m], message[m].ver)
  <2>1. n \in Nat /\ message[m].ver = 1
    BY <1>6, <1>a, <1>f DEF TimerExpire
  <2>2. r \in Row /\ r.of = m /\ r.ver = 1 /\ r.kind = "revoke"
    BY <1>f DEF Row, Kind
  <2>3. rec \in MessageState /\ rec.ver = 1 /\ rec.tomb /\ rec.copy # "live"
    BY <1>4, <2>1
  <2>4. /\ Put(n, r, Unsent(m, {"create", "edit", "reaction"}))
        /\ message' = [message EXCEPT ![m] = rec]
    BY <1>6 DEF TimerExpire
  <2> HIDE DEF n, r, rec
  <2>5. Plans(m, n, r, {"create", "edit", "reaction"}, rec)
    BY <2>1, <2>2, <2>3, <2>4 DEF Plans
  <2> QED
    BY <1>6, <1>d, <2>1, <2>5 DEF TimerExpire
<1>7. ASSUME NEW m \in Message, AdminDelete(m) PROVE IntentInv'
  <2> DEFINE rec == Bury(message[m], message[m].ver)
  <2>1. message[m].ver > 0 /\ message[m].ver \in Nat
    BY <1>7, <1>f DEF AdminDelete
  <2>2. /\ rec \in MessageState /\ rec.ver = message[m].ver
        /\ rec.tomb /\ rec.copy # "live"
    BY <1>4, <2>1
  <2>3. /\ Put(0, NoRow, Unsent(m, {"create", "edit", "reaction"}))
        /\ message' = [message EXCEPT ![m] = rec]
    BY <1>7 DEF AdminDelete
  <2> HIDE DEF rec
  <2>4. Plans(m, 0, NoRow, {"create", "edit", "reaction"}, rec)
    BY <2>1, <2>2, <2>3 DEF Plans
  <2> QED
    BY <1>7, <1>d, <2>4 DEF AdminDelete
<1>8. ASSUME NEW m \in Message, ReadParts(m) PROVE IntentInv'
  <2>1. PICK k \in {"edit", "revoke", "reaction"} : reading' = [kind |-> k, of |-> m]
    BY <1>8 DEF ReadParts
  <2>2. reading'.of = m
    BY <2>1
  <2> QED
    BY <1>8, <1>c, <2>2 DEF ReadParts
<1>9. CASE GiveUpReading
  BY <1>9, <1>c DEF GiveUpReading
<1> QED
  BY <1>1, <1>2, <1>3, <1>5, <1>6, <1>7, <1>8, <1>9 DEF Plan

LEMMA MarkedKept ==
    ASSUME TypeOK, Marked, TableStep
    PROVE  Marked'
<1>1. ASSUME NEW i \in Id, state'[i] = "sending" PROVE started'[i]
  BY <1>1 DEF TableStep, Turn, Kept, Planned, Dropped, Claimed, Sent, Freed, Marked
<1> QED
  BY <1>1 DEF Marked

(* The delivery loop, the clock and the network plan nothing.              *)
LEMMA OthersPlanNothing ==
    ASSUME TypeOK, Numbered, IntentInv, TableStep, [Next]_vars, ~Plan
    PROVE  PlansNothing /\ reading' = reading
<1>a. RowsOK /\ PlannerOK /\ LoopOK
  BY DEF TypeOK
<1>1. UNCHANGED <<lastId, row, reading>>
  BY DEF Next, Step, Trouble, Clock, Network, ClaimDelivery, BeginSend, BeginSendFails,
         Issue, Refuse, Answered, CompleteDelivery, FailDelivery, NotConnected, Rejected,
         Lost, OutcomeNotRecorded, Crash, RecoverExpiredLeases, ExpireLease,
         BecomeReady, Land, Vanish, rows, vars
<1>2. ASSUME NEW i \in Id, state'[i] \in Queued PROVE state[i] \in Queued
  <2>1. Turn(i) /\ ~Planned(i)
    BY <1>1 DEF TableStep, Numbered, Planned
  <2> QED
    BY <1>2, <2>1 DEF Turn, Kept, Dropped, Claimed, Sent, Freed, Eligible, Queued,
                      BegunStates, IntentInv, Marked
<1>3. ASSUME NEW m \in Message
      PROVE  /\ message'[m].ver = message[m].ver
             /\ message'[m].tomb = message[m].tomb
             /\ \/ message'[m].copy = message[m].copy
                \/ message[m].ver > 0 /\ (message[m].tomb => message'[m].copy # "live")
  <2>1. CASE message' = message
    BY <2>1
  <2>2. CASE message' # message
    <3>1. PICK w \in Workers : CompleteDelivery(w)
      BY <2>2 DEF Next, Step, Trouble, Clock, Network, ClaimDelivery, BeginSend,
           BeginSendFails, Issue, Refuse, Answered, FailDelivery, NotConnected,
           Rejected, Lost, OutcomeNotRecorded, Crash, RecoverExpiredLeases,
           ExpireLease, BecomeReady, Land, Vanish, rows, vars
    <3> DEFINE i == job[w]
    <3>2. i \in Id /\ Holds(w, {"sending"}) /\ message' = Recorded(i)
      BY <1>a, <2>2, <3>1 DEF CompleteDelivery, LoopOK
    <3>3. row[i] \in Row /\ row[i].of \in Message /\ message[row[i].of].ver > 0
      BY <3>2 DEF Holds, There, IntentInv, Filled, Known, Row
    <3>4. message[m] \in MessageState /\ message[row[i].of] \in MessageState
      BY <1>a, <3>3 DEF PlannerOK
    <3> HIDE DEF i
    <3>5. CASE row[i].kind = "create"
      <4> DEFINE o == message[row[i].of]
                 new == [o EXCEPT !.copy = IF o.tomb THEN "deleted" ELSE "live",
                                  !.parts = row[i].calls]
      <4>1. message' = [message EXCEPT ![row[i].of] = new]
        BY <3>2, <3>5 DEF Recorded
      <4>2. /\ new.ver = o.ver /\ new.tomb = o.tomb
            /\ o.tomb => new.copy # "live"
        BY <3>4 DEF MessageState
      <4> HIDE DEF new
      <4> QED
        BY <1>a, <3>3, <4>1, <4>2 DEF PlannerOK
    <3>6. CASE row[i].kind = "revoke"
      <4>1. message' = [message EXCEPT ![row[i].of].copy = "deleted"]
        BY <3>2, <3>6 DEF Recorded
      <4> QED
        BY <1>a, <3>3, <3>4, <4>1 DEF PlannerOK, MessageState
    <3>7. CASE row[i].kind \notin {"create", "revoke"}
      BY <2>2, <3>2, <3>7 DEF Recorded
    <3> QED
      BY <3>5, <3>6, <3>7
  <2> QED
    BY <2>1, <2>2
<1> QED
  BY <1>1, <1>2, <1>3 DEF PlansNothing

LEMMA InitIntent == Init => IntentInv
<1> SUFFICES ASSUME Init PROVE IntentInv
  OBVIOUS
<1>1. Filled /\ Known /\ Buried /\ Marked
  BY DEF Init, Filled, Known, Buried, Marked, There, Unknown, NotRead
<1>2. LatestIntentOnly /\ LastRevokeIsValid
  BY DEF Init, LatestIntentOnly, LastRevokeIsValid, Unknown
<1> QED
  BY <1>1, <1>2 DEF IntentInv

LEMMA NextIntent == IInv /\ IInv' /\ IntentInv /\ [Next]_vars => IntentInv'
<1> SUFFICES ASSUME IInv, IInv', IntentInv, [Next]_vars PROVE IntentInv'
  OBVIOUS
<1>1. TableStep /\ TypeOK /\ TypeOK' /\ Numbered /\ Numbered' /\ Begun
  BY NextTable DEF IInv
<1>2. CASE Plan
  BY <1>1, <1>2, PlanIntent
<1>3. CASE ~Plan
  <2>1. Marked'
    BY <1>1, MarkedKept DEF IntentInv
  <2>2. PlansNothing /\ reading' = reading
    BY <1>1, <1>3, OthersPlanNothing
  <2> QED
    BY <1>1, <2>1, <2>2, NothingIntent
<1> QED
  BY <1>2, <1>3

-----------------------------------------------------------------------------
(* The theorems about what is still to be sent.                            *)

(* What every planner leaves behind, and nothing else undoes: the rows of  *)
(* a message are no newer than the message, a revoke comes with its        *)
(* tombstone, and what is queued is current (applySource, CompleteTimer,   *)
(* TombstoneMessage, CompleteDelivery).                                    *)
THEOREM IntentInvariance == Spec => []IntentInv
BY InitIntent, NextIntent, Invariance, PTL DEF Spec

(* No edit that has been overtaken by a newer one, and nothing but a       *)
(* revoke of a message that is gone, is left for a worker to claim; and a  *)
(* create that ends after its message was buried does not revive it        *)
(* (applySource, CompleteTimer, TombstoneMessage, CompleteDelivery).       *)
THEOREM OnlyLatestIntent == Spec => []LatestIntentOnly
<1>1. IntentInv => LatestIntentOnly
  BY DEF IntentInv
<1> QED
  BY <1>1, IntentInvariance, PTL

(* No event planned after a revoke, from whatever its handler had read     *)
(* before, makes BeginSend find the revoke stale (BeginSend, applySource). *)
THEOREM RevokeStaysValid == Spec => []LastRevokeIsValid
<1>1. IntentInv => LastRevokeIsValid
  BY DEF IntentInv
<1> QED
  BY <1>1, IntentInvariance, PTL

-----------------------------------------------------------------------------
(* Workers, rows and requests.                                             *)

LEMMA WorkerAlone ==
    ASSUME TypeOK, NEW w \in Workers, Step(w) \/ Trouble(w)
    PROVE  /\ \A v \in Workers \ {w} : /\ pc'[v] = pc[v] /\ job'[v] = job[v]
                                       /\ at'[v] = at[v] /\ verdict'[v] = verdict[v]
           /\ UNCHANGED <<lastId, row>>
           /\ applied \subseteq applied'
<1>a. LoopOK
  BY DEF TypeOK
<1>1. UNCHANGED <<lastId, row>> /\ applied \subseteq applied'
  BY DEF Step, Trouble, ClaimDelivery, BeginSend, BeginSendFails, Issue, Refuse,
         Answered, CompleteDelivery, FailDelivery, NotConnected, Rejected, Lost,
         OutcomeNotRecorded, Crash, rows, network
<1>2. ASSUME NEW class, CallFails(w, class), NEW v \in Workers, v # w
      PROVE  /\ pc'[v] = pc[v] /\ job'[v] = job[v]
             /\ at'[v] = at[v] /\ verdict'[v] = verdict[v]
  BY <1>a, <1>2 DEF LoopOK, CallFails, Decide
<1>3. ASSUME NEW v \in Workers, v # w
      PROVE  /\ pc'[v] = pc[v] /\ job'[v] = job[v]
             /\ at'[v] = at[v] /\ verdict'[v] = verdict[v]
  <2>1. CASE ClaimDelivery(w) \/ BeginSend(w) \/ Issue(w)
    BY <1>a, <1>3, <2>1 DEF LoopOK, ClaimDelivery, BeginSend, Issue
  <2>2. CASE Answered(w) \/ BeginSendFails(w) \/ NotConnected(w)
    BY <1>a, <1>3, <2>2 DEF LoopOK, Answered, BeginSendFails, NotConnected, Decide
  <2>3. CASE CompleteDelivery(w) \/ FailDelivery(w) \/ OutcomeNotRecorded(w) \/ Crash(w)
    BY <1>a, <1>3, <2>3 DEF LoopOK, CompleteDelivery, FailDelivery, OutcomeNotRecorded,
                            Crash, Rest
  <2>4. CASE Refuse(w) \/ Rejected(w) \/ Lost(w)
    <3>1. PICK class \in ErrorClass : CallFails(w, class)
      BY <2>4 DEF Refuse, Rejected, Lost, ErrorClass
    <3> QED
      BY <1>2, <1>3, <3>1
  <2> QED
    BY <2>1, <2>2, <2>3, <2>4 DEF Step, Trouble
<1> QED
  BY <1>1, <1>3

(* A row that is being sent stays so under the worker that holds it, until *)
(* that worker records the outcome.                                        *)
LEMMA WorkerHolds ==
    ASSUME TypeOK, NEW w \in Workers, Step(w) \/ Trouble(w),
           NEW i \in Id, state[i] = "sending"
    PROVE  \/ state'[i] = "sending" /\ owner'[i] = owner[i]
           \/ /\ owner[i] = w /\ pc[w] = "settle" /\ job[w] = i
              /\ state'[i] = verdict[w]
<1>a. RowsOK /\ LoopOK
  BY DEF TypeOK
<1>1. CASE ClaimDelivery(w)
  BY <1>a, <1>1 DEF RowsOK, ClaimDelivery, Eligible
<1>2. CASE BeginSend(w)
  BY <1>a, <1>2 DEF RowsOK, BeginSend, Holds
<1>3. CASE CompleteDelivery(w)
  BY <1>a, <1>3 DEF RowsOK, LoopOK, CompleteDelivery, Holds, Release
<1>4. CASE FailDelivery(w)
  BY <1>a, <1>4 DEF RowsOK, LoopOK, FailDelivery, Holds, Release
<1>5. CASE UNCHANGED <<state, owner>>
  BY <1>5
<1> QED
  BY <1>1, <1>2, <1>3, <1>4, <1>5
  DEF Step, Trouble, NotConnected, BeginSendFails, Issue, Refuse, Answered,
      Rejected, Lost, OutcomeNotRecorded, Crash, rows

(* Nobody else takes it away; the clock may put it aside.                  *)
LEMMA OthersHold ==
    ASSUME TypeOK, Numbered, Marked, Plan \/ Clock \/ Network \/ UNCHANGED vars,
           NEW i \in Id, state[i] = "sending"
    PROVE  \/ state'[i] = "sending" /\ owner'[i] = owner[i]
           \/ state'[i] = "uncertain"
<1>a. RowsOK /\ 0 \in Nat /\ 1 \in Nat
  BY DEF TypeOK
<1>b. started[i] /\ i <= lastId
  BY <1>a DEF Marked, Numbered, RowsOK, Id
<1>1. CASE UNCHANGED rows
  BY <1>1 DEF rows
<1>2. ASSUME NEW n, NEW r, NEW m, NEW kinds,
             Put(n, r, Unsent(m, kinds)) \/ Put(n, r, {})
      PROVE  state'[i] = "sending" /\ owner'[i] = owner[i]
  <2>1. i \notin (lastId + 1)..(lastId + n) /\ i \notin Unsent(m, kinds)
    BY <1>a, <1>b, BoundsAssumption DEF Unsent, RowsOK, Id
  <2> QED
    BY <1>2, <2>1 DEF Put
<1>3. CASE Plan
  <2>1. \/ UNCHANGED rows
        \/ \E n, r, m, kinds : Put(n, r, Unsent(m, kinds)) \/ Put(n, r, {})
    BY <1>3 DEF Plan, PlanCreate, ReadParts, PlanEdit, PlanReaction, PlanRevoke,
                TimerExpire, AdminDelete, GiveUpReading
  <2> QED
    BY <1>1, <1>2, <2>1
<1>4. CASE RecoverExpiredLeases
  BY <1>b, <1>4 DEF RecoverExpiredLeases, AfterLease
<1>5. CASE \E j \in Id : ExpireLease(j) \/ BecomeReady(j)
  BY <1>5 DEF ExpireLease, BecomeReady
<1>6. CASE Network \/ UNCHANGED vars
  BY <1>1, <1>6 DEF Network, Land, Vanish, vars
<1> QED
  BY <1>3, <1>4, <1>5, <1>6 DEF Clock

(* A worker that does not move still works on the same row.                *)
LEMMA StayAtRow ==
    ASSUME TypeOK, Numbered, TableStep, applied \subseteq applied',
           NEW v \in Workers, Work(v),
           pc'[v] = pc[v], job'[v] = job[v], at'[v] = at[v], verdict'[v] = verdict[v],
           state[job[v]] = "sending" /\ owner[job[v]] = v
             => \/ state'[job[v]] = "sending" /\ owner'[job[v]] = v
                \/ state'[job[v]] = "uncertain"
    PROVE  Work(v)'
<1>1. CASE pc[v] = "idle"
  BY <1>1 DEF Work, Chunks, Hold, Grounded, Sending
<1>2. CASE pc[v] # "idle"
  <2>1. job[v] \in Id /\ There(job[v]) /\ job[v] <= lastId
    BY <1>2 DEF TypeOK, RowsOK, LoopOK, Work, Numbered, There, Id
  <2>2. row'[job[v]] = row[job[v]] /\ Turn(job[v])
    BY <2>1 DEF TableStep
  <2>3. /\ state'[job[v]] # "none"
        /\ started[job[v]] => started'[job[v]]
        /\ state[job[v]] = "uncertain" => state'[job[v]] = "uncertain"
    BY <2>1, <2>2 DEF Turn, Kept, Planned, Dropped, Claimed, Sent, Freed, Eligible,
                      BegunStates, There
  <2>4. Chunks(v)'
    BY <2>2 DEF Work, Chunks
  <2>5. Hold(v)'
    BY <2>3 DEF Work, Hold, Sending
  <2>6. Grounded(v)'
    BY <2>3 DEF Work, Grounded
  <2> QED
    BY <2>3, <2>4, <2>5, <2>6 DEF Work, There
<1> QED
  BY <1>1, <1>2

(* A failed request of w ends its work with an outcome that is not a       *)
(* success, or, for an edit or a revoke only, goes on to the notice.       *)
LEMMA CallFailsWork ==
    ASSUME TypeOK, Calling, NEW w \in Workers, Sending(w), Work(w),
           NEW class \in ErrorClass, CallFails(w, class),
           UNCHANGED <<lastId, row, state, owner, started, applied>>
    PROVE  Work(w)'
<1>a. LoopOK
  BY DEF TypeOK
<1>b. started[job[w]] /\ pc[w] # "idle"
  BY DEF Calling, InRow, Sending
<1>1. CASE Decide(w, FinalVerdict(w, class))
  <2>1. pc'[w] = "settle" /\ job' = job /\ at' = at
        /\ verdict'[w] = FinalVerdict(w, class)
    BY <1>a, <1>1 DEF Decide, LoopOK
  <2>2. row[job[w]].kind = "create" => FinalVerdict(w, class) # "succeeded"
    BY DEF FinalVerdict, VerdictOn, ErrorClass
  <2>3. Chunks(w)'
    BY <1>b, <2>1, <2>2 DEF Chunks, Work
  <2> QED
    BY <1>b, <2>1, <2>3 DEF Work, Hold, Sending, Grounded, There
<1>2. CASE /\ FallsBack(w, class)
           /\ pc' = [pc EXCEPT ![w] = "call"]
           /\ at' = [at EXCEPT ![w] = Notice]
           /\ verdict' = [verdict EXCEPT ![w] = VerdictOn(class)]
           /\ UNCHANGED job
  <2>1. pc'[w] = "call" /\ job' = job /\ row[job[w]].kind # "create"
    BY <1>a, <1>2 DEF LoopOK, FallsBack
  <2> QED
    BY <1>b, <2>1 DEF Work, Chunks, Hold, Sending, Grounded, There
<1> QED
  BY <1>1, <1>2 DEF CallFails

LEMMA OwnWork ==
    ASSUME TypeOK, Calling, Filled, NEW w \in Workers, Work(w),
           Step(w) \/ Trouble(w)
    PROVE  Work(w)'
<1>a. RowsOK /\ LoopOK
  BY DEF TypeOK
<1>b. pc[w] # "idle" => job[w] \in Id
  BY <1>a DEF LoopOK
<1>1. CASE ClaimDelivery(w)
  <2>1. PICK i \in Id : /\ Eligible(i)
                        /\ state' = [state EXCEPT ![i] = "leased"]
                        /\ job' = [job EXCEPT ![w] = i]
    BY <1>1 DEF ClaimDelivery
  <2>2. pc'[w] = "claimed" /\ at'[w] = 0 /\ job'[w] = i /\ state'[i] = "leased"
        /\ row' = row
    BY <1>a, <1>1, <2>1 DEF ClaimDelivery, LoopOK, RowsOK
  <2>3. row[i] \in Row
    BY <2>1 DEF Filled, Eligible, There
  <2>4. 0 < row[i].calls /\ 0..(0 - 1) = {}
    BY <2>3, BoundsAssumption DEF Row
  <2>5. Chunks(w)'
    BY <2>2, <2>4 DEF Chunks
  <2> QED
    BY <2>2, <2>5 DEF Work, Hold, Sending, Grounded, There
<1>2. CASE BeginSend(w)
  <2>1. /\ pc[w] = "claimed" /\ pc'[w] = "call" /\ job' = job /\ at' = at /\ row' = row
        /\ verdict' = verdict /\ applied' = applied
        /\ state'[job[w]] = "sending" /\ owner'[job[w]] = w
    BY <1>a, <1>b, <1>2 DEF BeginSend, Holds, LoopOK, RowsOK, network
  <2> QED
    BY <2>1 DEF Work, Chunks, Hold, Sending, Grounded, There
<1>3. CASE BeginSendFails(w) \/ NotConnected(w)
  <2>1. /\ pc[w] = "claimed" /\ pc'[w] = "settle" /\ job' = job /\ at' = at
        /\ verdict'[w] \in {"dead", "pending"}
        /\ UNCHANGED <<rows, applied>>
    BY <1>a, <1>3 DEF BeginSendFails, NotConnected, Decide, LoopOK, network
  <2> QED
    BY <2>1 DEF Work, Chunks, Hold, Sending, Grounded, There, rows
<1>4. CASE Issue(w)
  <2>1. /\ pc[w] = "call" /\ pc'[w] = "wait" /\ UNCHANGED <<rows, job, at, verdict, applied>>
    BY <1>a, <1>4 DEF Issue, LoopOK
  <2> QED
    BY <2>1 DEF Work, Chunks, Hold, Sending, Grounded, There, rows
<1>5. CASE Refuse(w) \/ Rejected(w) \/ Lost(w)
  <2>1. Sending(w) /\ UNCHANGED <<lastId, row, state, owner, started, applied>>
    BY <1>5 DEF Refuse, Rejected, Lost, Sending, rows, network
  <2>2. PICK class \in ErrorClass : CallFails(w, class)
    BY <1>5 DEF Refuse, Rejected, Lost, ErrorClass
  <2> QED
    BY <2>1, <2>2, CallFailsWork
<1>6. CASE Answered(w)
  <2> DEFINE i == job[w]
             a == at[w]
  <2>1. /\ pc[w] = "wait" /\ i \in Id /\ a \in Call /\ row[i] \in Row
        /\ UNCHANGED rows /\ started[i]
        /\ applied' = applied \cup {<<i, a>>}
    BY <1>a, <1>b, <1>6 DEF Answered, LoopOK, Work, Filled, Calling, InRow, Sending
  <2>2. /\ a \in Nat /\ row[i].calls \in Nat /\ row[i].calls <= Notice
        /\ row[i].kind = "create" => /\ a < row[i].calls
                                     /\ \A k \in 0..(a - 1) : <<i, k>> \in applied
    BY <2>1, BoundsAssumption DEF Call, Row, Notice, Work, Chunks
  <2>3. row[i].kind = "create" => \A k \in 0..a : <<i, k>> \in applied'
    BY <2>1, <2>2
  <2>4. CASE /\ More(w)
             /\ pc' = [pc EXCEPT ![w] = "call"]
             /\ at' = [at EXCEPT ![w] = @ + 1]
             /\ UNCHANGED <<job, verdict>>
    <3>1. pc'[w] = "call" /\ at'[w] = a + 1 /\ job' = job /\ a + 1 < row[i].calls
      BY <1>a, <2>4 DEF LoopOK, More
    <3>2. row[i].kind = "create" => \A k \in 0..((a + 1) - 1) : <<i, k>> \in applied'
      BY <2>2, <2>3
    <3> HIDE DEF i, a
    <3>3. Chunks(w)'
      BY <2>1, <3>1, <3>2 DEF Chunks, rows, i
    <3> QED
      BY <2>1, <3>1, <3>3 DEF Work, Hold, Sending, Grounded, There, rows, i
  <2>5. CASE ~More(w) /\ Decide(w, "succeeded")
    <3>1. pc'[w] = "settle" /\ UNCHANGED <<job, at>>
      BY <1>a, <2>5 DEF LoopOK, Decide
    <3>2. row[i].kind = "create" => \A k \in 0..(row[i].calls - 1) : <<i, k>> \in applied'
      BY <2>2, <2>3, <2>5 DEF More
    <3> HIDE DEF i, a
    <3>3. Chunks(w)'
      BY <2>1, <2>2, <2>3, <3>1, <3>2 DEF Chunks, rows, i, a, Work
    <3> QED
      BY <2>1, <3>1, <3>3 DEF Work, Hold, Sending, Grounded, There, rows, i
  <2> QED
    BY <1>6, <2>4, <2>5 DEF Answered
<1>7. CASE CompleteDelivery(w) \/ FailDelivery(w) \/ OutcomeNotRecorded(w) \/ Crash(w)
  <2>1. pc'[w] = "idle"
    BY <1>a, <1>7 DEF CompleteDelivery, FailDelivery, OutcomeNotRecorded, Crash, Rest, LoopOK
  <2> QED
    BY <2>1 DEF Work, Chunks, Hold, Sending, Grounded
<1> QED
  BY <1>1, <1>2, <1>3, <1>4, <1>5, <1>6, <1>7 DEF Step, Trouble

LEMMA NextAtRow ==
    ASSUME IInv, IntentInv, AtRow, [Next]_vars
    PROVE  AtRow'
<1>a. /\ TypeOK /\ Numbered /\ Calling /\ Filled /\ Marked
      /\ TableStep
  BY NextTable DEF IInv, IntentInv
<1>1. ASSUME NEW w \in Workers, Step(w) \/ Trouble(w) PROVE AtRow'
  <2>1. Work(w)'
    BY <1>a, <1>1, OwnWork DEF AtRow
  <2>2. ASSUME NEW v \in Workers, v # w PROVE Work(v)'
    <3>1. pc'[v] = pc[v] /\ job'[v] = job[v] /\ at'[v] = at[v] /\ verdict'[v] = verdict[v]
          /\ applied \subseteq applied'
      BY <1>a, <1>1, <2>2, WorkerAlone
    <3>2. CASE state[job[v]] = "sending" /\ owner[job[v]] = v /\ job[v] \in Id
      <4>1. state'[job[v]] = "sending" /\ owner'[job[v]] = v
        BY <1>a, <1>1, <2>2, <3>2, WorkerHolds
      <4> QED
        BY <1>a, <3>1, <4>1, StayAtRow DEF AtRow
    <3>3. CASE ~(state[job[v]] = "sending" /\ owner[job[v]] = v) /\ job[v] \in Id
      BY <1>a, <3>1, <3>3, StayAtRow DEF AtRow
    <3>4. CASE job[v] \notin Id
      <4>1. pc'[v] = "idle"
        BY <1>a, <3>1, <3>4 DEF TypeOK, LoopOK
      <4> QED
        BY <4>1 DEF Work, Chunks, Hold, Sending, Grounded
    <3> QED
      BY <3>2, <3>3, <3>4
  <2> QED
    BY <2>1, <2>2 DEF AtRow
<1>2. CASE Plan \/ Clock \/ Network \/ UNCHANGED vars
  <2>1. UNCHANGED loop /\ applied \subseteq applied'
    BY <1>2 DEF Plan, PlanCreate, ReadParts, PlanEdit, PlanReaction, PlanRevoke,
                TimerExpire, AdminDelete, GiveUpReading, Clock, RecoverExpiredLeases,
                ExpireLease, BecomeReady, Network, Land, Vanish, vars, network
  <2>2. ASSUME NEW v \in Workers PROVE Work(v)'
    <3>1. pc'[v] = pc[v] /\ job'[v] = job[v] /\ at'[v] = at[v] /\ verdict'[v] = verdict[v]
      BY <2>1 DEF loop
    <3>2. CASE state[job[v]] = "sending" /\ owner[job[v]] = v /\ job[v] \in Id
      <4>1. \/ state'[job[v]] = "sending" /\ owner'[job[v]] = v
            \/ state'[job[v]] = "uncertain"
        BY <1>2, <1>a, <3>2, OthersHold
      <4> QED
        BY <1>a, <2>1, <3>1, <4>1, StayAtRow DEF AtRow
    <3>3. CASE ~(state[job[v]] = "sending" /\ owner[job[v]] = v) /\ job[v] \in Id
      BY <1>a, <2>1, <3>1, <3>3, StayAtRow DEF AtRow
    <3>4. CASE job[v] \notin Id
      <4>1. pc'[v] = "idle"
        BY <1>a, <3>1, <3>4 DEF TypeOK, LoopOK
      <4> QED
        BY <4>1 DEF Work, Chunks, Hold, Sending, Grounded
    <3> QED
      BY <3>2, <3>3, <3>4
  <2> QED
    BY <2>2 DEF AtRow
<1> QED
  BY <1>1, <1>2 DEF Next

(* A worker that awaits the answer to c goes on to await it, or is done    *)
(* with the row, as long as c is out.                                      *)
LEMMA KeepsAwaiting ==
    ASSUME TypeOK, NEW w \in Workers, Step(w) \/ Trouble(w),
           NEW c \in Id \X Call, c \in flight', job[w] = c[1], Awaits(w, c),
           row[c[1]].kind \in {"create", "reaction"}
    PROVE  pc'[w] = "idle" \/ Awaits(w, c)'
<1>a. LoopOK
  BY DEF TypeOK
<1>1. CASE pc[w] = "wait" /\ at[w] = c[2]
  <2>1. c = <<job[w], at[w]>>
    BY <1>1
  <2>2. CASE Answered(w) \/ Rejected(w)
    BY <2>1, <2>2 DEF Answered, Rejected
  <2>3. CASE Lost(w)
    <3>1. CallFails(w, "uncertain") /\ ~FallsBack(w, "uncertain")
          /\ FinalVerdict(w, "uncertain") = "uncertain"
      BY <2>3 DEF Lost, FallsBack, FinalVerdict, VerdictOn
    <3>2. pc'[w] = "settle" /\ verdict'[w] = "uncertain"
      BY <1>a, <3>1 DEF CallFails, Decide, LoopOK
    <3> QED
      BY <3>2 DEF Awaits
  <2>4. CASE Crash(w)
    BY <1>a, <2>4 DEF Crash, Rest, LoopOK
  <2> QED
    BY <1>1, <2>2, <2>3, <2>4
    DEF Step, Trouble, ClaimDelivery, BeginSend, BeginSendFails, Issue, Refuse,
        CompleteDelivery, FailDelivery, NotConnected, OutcomeNotRecorded
<1>2. CASE pc[w] = "settle" /\ verdict[w] = "uncertain"
  <2>1. CASE CompleteDelivery(w) \/ FailDelivery(w) \/ OutcomeNotRecorded(w) \/ Crash(w)
    BY <1>a, <2>1 DEF CompleteDelivery, FailDelivery, OutcomeNotRecorded, Crash, Rest, LoopOK
  <2> QED
    BY <1>2, <2>1
    DEF Step, Trouble, ClaimDelivery, BeginSend, BeginSendFails, Issue, Refuse,
        Answered, Rejected, Lost, NotConnected
<1> QED
  BY <1>1, <1>2 DEF Awaits

(* A request that was out before a step of w and is out after it.          *)
LEMMA OutStays ==
    ASSUME TypeOK, Numbered, TableStep, NEW w \in Workers, Step(w) \/ Trouble(w),
           NEW c \in Id \X Call, c \in flight', OutAt(c)
    PROVE  OutAt(c)'
<1> DEFINE i == c[1]
<1>a. RowsOK /\ LoopOK /\ i \in Id /\ row' = row
  BY WorkerAlone DEF TypeOK
<1>b. There(i)'
  BY <1>a DEF OutAt, There, TableStep, Turn, Kept, Planned, Dropped, Claimed, Sent, Freed,
              BegunStates
<1>1. SUFFICES ASSUME row[i].kind \in {"create", "reaction"}
               PROVE  /\ state'[i] \in {"sending", "uncertain"}
                      /\ \A v \in Workers :
                           /\ state'[i] = "sending" /\ owner'[i] = v
                           /\ pc'[v] # "idle" /\ job'[v] = i
                           => Awaits(v, c)'
  BY <1>a, <1>b DEF OutAt
<1>2. /\ state[i] \in {"sending", "uncertain"}
      /\ \A v \in Workers : /\ state[i] = "sending" /\ owner[i] = v
                            /\ pc[v] # "idle" /\ job[v] = i
                            => Awaits(v, c)
  BY <1>1 DEF OutAt
<1> HIDE DEF i
<1>3. CASE state[i] = "uncertain"
  <2>1. state'[i] = "uncertain"
    BY <1>a, <1>3 DEF TableStep, Turn, Kept, Planned, Dropped, Claimed, Sent, Freed, Eligible
  <2> QED
    BY <2>1
<1>4. CASE state[i] = "sending"
  <2>1. \/ state'[i] = "sending" /\ owner'[i] = owner[i]
        \/ /\ owner[i] = w /\ pc[w] = "settle" /\ job[w] = i
           /\ state'[i] = verdict[w]
    BY <1>a, <1>4, WorkerHolds
  <2>2. CASE /\ owner[i] = w /\ pc[w] = "settle" /\ job[w] = i
             /\ state'[i] = verdict[w]
    <3>1. verdict[w] = "uncertain"
      BY <1>2, <1>4, <2>2 DEF Awaits
    <3> QED
      BY <2>2, <3>1
  <2>3. CASE state'[i] = "sending" /\ owner'[i] = owner[i]
    <3>1. ASSUME NEW v \in Workers, owner'[i] = v, pc'[v] # "idle", job'[v] = i
          PROVE  Awaits(v, c)'
      <4>1. CASE v # w
        <5>1. pc'[v] = pc[v] /\ job'[v] = job[v] /\ at'[v] = at[v]
              /\ verdict'[v] = verdict[v]
          BY <4>1, WorkerAlone
        <5> QED
          BY <1>2, <1>4, <2>3, <3>1, <5>1 DEF Awaits
      <4>2. CASE v = w
        <5>1. pc[w] # "idle" /\ job[w] = i
          <6>1. ~ClaimDelivery(w)
            BY <1>a, <1>4, <3>1, <4>2 DEF ClaimDelivery, Eligible, LoopOK
          <6>2. CASE job'[w] = job[w] /\ pc[w] # "idle"
            BY <3>1, <4>2, <6>2
          <6>3. CASE pc'[w] = "idle"
            BY <3>1, <4>2, <6>3
          <6>4. \/ pc'[w] = "idle"
                \/ job'[w] = job[w] /\ pc[w] # "idle"
            <7>1. CASE BeginSend(w) \/ Issue(w)
              BY <7>1 DEF BeginSend, Issue
            <7>2. CASE BeginSendFails(w) \/ NotConnected(w)
              BY <7>2 DEF BeginSendFails, NotConnected, Decide
            <7>3. CASE Answered(w)
              BY <7>3 DEF Answered, Decide
            <7>4. CASE Refuse(w) \/ Rejected(w) \/ Lost(w)
              BY <7>4 DEF Refuse, Rejected, Lost, CallFails, Decide
            <7>5. CASE \/ CompleteDelivery(w) \/ FailDelivery(w)
                       \/ OutcomeNotRecorded(w) \/ Crash(w)
              BY <1>a, <7>5
              DEF CompleteDelivery, FailDelivery, OutcomeNotRecorded, Crash, Rest, LoopOK
            <7> QED
              BY <6>1, <7>1, <7>2, <7>3, <7>4, <7>5 DEF Step, Trouble
          <6> QED
            BY <6>2, <6>3, <6>4
        <5>2. Awaits(w, c)
          BY <1>2, <1>4, <2>3, <3>1, <4>2, <5>1
        <5>3. pc'[w] = "idle" \/ Awaits(w, c)'
          BY <1>1, <5>1, <5>2, KeepsAwaiting DEF i
        <5> QED
          BY <3>1, <4>2, <5>3
      <4> QED
        BY <4>1, <4>2
    <3> QED
      BY <2>3, <3>1
  <2> QED
    BY <2>1, <2>2, <2>3
<1> QED
  BY <1>2, <1>3, <1>4

LEMMA NextOut ==
    ASSUME IInv, IntentInv, AtRow, Out, [Next]_vars
    PROVE  Out'
<1>a. TypeOK /\ Numbered /\ Calling /\ Marked /\ TableStep
  BY NextTable DEF IInv, IntentInv
<1>b. flight \subseteq Id \X Call /\ LoopOK
  BY <1>a DEF TypeOK, NetworkOK
<1>1. ASSUME NEW w \in Workers, Step(w) \/ Trouble(w) PROVE Out'
  <2>1. ASSUME NEW c \in flight', c \in flight PROVE OutAt(c)'
    BY <1>a, <1>b, <1>1, <2>1, OutStays DEF Out
  <2>2. ASSUME NEW c \in flight', c \notin flight PROVE OutAt(c)'
    <3>1. Issue(w) /\ c = <<job[w], at[w]>>
      BY <1>1, <2>2
      DEF Step, Trouble, ClaimDelivery, BeginSend, BeginSendFails, Issue, Refuse,
          Answered, CompleteDelivery, FailDelivery, NotConnected, Rejected, Lost,
          OutcomeNotRecorded, Crash, network
    <3>2. /\ pc'[w] = "wait" /\ pc[w] = "call" /\ c[1] = job[w] /\ c[2] = at[w]
          /\ UNCHANGED <<state, owner, row, job, at, verdict>>
          /\ \A v \in Workers : v # w => pc'[v] = pc[v]
      BY <1>b, <3>1 DEF Issue, LoopOK, rows
    <3>3. /\ There(job[w])
          /\ \/ state[job[w]] = "uncertain"
             \/ state[job[w]] = "sending" /\ owner[job[w]] = w
      BY <3>2 DEF AtRow, Work, Hold, Sending
    <3> QED
      BY <3>2, <3>3 DEF OutAt, Awaits, There
  <2> QED
    BY <2>1, <2>2 DEF Out
<1>2. CASE Plan \/ Clock \/ Network \/ UNCHANGED vars
  <2>1. UNCHANGED loop /\ flight' \subseteq flight
    BY <1>2 DEF Plan, PlanCreate, ReadParts, PlanEdit, PlanReaction, PlanRevoke,
                TimerExpire, AdminDelete, GiveUpReading, Clock, RecoverExpiredLeases,
                ExpireLease, BecomeReady, Network, Land, Vanish, vars, network
  <2>2. ASSUME NEW c \in flight' PROVE OutAt(c)'
    <3>1. c \in flight /\ c[1] \in Id /\ OutAt(c)
      BY <1>b, <2>1, <2>2 DEF Out
    <3>2. row'[c[1]] = row[c[1]] /\ There(c[1])'
      <4>1. c[1] <= lastId /\ Turn(c[1])
        BY <1>a, <3>1 DEF OutAt, TableStep, Numbered, There, TypeOK, RowsOK, Id
      <4> QED
        BY <1>a, <3>1, <4>1 DEF OutAt, TableStep, There, Turn, Kept, Planned, Dropped,
                                Claimed, Sent, Freed, BegunStates
    <3>3. SUFFICES ASSUME row'[c[1]].kind \in {"create", "reaction"}
                   PROVE  /\ state'[c[1]] \in {"sending", "uncertain"}
                          /\ \A w \in Workers :
                               /\ state'[c[1]] = "sending" /\ owner'[c[1]] = w
                               /\ pc'[w] # "idle" /\ job'[w] = c[1]
                               => Awaits(w, c)'
      BY <3>2 DEF OutAt
    <3>5. /\ state[c[1]] \in {"sending", "uncertain"}
          /\ \A w \in Workers : /\ state[c[1]] = "sending" /\ owner[c[1]] = w
                                /\ pc[w] # "idle" /\ job[w] = c[1]
                                => Awaits(w, c)
      BY <3>1, <3>2, <3>3 DEF OutAt
    <3>6. CASE state[c[1]] = "uncertain"
      <4>1. state'[c[1]] = "uncertain"
        BY <1>a, <3>1, <3>6 DEF TableStep, Turn, Kept, Planned, Dropped, Claimed, Sent,
                                Freed, Eligible
      <4> QED
        BY <4>1
    <3>7. CASE state[c[1]] = "sending"
      <4>1. \/ state'[c[1]] = "sending" /\ owner'[c[1]] = owner[c[1]]
            \/ state'[c[1]] = "uncertain"
        BY <1>2, <1>a, <3>1, <3>7, OthersHold
      <4> QED
        BY <2>1, <3>5, <3>7, <4>1 DEF loop, Awaits
    <3> QED
      BY <3>5, <3>6, <3>7
  <2> QED
    BY <2>2 DEF Out
<1> QED
  BY <1>1, <1>2 DEF Next

(* The copy of a message, once known, is not forgotten.                    *)
LEMMA CopyStays ==
    ASSUME IInv, IntentInv, [Next]_vars, NEW m \in Message, message[m].copy # "none"
    PROVE  message'[m].copy # "none"
<1>a. TypeOK /\ PlannerOK /\ message[m].ver > 0 /\ message[m] \in MessageState
  BY DEF IInv, TypeOK, PlannerOK, IntentInv, Known
<1>1. ASSUME NEW o \in Message, NEW rec, message' = [message EXCEPT ![o] = rec],
             o # m \/ rec.copy # "none"
      PROVE  message'[m].copy # "none"
  BY <1>a, <1>1 DEF PlannerOK
<1>2. ASSUME NEW o \in Message, PlanCreate(o) PROVE message'[m].copy # "none"
  <2>1. o # m
    BY <1>a, <1>2 DEF PlanCreate, PlannerOK, MessageState
  <2> QED
    BY <1>1, <1>2, <2>1 DEF PlanCreate
<1>3. ASSUME NEW o \in Message, PlanEdit(o) PROVE message'[m].copy # "none"
  <2>1. CASE message' = message
    BY <2>1
  <2>2. CASE message' = [message EXCEPT ![o].ver = @ + 1]
    BY <1>a, <2>2 DEF PlannerOK, MessageState
  <2> QED
    BY <1>3, <2>1, <2>2 DEF PlanEdit
<1>4. ASSUME NEW o \in Message, NEW v, message' = [message EXCEPT ![o] = Bury(message[o], v)]
      PROVE  message'[m].copy # "none"
  <2>1. o # m \/ Bury(message[o], v).copy # "none"
    BY DEF Bury
  <2> QED
    BY <1>1, <1>4, <2>1
<1>5. CASE Plan
  BY <1>2, <1>3, <1>4, <1>5
  DEF Plan, ReadParts, PlanReaction, PlanRevoke, TimerExpire, AdminDelete, GiveUpReading
<1>6. ASSUME NEW w \in Workers, CompleteDelivery(w) PROVE message'[m].copy # "none"
  <2> DEFINE i == job[w]
  <2>1. i \in Id
    BY <1>a, <1>6 DEF CompleteDelivery, TypeOK, LoopOK
  <2>2. CASE message' = message
    BY <2>2
  <2>3. CASE Holds(w, {"sending"}) /\ message' = Recorded(i)
    <3>1. row[i] \in Row /\ row[i].of \in Message
      BY <2>1, <2>3 DEF Holds, IntentInv, Filled, There, Row
    <3> HIDE DEF i
    <3>2. message[row[i].of] \in MessageState
      BY <1>a, <3>1 DEF PlannerOK
    <3>3. CASE row[i].kind = "create"
      <4> DEFINE o == message[row[i].of]
                 new == [o EXCEPT !.copy = IF o.tomb THEN "deleted" ELSE "live",
                                  !.parts = row[i].calls]
      <4>1. message' = [message EXCEPT ![row[i].of] = new] /\ new.copy # "none"
        BY <2>3, <3>2, <3>3 DEF Recorded, MessageState
      <4> HIDE DEF new
      <4> QED
        BY <1>1, <3>1, <4>1
    <3>4. CASE row[i].kind = "revoke"
      BY <1>a, <2>3, <3>1, <3>2, <3>4 DEF Recorded, PlannerOK, MessageState
    <3>5. CASE row[i].kind \notin {"create", "revoke"}
      BY <2>3, <3>5 DEF Recorded
    <3> QED
      BY <3>3, <3>4, <3>5
  <2> QED
    BY <1>6, <2>2, <2>3 DEF CompleteDelivery
<1>7. CASE message' = message
  BY <1>7
<1> QED
  BY <1>5, <1>6, <1>7
  DEF Next, Step, Trouble, Clock, Network, ClaimDelivery, BeginSend, BeginSendFails,
      Issue, Refuse, Answered, FailDelivery, NotConnected, Rejected, Lost,
      OutcomeNotRecorded, Crash, RecoverExpiredLeases, ExpireLease, BecomeReady, Land,
      Vanish, rows, vars

(* A row becomes succeeded in no other way than by CompleteDelivery.       *)
LEMMA OnlyCompleted ==
    ASSUME TypeOK, Numbered, TableStep, [Next]_vars,
           NEW i \in Id, state[i] # "succeeded", state'[i] = "succeeded"
    PROVE  \E w \in Workers : /\ CompleteDelivery(w) /\ job[w] = i
                              /\ Holds(w, {"sending"}) /\ message' = Recorded(i)
<1>a. RowsOK /\ LoopOK
  BY DEF TypeOK
<1>1. state[i] \in {"leased", "sending"}
  BY DEF TableStep, Turn, Kept, Planned, Dropped, Claimed, Sent, Freed
<1>2. ASSUME NEW n, NEW r, NEW cancel, Put(n, r, cancel) PROVE FALSE
  BY <1>2 DEF Put
<1>3. ~Plan
  BY <1>2 DEF Plan, PlanCreate, ReadParts, PlanEdit, PlanReaction, PlanRevoke,
              TimerExpire, AdminDelete, GiveUpReading, rows
<1>4. ~(Clock \/ Network \/ UNCHANGED vars)
  BY DEF Clock, RecoverExpiredLeases, AfterLease, ExpireLease, BecomeReady, Network,
         Land, Vanish, vars, rows
<1>5. PICK w \in Workers : Step(w) \/ Trouble(w)
  BY <1>3, <1>4 DEF Next
<1>6. CASE CompleteDelivery(w)
  BY <1>a, <1>6 DEF CompleteDelivery, Release, RowsOK
<1>7. CASE ClaimDelivery(w) \/ BeginSend(w)
  BY <1>a, <1>7 DEF ClaimDelivery, BeginSend, RowsOK
<1>8. CASE FailDelivery(w)
  BY <1>a, <1>8 DEF FailDelivery, Release, RowsOK
<1> QED
  BY <1>5, <1>6, <1>7, <1>8
  DEF Step, Trouble, NotConnected, BeginSendFails, Issue, Refuse, Answered,
      Rejected, Lost, OutcomeNotRecorded, Crash, rows

LEMMA NextDelivered ==
    ASSUME IInv, IntentInv, AtRow, DeliveredInFull, [Next]_vars
    PROVE  DeliveredInFull'
<1>a. TypeOK /\ Numbered /\ TableStep
  BY NextTable DEF IInv
<1>b. applied \subseteq applied'
  <2>1. ASSUME NEW w \in Workers, Step(w) \/ Trouble(w) PROVE applied \subseteq applied'
    BY <1>a, <2>1, WorkerAlone
  <2> QED
    BY <2>1 DEF Next, Plan, PlanCreate, ReadParts, PlanEdit, PlanReaction, PlanRevoke,
                TimerExpire, AdminDelete, GiveUpReading, Clock, RecoverExpiredLeases,
                ExpireLease, BecomeReady, Network, Land, Vanish, vars, network
<1>1. SUFFICES ASSUME NEW i \in Id, state'[i] = "succeeded", row'[i].kind = "create"
               PROVE  /\ \A k \in 0..(row'[i].calls - 1) : <<i, k>> \in applied'
                      /\ message'[row'[i].of].copy # "none"
  BY DEF DeliveredInFull
<1>2. There(i)
  BY <1>a, <1>1 DEF TableStep, Turn, Kept, Planned, Dropped, Claimed, Sent, Freed, There
<1>3. row'[i] = row[i] /\ row[i] \in Row /\ row[i].of \in Message
  BY <1>a, <1>2 DEF TableStep, Numbered, There, IntentInv, Filled, Row, TypeOK, RowsOK, Id
<1>4. CASE state[i] = "succeeded"
  <2>1. /\ \A k \in 0..(row[i].calls - 1) : <<i, k>> \in applied
        /\ message[row[i].of].copy # "none"
    BY <1>1, <1>3, <1>4 DEF DeliveredInFull
  <2>2. message'[row[i].of].copy # "none"
    BY <1>3, <2>1, CopyStays
  <2> QED
    BY <1>b, <1>3, <2>1, <2>2
<1>5. CASE state[i] # "succeeded"
  <2>1. PICK w \in Workers : /\ CompleteDelivery(w) /\ job[w] = i
                             /\ Holds(w, {"sending"}) /\ message' = Recorded(i)
    BY <1>a, <1>1, <1>5, OnlyCompleted
  <2>2. \A k \in 0..(row[i].calls - 1) : <<i, k>> \in applied
    BY <1>1, <1>3, <2>1 DEF AtRow, Work, Chunks, CompleteDelivery
  <2>3. message'[row[i].of].copy # "none"
    <3> DEFINE o == message[row[i].of]
               new == [o EXCEPT !.copy = IF o.tomb THEN "deleted" ELSE "live",
                                !.parts = row[i].calls]
    <3>1. PlannerOK /\ o \in MessageState
      BY <1>a, <1>3 DEF TypeOK, PlannerOK
    <3>2. message' = [message EXCEPT ![row[i].of] = new] /\ new.copy # "none"
      BY <1>1, <1>3, <2>1, <3>1 DEF Recorded, MessageState
    <3> HIDE DEF new
    <3> QED
      BY <1>3, <3>1, <3>2 DEF PlannerOK
  <2> QED
    BY <1>b, <1>3, <2>2, <2>3
<1> QED
  BY <1>4, <1>5

LEMMA InitOutcome == Init => OutcomeInv
<1> SUFFICES ASSUME Init PROVE OutcomeInv
  OBVIOUS
<1>1. AtRow
  BY DEF Init, AtRow, Work, Chunks, Hold, Grounded, Sending
<1>2. Out /\ DeliveredInFull
  BY DEF Init, Out, DeliveredInFull
<1> QED
  BY <1>1, <1>2 DEF OutcomeInv

LEMMA NextOutcome == IInv /\ IntentInv /\ OutcomeInv /\ [Next]_vars => OutcomeInv'
BY NextAtRow, NextOut, NextDelivered DEF OutcomeInv

-----------------------------------------------------------------------------
(* The theorems about what became of a row.                                *)

(* Where every worker is in its row and in its chunks, whose the row is,   *)
(* and which answers are still awaited (StepDelivery, sendTelegram,        *)
(* sendWhatsApp).                                                          *)
THEOREM OutcomeInvariance == Spec => []OutcomeInv
BY InitOutcome, NextOutcome, Invariance, IntentInvariance, PTL DEF Spec

(* A create is reported as succeeded only when each of its chunks has been *)
(* carried out, whatever number of workers, crashes and lapsed leases, and *)
(* the store then knows its copy (sendTelegram, CompleteDelivery).         *)
THEOREM SuccessIsDelivery == Spec => []DeliveredInFull
<1>1. OutcomeInv => DeliveredInFull
  BY DEF OutcomeInv
<1> QED
  BY <1>1, OutcomeInvariance, PTL

(* As long as a chunk or a reaction may still arrive, no worker has        *)
(* reported its row done or failed (classifyError, FailDelivery).          *)
THEOREM NothingLostIsForgotten == Spec => []LostIsNotForgotten
<1>1. OutcomeInv => LostIsNotForgotten
  BY DEF OutcomeInv, Out, OutAt, LostIsNotForgotten
<1> QED
  BY <1>1, OutcomeInvariance, PTL

=============================================================================
