---------------------------- MODULE InboxProofs -----------------------------
(***************************************************************************)
(* Proofs about the inbox and its handlers, for every number of processes, *)
(* chats, messages, events, rows and faults.  That the handlers implement  *)
(* Topics carries over what TopicsProofs shows.                            *)
(***************************************************************************)
EXTENDS Inbox, TopicsProofs

(* The parts of the type invariant, variable by variable.                  *)
RowsOK ==
    /\ row \in Seq(Event) /\ Len(row) <= MaxRows
    /\ state \in [Id -> {"none", "pending", "leased", "done", "quarantined"}]
    /\ owner \in [Id -> Process \cup {Nobody}]
    /\ expired \in [Id -> BOOLEAN]
    /\ ready \in [Id -> BOOLEAN]
    /\ \A i \in Id : state[i] = "leased" <=> owner[i] # Nobody

MessagesOK == /\ message \in [Message -> MessageRecord]
              /\ sender \in [Message -> Process \cup {Nobody}]

WorkOK == /\ pc \in [Process -> PC]
          /\ job \in [Process -> 0..MaxRows]
          /\ fate \in [Id -> Fate]
          /\ plans \in [Id -> Nat]

OnAWalk(p) == pc[p] \in {"walk", "command", "aside"}

WalksOK == \A p \in Process : OnAWalk(p) <=> walk[p].at # "rest"

(* Ids are handed out in order, only a lease can run out, and only what is *)
(* done has been planned, once.                                            *)
RowsInOrder ==
    \A i \in Id : /\ state[i] = "none" <=> i > Len(row)
                  /\ expired[i] => state[i] = "leased"
                  /\ plans[i] = 0 \/ (plans[i] = 1 /\ state[i] = "done")

(* What an event names on Telegram stays there.                            *)
InATopic == \A i \in DOMAIN row : row[i].src = "telegram" => row[i].thread \in DOMAIN forum

(* A handler works on a row, and the topic it waits for is that of its     *)
(* message.                                                                *)
AtWork ==
    \A p \in Process :
        /\ pc[p] # "idle" => job[p] \in DOMAIN row
        /\ pc[p] = "walk" => /\ Job(p).src = "whatsapp"
                             /\ walk[p].op = "ensure"
                             /\ walk[p].for = Job(p).chat

(* A handler that has let an echo pass has not sent what it echoes.        *)
EchoPassed ==
    \A p \in Process : pc[p] \in {"aside", "plan"} /\ IsEcho(Job(p))
                         => sender[Job(p).of] # p

(* The inductive invariant, but for what is counted.                       *)
InboxShape ==
    /\ Shape
    /\ RowsOK /\ MessagesOK /\ WorkOK /\ WalksOK
    /\ RowsInOrder /\ InATopic /\ AtWork /\ EchoPassed

(* Who cannot bind any more the topic it has made, or is about to make,    *)
(* and who is already on its way back.                                     *)
Walkers(j) == {p \in Making(j) : pc[p] = "walk"}
Failing(j) == {p \in Process : For(p, j) /\ pc[p] = "walk" /\ walk[p].at = "failed"}
Robbed(j) == {p \in Walkers(j) : /\ walk[p].at \in {"read", "bind"}
                                 /\ BoundTo(walk[p].thread) # {}}
Doomed(j) == Robbed(j) \cup {p \in Unwritten(j) : pc[p] = "walk"}

(* The topics that chats have or operators name are there.                 *)
TopicsThere ==
    /\ \A j \in Chat : Active(j) => chat[j].thread \in DOMAIN forum
    /\ \A p \in Process : walk[p].op = "bind" => walk[p].thread \in DOMAIN forum

(* Nobody has in hand what another has.                                    *)
OneHandEach ==
    \A p, q \in Process, t \in DOMAIN forum :
        HasInHand(p, t) /\ HasInHand(q, t) => p = q

Hands == TopicsThere /\ OneHandEach

(* Nothing has become of what was not admitted.                            *)
FatesThere == \A i \in Id \ DOMAIN row : fate[i] = "none"

(* While a chat has no topic, every message that was passed over, or will  *)
(* be, has its fault, or its topic was taken.  Once it has one, so have    *)
(* all but those whose handlers were making another.                       *)
MessagesOf(j) ==
    LET lost  == Cardinality(PassedOver(j)) + Cardinality(Failing(j))
        cause == faults + Cardinality(TakenFrom(j))
    IN  /\ ~Active(j) => lost + Cardinality(Doomed(j)) <= cause
        /\ Active(j) => lost + Cardinality(Walkers(j))
                          <= cause + Cardinality(Process) - 1

MessageCount == \A j \in Chat : MessagesOf(j)

(* The inductive invariant.                                                *)
InboxInv == InboxShape /\ Hands /\ FatesThere /\ MessageCount

-----------------------------------------------------------------------------
(* What the pieces of the actions do.                                      *)

LEMMA EventFacts ==
    ASSUME NEW e \in Event
    PROVE  /\ e \in EventRecord
           /\ e.src = "whatsapp" => e.chat \in Chat
           /\ e.kind \in {"sync", "bind"} => e.src = "telegram" /\ e.chat \in Chat
           /\ IsNotice(e) => e.src = "whatsapp"
           /\ NamesAuthor(e) => e.author \in Chat
           /\ e.kind \in About => e.of \in Message
           /\ IsEcho(e) => e.of \in Message
<1>1. e \in EventRecord /\ e.src \in Side
  BY InboxAssumption DEF EventRecord
<1>2. e.src # "whatsapp" => e.src = "telegram"
  BY <1>1 DEF Side
<1>3. e.kind \in About => e.of \in Message
  BY <1>1, InboxAssumption DEF EventRecord
<1>4. e.author # Nobody => e.author \in Chat
  BY <1>1 DEF EventRecord
<1> QED
  BY <1>1, <1>2, <1>3, <1>4, InboxAssumption DEF IsNotice, NamesAuthor, IsEcho, About

LEMMA JobFacts ==
    ASSUME RowsOK, AtWork, NEW p \in Process, pc[p] # "idle"
    PROVE  /\ job[p] \in DOMAIN row /\ job[p] \in Id /\ job[p] <= Len(row)
           /\ Job(p) \in Event
BY InboxAssumption DEF RowsOK, AtWork, Job, Id

LEMMA GotoEffect ==
    ASSUME WorkOK, NEW p \in Process, NEW place \in PC, Goto(p, place)
    PROVE  /\ pc' \in [Process -> PC] /\ pc'[p] = place
           /\ \A q \in Process \ {p} : pc'[q] = pc[q]
           /\ UNCHANGED <<rowVars, message, sender, job, plans>>
BY DEF WorkOK, Goto

LEMMA EndsEffect ==
    ASSUME WorkOK, NEW p \in Process, NEW place \in PC, NEW f \in Fate,
           job[p] \in Id, EndsAs(p, place, f)
    PROVE  /\ Goto(p, place)
           /\ fate' \in [Id -> Fate] /\ fate'[job[p]] = f
           /\ \A i \in Id \ {job[p]} : fate'[i] = fate[i]
BY DEF WorkOK, EndsAs

LEMMA IdlesEffect ==
    ASSUME WorkOK, NEW p \in Process, Idles(p)
    PROVE  /\ pc' \in [Process -> PC] /\ pc'[p] = "idle"
           /\ job' \in [Process -> 0..MaxRows] /\ job'[p] = 0
           /\ \A q \in Process \ {p} : pc'[q] = pc[q] /\ job'[q] = job[q]
BY InboxAssumption DEF WorkOK, Idles, PC

-----------------------------------------------------------------------------
(* Every step of the inbox is a step of Topics, or none.                   *)

LEMMA ToPlanWalks ==
    ASSUME InboxShape, NEW p \in Process, pc[p] = "look", ToPlan(p)
    PROVE  \/ \E j \in Chat : EnsureTopic(p, j) \/ UpdateCard(p, j)
           \/ UNCHANGED <<topicVars, faults>>
<1>1. Job(p) \in Event
  BY JobFacts DEF InboxShape
<1> QED
  BY <1>1, EventFacts DEF ToPlan

LEMMA HandleWalks ==
    ASSUME InboxShape, NEW p \in Process, Handle(p)
    PROVE  [TopicsNext]_<<topicVars, faults>>
<1>0. /\ pc[p] # "idle" => Job(p) \in Event /\ job[p] \in DOMAIN row
      /\ \A e \in Event : /\ e.src = "whatsapp" => e.chat \in Chat
                          /\ e.kind \in {"sync", "bind"} =>
                               e.src = "telegram" /\ e.chat \in Chat
  BY JobFacts, EventFacts DEF InboxShape
<1>1. CASE RouteWhatsApp(p)
  BY <1>0, <1>1 DEF RouteWhatsApp, TopicsNext
<1>2. CASE Command(p)
  <2>1. Job(p).kind \in {"sync", "bind"} /\ pc[p] # "idle"
    BY <1>2 DEF Command
  <2>2. Job(p).thread \in DOMAIN forum /\ Job(p).chat \in Chat
    BY <1>0, <2>1 DEF InboxShape, InATopic, Job
  <2> QED
    BY <1>2, <2>2 DEF Command, TopicsNext
<1>3. CASE Reached(p) \/ BackFromAside(p) \/ Commanded(p)
  <2>1. Return(p)
    BY <1>3 DEF Reached, BackFromAside, Commanded, Return, Arrived
  <2> QED
    BY <2>1 DEF TopicsNext
<1>4. CASE Walks(p)
  BY <1>4 DEF Walks, TopicsNext
<1>5. CASE LookCreate(p) \/ LookMutation(p) \/ TooLate(p)
  <2>1. \/ pc[p] = "look" /\ ToPlan(p)
        \/ UNCHANGED <<topicVars, faults>>
    BY <1>5 DEF LookCreate, LookMutation, TooLate
  <2> QED
    BY <2>1, ToPlanWalks DEF TopicsNext, Sync
<1>6. CASE RouteTelegram(p) \/ PlanCreate(p) \/ PlanEcho(p) \/ PlanKnown(p) \/ PlanStale(p)
  BY <1>6 DEF RouteTelegram, PlanCreate, PlanEcho, PlanKnown, Planned, PlanStale
<1>7. CASE PlanRefused(p) \/ Finish(p) \/ DeferInbox(p)
  <2>1. UNCHANGED topicVars /\ (Fault \/ UNCHANGED faults)
    BY <1>7 DEF PlanRefused, Finish, DeferInbox
  <2> QED
    BY <2>1 DEF TopicsNext, FaultElsewhere
<1> QED
  BY <1>1, <1>2, <1>3, <1>4, <1>5, <1>6, <1>7 DEF Handle

LEMMA NextWalks ==
    ASSUME InboxShape, [Next]_vars
    PROVE  [TopicsNext]_<<topicVars, faults>>
<1>1. ASSUME NEW e \in Event, Accept(e) PROVE UNCHANGED <<topicVars, faults>>
  BY <1>1 DEF Accept
<1>2. ASSUME NEW p \in Process, NEW i \in Id, ClaimInbox(p, i)
      PROVE  UNCHANGED <<topicVars, faults>>
  BY <1>2 DEF ClaimInbox
<1>3. ASSUME NEW p \in Process, Crash(p) PROVE [TopicsNext]_<<topicVars, faults>>
  <2>1. Leave(p) /\ Fault /\ UNCHANGED <<chat, forum, card>>
    BY <1>3 DEF Crash, Leave
  <2>2. CASE Idle(p)
    <3>1. walk[p] = Resting /\ walk \in [Process -> Walk]
      BY <2>2 DEF InboxShape, Shape, TopicsTypeOK, TopicsOK, Walking, OnItsWay, Idle
    <3>2. walk' = walk
      BY <2>1, <3>1 DEF Leave
    <3> QED
      BY <2>1, <3>2 DEF TopicsNext, FaultElsewhere, topicVars
  <2>3. CASE ~Idle(p)
    BY <2>1, <2>3 DEF TopicsNext, Stop
  <2> QED
    BY <2>2, <2>3
<1>4. ASSUME NEW i \in Id, ExpireLease(i) \/ BecomeReady(i)
      PROVE  UNCHANGED topicVars /\ (Fault \/ UNCHANGED faults)
  BY <1>4 DEF ExpireLease, BecomeReady
<1>5. CASE RecoverExpiredLeases
  BY <1>5 DEF RecoverExpiredLeases
<1>6. ASSUME NEW m \in Message, BeginSend(m) \/ LoseCreate(m) \/ CompleteCreate(m)
      PROVE  UNCHANGED topicVars /\ (Fault \/ UNCHANGED faults)
  BY <1>6 DEF BeginSend, LoseCreate, CompleteCreate, Out
<1>7. UNCHANGED topicVars /\ Fault => TopicsNext
  BY DEF TopicsNext, FaultElsewhere
<1>8. CASE UNCHANGED vars
  BY <1>8 DEF vars
<1> QED
  BY <1>1, <1>2, <1>3, <1>4, <1>5, <1>6, <1>7, <1>8, HandleWalks DEF Next

-----------------------------------------------------------------------------
(* The rows.                                                               *)

RowsInv == RowsOK /\ RowsInOrder /\ plans \in [Id -> Nat]

LEMMA SameRows ==
    ASSUME RowsInv, UNCHANGED <<rowVars, plans>>
    PROVE  RowsInv'
BY DEF RowsInv, RowsOK, RowsInOrder, rowVars

LEMMA AcceptRows ==
    ASSUME RowsInv, NEW e \in Event, Accept(e)
    PROVE  RowsInv'
<1> DEFINE n == Len(row) + 1
           s == IF e.kind = "other" THEN "quarantined" ELSE "pending"
<1>1. /\ n \in Id /\ Len(row) \in Nat /\ MaxRows \in Nat
      /\ state' = [state EXCEPT ![n] = s] /\ ready' = [ready EXCEPT ![n] = TRUE]
      /\ s \in {"pending", "quarantined"}
  BY InboxAssumption DEF RowsInv, RowsOK, Accept, Id
<1>2. row' \in Seq(Event) /\ Len(row') = n /\ n <= MaxRows
  BY <1>1 DEF RowsInv, RowsOK, Accept, Id
<1>3. state[n] = "none" /\ owner[n] = Nobody /\ ~expired[n] /\ plans[n] = 0
  BY <1>1 DEF RowsInv, RowsOK, RowsInOrder
<1>4. UNCHANGED <<owner, expired, plans>>
  BY DEF Accept
<1> HIDE DEF n, s
<1>5. /\ state' \in [Id -> {"none", "pending", "leased", "done", "quarantined"}]
      /\ ready' \in [Id -> BOOLEAN]
      /\ state'[n] = s /\ \A i \in Id \ {n} : state'[i] = state[i]
  BY <1>1 DEF RowsInv, RowsOK
<1>6. RowsOK'
  BY <1>1, <1>2, <1>3, <1>4, <1>5 DEF RowsInv, RowsOK
<1>7. RowsInOrder'
  <2> SUFFICES ASSUME NEW i \in Id
               PROVE  /\ state'[i] = "none" <=> i > Len(row')
                      /\ expired'[i] => state'[i] = "leased"
                      /\ plans'[i] = 0 \/ (plans'[i] = 1 /\ state'[i] = "done")
    BY DEF RowsInOrder
  <2>1. CASE i = n
    BY <1>1, <1>2, <1>3, <1>4, <1>5, <2>1 DEF RowsInv, RowsOK
  <2>2. CASE i # n
    BY <1>1, <1>2, <1>4, <1>5, <2>2 DEF RowsInv, RowsInOrder, Id, n
  <2> QED
    BY <2>1, <2>2
<1> QED
  BY <1>4, <1>6, <1>7 DEF RowsInv

(* A row takes another state, which is not its first.                      *)
RowTakes(i, s, w, n) ==
    /\ state[i] # "none" /\ ~expired[i]
    /\ s = "leased" <=> w # Nobody
    /\ n = 0 \/ (n = 1 /\ s = "done")
    /\ state' = [state EXCEPT ![i] = s] /\ owner' = [owner EXCEPT ![i] = w]
    /\ plans' = [plans EXCEPT ![i] = n]
    /\ ready' \in [Id -> BOOLEAN] /\ UNCHANGED <<row, expired>>

LEMMA RowChanges ==
    ASSUME RowsInv, NEW i \in Id, NEW s \in {"pending", "leased", "done", "quarantined"},
           NEW w \in Process \cup {Nobody}, NEW n \in {0, 1}, RowTakes(i, s, w, n)
    PROVE  RowsInv'
<1>1. RowsOK' /\ plans' \in [Id -> Nat]
  BY DEF RowTakes, RowsInv, RowsOK
<1>2. RowsInOrder'
  <2> SUFFICES ASSUME NEW k \in Id
               PROVE  /\ state'[k] = "none" <=> k > Len(row')
                      /\ expired'[k] => state'[k] = "leased"
                      /\ plans'[k] = 0 \/ (plans'[k] = 1 /\ state'[k] = "done")
    BY DEF RowsInOrder
  <2>1. CASE k = i
    BY <2>1 DEF RowTakes, RowsInv, RowsOK, RowsInOrder
  <2>2. CASE k # i
    BY <2>2 DEF RowTakes, RowsInv, RowsOK, RowsInOrder
  <2> QED
    BY <2>1, <2>2
<1> QED
  BY <1>1, <1>2 DEF RowsInv

LEMMA ClaimRows ==
    ASSUME RowsInv, NEW p \in Process, NEW i \in Id, ClaimInbox(p, i)
    PROVE  RowsInv' /\ i \in DOMAIN row
<1>1. /\ state[i] = "pending" /\ ~expired[i] /\ plans[i] = 0
      /\ state' = [state EXCEPT ![i] = "leased"] /\ owner' = [owner EXCEPT ![i] = p]
      /\ UNCHANGED <<row, expired, ready, plans>>
  BY DEF ClaimInbox, Claimable, RowsInv, RowsInOrder
<1>2. p # Nobody /\ ready' \in [Id -> BOOLEAN] /\ plans' = [plans EXCEPT ![i] = 0]
  BY <1>1, InboxAssumption DEF RowsInv, RowsOK
<1>3. i \in DOMAIN row
  BY <1>1 DEF RowsInv, RowsOK, RowsInOrder, Id
<1>4. RowTakes(i, "leased", p, 0)
  BY <1>1, <1>2 DEF RowTakes
<1> QED
  BY <1>3, <1>4, RowChanges

(* The holder of a row has its lease.                                      *)
LEMMA HeldRow ==
    ASSUME RowsInv, NEW p \in Process, job[p] \in Id, Holds(p)
    PROVE  /\ state[job[p]] = "leased" /\ owner[job[p]] = p
           /\ ~expired[job[p]] /\ plans[job[p]] = 0
BY InboxAssumption DEF RowsInv, RowsOK, RowsInOrder, Holds

LEMMA SettleRows ==
    ASSUME RowsInv, NEW p \in Process, job[p] \in Id, Holds(p),
           NEW s \in {"done", "quarantined"}, Settle(p, s),
           \/ UNCHANGED plans
           \/ s = "done" /\ plans' = [plans EXCEPT ![job[p]] = @ + 1]
    PROVE  RowsInv'
<1>1. /\ state[job[p]] # "none" /\ ~expired[job[p]] /\ plans[job[p]] = 0
      /\ state' = [state EXCEPT ![job[p]] = s]
      /\ owner' = [owner EXCEPT ![job[p]] = Nobody]
      /\ UNCHANGED <<row, expired, ready>>
  BY HeldRow DEF Settle
<1>2. ready' \in [Id -> BOOLEAN]
  BY <1>1 DEF RowsInv, RowsOK
<1>3. PICK n \in {0, 1} : /\ plans' = [plans EXCEPT ![job[p]] = n]
                          /\ n = 0 \/ (n = 1 /\ s = "done")
  BY <1>1 DEF RowsInv
<1>4. RowTakes(job[p], s, Nobody, n)
  BY <1>1, <1>2, <1>3 DEF RowTakes
<1> QED
  BY <1>4, RowChanges

LEMMA DeferRows ==
    ASSUME RowsInv, NEW p \in Process, job[p] \in Id, DeferInbox(p)
    PROVE  RowsInv'
<1>1. CASE UNCHANGED rowVars
  BY <1>1, SameRows DEF DeferInbox
<1>2. CASE /\ Holds(p)
           /\ state' = [state EXCEPT ![job[p]] = "pending"]
           /\ owner' = [owner EXCEPT ![job[p]] = Nobody]
           /\ ready' = [ready EXCEPT ![job[p]] = FALSE]
           /\ UNCHANGED <<row, expired>>
  <2>1. state[job[p]] # "none" /\ ~expired[job[p]] /\ plans[job[p]] = 0
    BY <1>2, HeldRow
  <2>2. ready' \in [Id -> BOOLEAN] /\ plans' = [plans EXCEPT ![job[p]] = 0]
    BY <1>2, <2>1 DEF RowsInv, RowsOK, DeferInbox
  <2>3. RowTakes(job[p], "pending", Nobody, 0)
    BY <1>2, <2>1, <2>2 DEF RowTakes
  <2> QED
    BY <2>3, RowChanges
<1> QED
  BY <1>1, <1>2 DEF DeferInbox

LEMMA LeaseRows ==
    ASSUME RowsInv,
           \/ \E i \in Id : ExpireLease(i) \/ BecomeReady(i)
           \/ RecoverExpiredLeases
    PROVE  RowsInv'
<1>1. ASSUME NEW i \in Id, ExpireLease(i) PROVE RowsInv'
  BY <1>1 DEF ExpireLease, RowsInv, RowsOK, RowsInOrder
<1>2. ASSUME NEW i \in Id, BecomeReady(i) PROVE RowsInv'
  BY <1>2 DEF BecomeReady, RowsInv, RowsOK, RowsInOrder
<1>3. CASE RecoverExpiredLeases
  <2>1. RowsOK'
    BY <1>3 DEF RecoverExpiredLeases, RowsInv, RowsOK
  <2>2. RowsInOrder'
    BY <1>3 DEF RecoverExpiredLeases, RowsInv, RowsOK, RowsInOrder
  <2> QED
    BY <1>3, <2>1, <2>2 DEF RecoverExpiredLeases, RowsInv
<1> QED
  BY <1>1, <1>2, <1>3

LEMMA NextRows ==
    ASSUME InboxShape, [Next]_vars
    PROVE  RowsInv'
<1>0. RowsInv /\ \A p \in Process : pc[p] # "idle" => job[p] \in Id
  BY JobFacts DEF InboxShape, RowsInv, WorkOK
<1>1. ASSUME NEW p \in Process, Handle(p) PROVE RowsInv'
  <2>1. CASE \/ RouteWhatsApp(p) \/ RouteTelegram(p) \/ Command(p) \/ Reached(p)
             \/ BackFromAside(p) \/ Commanded(p) \/ Walks(p)
             \/ LookCreate(p) \/ LookMutation(p) \/ TooLate(p)
    <3>1. UNCHANGED <<rowVars, plans>>
      BY <2>1 DEF RouteWhatsApp, RouteTelegram, Command, Reached, BackFromAside,
                  Commanded, Walks, LookCreate, LookMutation, TooLate, ToPlan,
                  Goto, EndsAs, inboxVars, rowVars
    <3> QED
      BY <1>0, <3>1, SameRows
  <2>2. CASE PlanCreate(p) \/ PlanEcho(p) \/ PlanKnown(p)
    <3>1. /\ pc[p] = "plan" /\ Holds(p) /\ Settle(p, "done")
          /\ plans' = [plans EXCEPT ![job[p]] = @ + 1]
      BY <2>2 DEF PlanCreate, PlanEcho, PlanKnown, AtPlan, Planned
    <3> QED
      BY <1>0, <3>1, SettleRows
  <2>3. CASE PlanStale(p)
    <3>1. pc[p] = "plan" /\ Holds(p) /\ Settle(p, "done") /\ UNCHANGED plans
      BY <2>3 DEF PlanStale, AtPlan
    <3> QED
      BY <1>0, <3>1, SettleRows
  <2>4. CASE PlanRefused(p)
    BY <1>0, <2>4, SameRows DEF PlanRefused
  <2>5. CASE Finish(p)
    <3>1. /\ pc[p] = "finish" /\ UNCHANGED plans
          /\ \/ Holds(p) /\ (Settle(p, "done") \/ Settle(p, "quarantined"))
             \/ UNCHANGED rowVars
      BY <2>5 DEF Finish
    <3> QED
      BY <1>0, <3>1, SettleRows, SameRows
  <2>6. CASE DeferInbox(p)
    BY <1>0, <2>6, DeferRows DEF DeferInbox
  <2> QED
    BY <1>1, <2>1, <2>2, <2>3, <2>4, <2>5, <2>6 DEF Handle
<1>2. ASSUME NEW p \in Process, Crash(p) PROVE RowsInv'
  BY <1>0, <1>2, SameRows DEF Crash
<1>3. ASSUME NEW m \in Message, BeginSend(m) \/ LoseCreate(m) \/ CompleteCreate(m)
      PROVE  RowsInv'
  BY <1>0, <1>3, SameRows DEF BeginSend, LoseCreate, CompleteCreate, Out
<1>4. CASE UNCHANGED vars
  BY <1>0, <1>4, SameRows DEF vars, inboxVars, rowVars
<1> QED
  BY <1>0, <1>1, <1>2, <1>3, <1>4, AcceptRows, ClaimRows, LeaseRows DEF Next

-----------------------------------------------------------------------------
(* What a handler does with its walk.                                      *)

LEMMA WalkGoes ==
    ASSUME TopicsOK, NEW p \in Process, WalkStep(p)
    PROVE  /\ Others(p) /\ ~Idle(p) /\ walk'[p].at # "rest"
           /\ walk'[p].op = walk[p].op /\ walk'[p].for = walk[p].for
<1>1. CASE CreateTopic(p)
  BY <1>1, CreateEffect DEF CreateTopic, Idle
<1>2. CASE ReadGeneration(p)
  BY <1>2, ReadEffect DEF ReadGeneration, Idle
<1>3. CASE ~CreateTopic(p) /\ ~ReadGeneration(p)
  <2>1. \E place \in Place \ {"rest"} : ~Idle(p) /\ Go(p, place)
    BY <1>3 DEF WalkStep, DiscoverChat, CreateTopicFails, BindTopic, EditCard,
                PostPhoto, PostText, RecordCard, Idle, Place
  <2> QED
    BY <2>1, GoEffect
<1> QED
  BY <1>1, <1>2, <1>3

LEMMA Ensures ==
    ASSUME TopicsOK, NEW p \in Process, NEW j, EnsureTopic(p, j)
    PROVE  /\ Others(p) /\ UNCHANGED <<chat, forum, card, faults>>
           /\ walk'[p].op = "ensure" /\ walk'[p].for = j
           /\ walk'[p].at = IF Active(j) THEN "bound" ELSE "discover"
BY BeginEffect DEF EnsureTopic

LEMMA Binds ==
    ASSUME TopicsOK, NEW p \in Process, NEW j, NEW t, Bind(p, j, t)
    PROVE  /\ Others(p) /\ UNCHANGED <<chat, forum, card, faults>>
           /\ walk'[p].op = "bind" /\ walk'[p].at # "rest"
BY BeginEffect DEF Bind

LEMMA Updates ==
    ASSUME TopicsOK, NEW p \in Process, NEW j, UpdateCard(p, j)
    PROVE  /\ Others(p) /\ UNCHANGED <<chat, forum, card, faults>>
           /\ walk'[p].op = "card" /\ walk'[p].at # "rest"
BY BeginEffect DEF UpdateCard

LEMMA Syncs ==
    ASSUME TopicsOK, NEW p \in Process, NEW j, Sync(p, j)
    PROVE  /\ Others(p) /\ UNCHANGED <<chat, forum, card, faults>>
           /\ walk'[p].op \in {"ensure", "card"} /\ walk'[p].at # "rest"
BY Ensures, Updates DEF Sync

-----------------------------------------------------------------------------
(* The handlers.  A step of one takes it to another place, or it returns.  *)

Placed(p) ==
    /\ OnAWalk(p)' <=> walk'[p].at # "rest"
    /\ pc'[p] = "walk" => /\ Job(p).src = "whatsapp"
                          /\ walk'[p].op = "ensure"
                          /\ walk'[p].for = Job(p).chat
    /\ pc'[p] \in {"aside", "plan"} /\ IsEcho(Job(p)) => sender[Job(p).of] # p

MovesOn(p) ==
    /\ pc[p] # "idle" /\ Others(p)
    /\ \E place \in PC : Goto(p, place)
    /\ fate' \in [Id -> Fate]
    /\ Placed(p)

ComesBack(p) ==
    /\ Idles(p) /\ Others(p) /\ walk'[p].at = "rest" /\ UNCHANGED row
    /\ fate' \in [Id -> Fate] /\ plans' \in [Id -> Nat]
    /\ MessagesOK'
    /\ \A m \in Message, q \in Process \ {p} : sender'[m] = q => sender[m] = q

LEMMA Settled ==
    ASSUME WorkOK, NEW p \in Process, job[p] \in Id, NEW f \in Fate,
           fate' = [fate EXCEPT ![job[p]] = f]
    PROVE  fate' \in [Id -> Fate]
BY DEF WorkOK

LEMMA ToPlanMoves ==
    ASSUME InboxShape, NEW p \in Process, pc[p] = "look", ToPlan(p),
           IsEcho(Job(p)) => sender[Job(p).of] # p
    PROVE  MovesOn(p)
<1>1. TopicsOK /\ WorkOK /\ walk[p].at = "rest"
  BY DEF InboxShape, Shape, TopicsTypeOK, WalksOK, OnAWalk
<1>2. UNCHANGED fate /\ fate' \in [Id -> Fate] /\ "aside" \in PC /\ "plan" \in PC
  BY <1>1 DEF WorkOK, ToPlan, PC
<1>3. CASE Goto(p, "aside") /\ \E j : EnsureTopic(p, j) \/ UpdateCard(p, j)
  <2>1. Others(p) /\ walk'[p].at # "rest"
    BY <1>1, <1>3, Ensures, Updates
  <2> QED
    BY <1>1, <1>2, <1>3, <2>1, GotoEffect DEF MovesOn, Placed, OnAWalk
<1>4. CASE Goto(p, "plan") /\ UNCHANGED <<topicVars, faults>>
  <2>1. Others(p) /\ walk'[p].at = "rest"
    BY <1>1, <1>4 DEF topicVars, Others
  <2> QED
    BY <1>1, <1>2, <1>4, <2>1, GotoEffect DEF MovesOn, Placed, OnAWalk
<1> QED
  BY <1>3, <1>4 DEF ToPlan

(* A handler that goes on at once, or ends what it has to say of the row.  *)
LEMMA AtOnce ==
    ASSUME InboxShape, NEW p \in Process, pc[p] # "idle",
           NEW place \in {"look", "defer", "finish"}, NEW f \in Fate,
           \/ Goto(p, place) /\ UNCHANGED fate
           \/ EndsAs(p, place, f),
           \/ UNCHANGED <<topicVars, faults>> /\ ~OnAWalk(p)
           \/ Leave(p)
    PROVE  MovesOn(p)
<1>1. TopicsOK /\ WorkOK /\ place \in PC /\ job[p] \in Id
  BY JobFacts DEF InboxShape, Shape, TopicsTypeOK, PC
<1>2. Goto(p, place) /\ fate' \in [Id -> Fate]
  BY <1>1, Settled DEF EndsAs, WorkOK
<1>3. Others(p) /\ walk'[p].at = "rest"
  <2>1. CASE Leave(p)
    BY <1>1, <2>1, LeaveEffect DEF Resting
  <2>2. CASE UNCHANGED topicVars /\ ~OnAWalk(p)
    BY <2>2 DEF InboxShape, WalksOK, topicVars, Others
  <2> QED
    BY <2>1, <2>2
<1> QED
  BY <1>1, <1>2, <1>3, GotoEffect DEF MovesOn, Placed, OnAWalk

LEMMA AllMove ==
    ASSUME InboxShape, NEW p \in Process,
           \/ RouteWhatsApp(p) \/ RouteTelegram(p) \/ Command(p) \/ Reached(p)
           \/ BackFromAside(p) \/ Commanded(p) \/ Walks(p)
           \/ LookCreate(p) \/ LookMutation(p) \/ TooLate(p)
    PROVE  MovesOn(p)
<1>1. TopicsOK /\ WorkOK /\ (OnAWalk(p) <=> walk[p].at # "rest") /\ fate \in [Id -> Fate]
  BY DEF InboxShape, Shape, TopicsTypeOK, WalksOK, WorkOK
<1>2. /\ "walk" \in PC /\ "command" \in PC /\ "plan" \in PC
      /\ "unrouted" \in Fate /\ "handled" \in Fate /\ "unmapped" \in Fate /\ "echo" \in Fate
  BY DEF PC, Fate
<1>3. CASE RouteWhatsApp(p)
  <2>1. CASE Goto(p, "look") /\ UNCHANGED <<topicVars, faults, fate>>
    BY <1>2, <1>3, <2>1, AtOnce DEF RouteWhatsApp, OnAWalk
  <2>2. CASE Goto(p, "walk") /\ EnsureTopic(p, Job(p).chat) /\ UNCHANGED fate
    BY <1>1, <1>2, <1>3, <2>2, Ensures, GotoEffect DEF RouteWhatsApp, MovesOn, Placed, OnAWalk
  <2> QED
    BY <1>3, <2>1, <2>2 DEF RouteWhatsApp
<1>4. CASE RouteTelegram(p)
  BY <1>2, <1>4, AtOnce DEF RouteTelegram, OnAWalk
<1>5. CASE Command(p)
  <2>1. Others(p) /\ walk'[p].at # "rest"
    BY <1>1, <1>5, Syncs, Binds DEF Command
  <2> QED
    BY <1>1, <1>2, <1>5, <2>1, GotoEffect DEF Command, MovesOn, Placed, OnAWalk
<1>6. CASE Reached(p)
  BY <1>2, <1>6, AtOnce DEF Reached
<1>7. CASE Commanded(p)
  BY <1>2, <1>7, AtOnce DEF Commanded
<1>8. CASE BackFromAside(p)
  <2>1. Others(p) /\ walk'[p].at = "rest"
    BY <1>1, <1>8, LeaveEffect DEF BackFromAside, Resting
  <2>2. IsEcho(Job(p)) => sender[Job(p).of] # p
    BY <1>8 DEF InboxShape, EchoPassed, BackFromAside
  <2> QED
    BY <1>1, <1>2, <1>8, <2>1, <2>2, GotoEffect
       DEF BackFromAside, MovesOn, Placed, OnAWalk
<1>9. CASE Walks(p)
  <2>1. /\ UNCHANGED inboxVars /\ Others(p) /\ walk[p].at # "rest" /\ walk'[p].at # "rest"
        /\ walk'[p].op = walk[p].op /\ walk'[p].for = walk[p].for
    BY <1>1, <1>9, WalkGoes DEF Walks, Idle
  <2>2. pc[p] \in PC /\ pc[p] # "idle" /\ Goto(p, pc[p]) /\ UNCHANGED <<fate, pc>>
    BY <1>1, <2>1 DEF Goto, WorkOK, OnAWalk, inboxVars, rowVars
  <2>3. Placed(p)
    BY <1>1, <2>1, <2>2 DEF Placed, OnAWalk, InboxShape, AtWork, EchoPassed
  <2> QED
    BY <1>1, <2>1, <2>2, <2>3 DEF MovesOn
<1>10. CASE LookCreate(p)
  <2>1. CASE EndsAs(p, "finish", "echo") /\ UNCHANGED <<topicVars, faults>>
    BY <1>2, <1>10, <2>1, AtOnce DEF LookCreate, OnAWalk
  <2>2. CASE ToPlan(p) /\ ~(IsEcho(Job(p)) /\ IsBridgeDispatched(p, Job(p).of))
    BY <1>10, <2>2, ToPlanMoves DEF LookCreate, IsBridgeDispatched, IsKnownBridgeSend
  <2> QED
    BY <1>10, <2>1, <2>2 DEF LookCreate
<1>11. CASE LookMutation(p)
  <2>1. CASE ToPlan(p)
    <3>1. ~IsEcho(Job(p))
      BY <1>11 DEF LookMutation, IsEcho
    <3> QED
      BY <1>11, <2>1, <3>1, ToPlanMoves DEF LookMutation
  <2>2. CASE /\ \/ Goto(p, "defer") /\ UNCHANGED fate
                \/ EndsAs(p, "finish", "handled") \/ EndsAs(p, "finish", "unmapped")
             /\ UNCHANGED <<topicVars, faults>>
    BY <1>2, <1>11, <2>2, AtOnce DEF LookMutation, OnAWalk
  <2> QED
    BY <1>11, <2>1, <2>2 DEF LookMutation
<1>12. CASE TooLate(p)
  BY <1>2, <1>12, AtOnce DEF TooLate, OnAWalk
<1> QED
  BY <1>3, <1>4, <1>5, <1>6, <1>7, <1>8, <1>9, <1>10, <1>11, <1>12

-----------------------------------------------------------------------------
(* The messages.                                                           *)

LEMMA MessageTakes ==
    ASSUME MessagesOK, NEW m \in Message, NEW r \in MessageRecord,
           message' = [message EXCEPT ![m] = r]
    PROVE  message' \in [Message -> MessageRecord]
BY DEF MessagesOK

LEMMA MessageType ==
    ASSUME MessagesOK, NEW m \in Message
    PROVE  /\ message[m] \in MessageRecord
           /\ message[m].known \in BOOLEAN /\ message[m].tomb \in BOOLEAN
           /\ message[m].out \in {"none", "planned", "sending", "done", "lost"}
           /\ message[m].copy \in {"none", "live", "deleted", "taken"}
           /\ message[m].own \in MaybeVersion /\ message[m].other \in MaybeVersion
           /\ message[m].effective \in MaybeVersion
BY DEF MessagesOK, MessageRecord

LEMMA VersionTaken ==
    ASSUME NEW r \in MessageRecord, NEW e \in Event
    PROVE  /\ WithVersion(r, e) \in MessageRecord
           /\ Buried(WithVersion(r, e)) \in MessageRecord
<1>1. e.ver \in MaybeVersion
  <2>1. e \in EventRecord
    BY InboxAssumption
  <2> QED
    BY <2>1 DEF EventRecord, MaybeVersion
<1>2. WithVersion(r, e) \in MessageRecord
  BY <1>1 DEF WithVersion, MessageRecord
<1>3. \A w \in MessageRecord : Buried(w) \in MessageRecord
  BY DEF Buried, MessageRecord
<1> QED
  BY <1>2, <1>3

LEMMA KnownTaken ==
    ASSUME MessagesOK, NEW p \in Process, PlanKnown(p), Job(p) \in Event
    PROVE  message' \in [Message -> MessageRecord]
<1> DEFINE e == Job(p)
<1>1. CASE Judgement(e) = "pass"
  BY <1>1 DEF PlanKnown, MessagesOK
<1>2. CASE Judgement(e) # "pass" /\ e.of \in Message
  <2>1. message[e.of] \in MessageRecord
    BY <1>2, MessageType
  <2>2. CASE e.kind = "revoke"
    <3>1. message' = [message EXCEPT ![e.of] = Buried(WithVersion(message[e.of], e))]
      BY <1>2, <2>2 DEF PlanKnown
    <3> QED
      BY <1>2, <2>1, <3>1, VersionTaken, MessageTakes
  <2>3. CASE e.kind # "revoke"
    <3>1. message' = [message EXCEPT ![e.of] = WithVersion(message[e.of], e)]
      BY <1>2, <2>3 DEF PlanKnown
    <3> QED
      BY <1>2, <2>1, <3>1, VersionTaken, MessageTakes
  <2> QED
    BY <2>2, <2>3
<1>3. CASE e.of \notin Message
  BY <1>3 DEF PlanKnown, MessagesOK
<1> QED
  BY <1>1, <1>2, <1>3

LEMMA CreateTaken ==
    ASSUME MessagesOK, NEW p \in Process, PlanCreate(p), Job(p) \in Event
    PROVE  MessagesOK' /\ \A m \in Message, q \in Process \ {p} :
                            sender'[m] = q => sender[m] = q
<1> DEFINE e == Job(p)
           r == [message[e.of] EXCEPT !.known = TRUE, !.out = "planned",
                                      !.own = e.ver, !.other = e.ver, !.effective = e.ver]
<1>1. e.of \in Message /\ e.ver \in MaybeVersion
  <2>1. e \in EventRecord /\ e.of \in Message
    BY EventFacts DEF PlanCreate, About
  <2> QED
    BY <2>1 DEF EventRecord, MaybeVersion
<1>2. message[e.of] \in MessageRecord
  BY <1>1, MessageType
<1>3. r \in MessageRecord
  BY <1>1, <1>2 DEF MessageRecord
<1>4. message' = [message EXCEPT ![e.of] = r]
  BY DEF PlanCreate
<1>5. sender' = [sender EXCEPT ![e.of] = p] \/ UNCHANGED sender
  BY DEF PlanCreate
<1> HIDE DEF e, r
<1>6. message' \in [Message -> MessageRecord]
  BY <1>1, <1>3, <1>4, MessageTakes
<1> QED
  BY <1>1, <1>5, <1>6 DEF MessagesOK

LEMMA EchoTaken ==
    ASSUME MessagesOK, NEW p \in Process, PlanEcho(p), Job(p) \in Event
    PROVE  MessagesOK' /\ UNCHANGED sender
<1> DEFINE m == Job(p).of
           r == [message[m] EXCEPT !.copy = "taken"]
<1>1. m \in Message
  BY EventFacts DEF PlanEcho
<1>2. message[m] \in MessageRecord
  BY <1>1, MessageType
<1>3. r \in MessageRecord
  BY <1>2 DEF MessageRecord
<1>4. message' = [message EXCEPT ![m] = r] /\ UNCHANGED sender
  BY DEF PlanEcho
<1> HIDE DEF m, r
<1> QED
  BY <1>1, <1>3, <1>4, MessageTakes DEF MessagesOK

LEMMA OutTaken ==
    ASSUME MessagesOK, NEW m \in Message,
           BeginSend(m) \/ LoseCreate(m) \/ CompleteCreate(m)
    PROVE  /\ MessagesOK'
           /\ \A k \in Message : message'[k].effective = message[k].effective
<1> DEFINE old == message[m]
<1>1. old \in MessageRecord
  BY MessageType
<1>2. PICK r : /\ message' = [message EXCEPT ![m] = r]
               /\ \/ r = [old EXCEPT !.out = "sending"]
                  \/ r = [old EXCEPT !.out = "lost"]
                  \/ r = [old EXCEPT !.out = "done", !.copy = "deleted"]
                  \/ r = [old EXCEPT !.out = "done", !.copy = "live"]
  <2>1. CASE BeginSend(m) \/ LoseCreate(m)
    BY <2>1 DEF BeginSend, LoseCreate, Out
  <2>2. CASE CompleteCreate(m)
    BY <2>2 DEF CompleteCreate
  <2> QED
    BY <2>1, <2>2
<1>3. r \in MessageRecord /\ r.effective = old.effective
  BY <1>1, <1>2 DEF MessageRecord
<1>4. UNCHANGED sender
  BY DEF BeginSend, LoseCreate, CompleteCreate, Out
<1>5. \A k \in Message : message'[k].effective = message[k].effective
  BY <1>2, <1>3 DEF MessagesOK
<1> HIDE DEF old
<1> QED
  BY <1>2, <1>3, <1>4, <1>5, MessageTakes DEF MessagesOK

-----------------------------------------------------------------------------
(* The inductive step, but for what is counted.                            *)

LEMMA AllComeBack ==
    ASSUME InboxShape, NEW p \in Process,
           \/ PlanCreate(p) \/ PlanEcho(p) \/ PlanKnown(p) \/ PlanStale(p)
           \/ PlanRefused(p) \/ Finish(p) \/ DeferInbox(p) \/ Crash(p)
    PROVE  ComesBack(p)
<1>1. /\ TopicsOK /\ MessagesOK /\ WorkOK /\ fate \in [Id -> Fate] /\ plans \in [Id -> Nat]
      /\ pc[p] # "idle" => Job(p) \in Event /\ job[p] \in Id
      /\ ~OnAWalk(p) => walk[p].at = "rest"
  BY JobFacts DEF InboxShape, Shape, TopicsTypeOK, WorkOK, WalksOK
<1>2. UNCHANGED topicVars /\ ~OnAWalk(p) => Others(p) /\ walk'[p].at = "rest"
  BY <1>1 DEF topicVars, Others
<1>3. UNCHANGED <<message, sender>>
        => MessagesOK' /\ \A m \in Message, q \in Process \ {p} :
                            sender'[m] = q => sender[m] = q
  BY <1>1 DEF MessagesOK
<1>4. ASSUME pc[p] = "plan", Planned(p), MessagesOK',
             \A m \in Message, q \in Process \ {p} : sender'[m] = q => sender[m] = q
      PROVE  ComesBack(p)
  <2>1. fate' \in [Id -> Fate] /\ plans' \in [Id -> Nat]
    BY <1>1, <1>4 DEF Planned, Becomes, Fate
  <2>2. Idles(p) /\ UNCHANGED row /\ UNCHANGED topicVars /\ ~OnAWalk(p)
    BY <1>4 DEF Planned, Settle, OnAWalk
  <2> QED
    BY <1>2, <1>4, <2>1, <2>2 DEF ComesBack
<1>5. CASE PlanCreate(p)
  <2>1. pc[p] = "plan" /\ Planned(p)
    BY <1>5 DEF PlanCreate, AtPlan
  <2> QED
    BY <1>1, <1>4, <1>5, <2>1, CreateTaken
<1>6. CASE PlanEcho(p)
  <2>1. pc[p] = "plan" /\ Planned(p)
    BY <1>6 DEF PlanEcho, AtPlan
  <2> QED
    BY <1>1, <1>4, <1>6, <2>1, EchoTaken
<1>7. CASE PlanKnown(p)
  <2>1. pc[p] = "plan" /\ Planned(p) /\ UNCHANGED sender
    BY <1>7 DEF PlanKnown, AtPlan
  <2>2. MessagesOK'
    BY <1>1, <1>7, <2>1, KnownTaken DEF MessagesOK
  <2> QED
    BY <1>4, <2>1, <2>2
<1>8. CASE PlanStale(p)
  <2>1. pc[p] = "plan" /\ Settle(p, "done") /\ Becomes(p, "suppressed")
        /\ UNCHANGED <<topicVars, message, sender, plans>>
    BY <1>8 DEF PlanStale, AtPlan
  <2>2. fate' \in [Id -> Fate]
    BY <1>1, <2>1 DEF Becomes, Fate
  <2> QED
    BY <1>1, <1>2, <1>3, <2>1, <2>2 DEF ComesBack, Settle, OnAWalk
<1>9. CASE PlanRefused(p)
  BY <1>1, <1>2, <1>3, <1>9 DEF PlanRefused, ComesBack, OnAWalk, rowVars
<1>10. CASE Finish(p)
  <2>1. Idles(p) /\ UNCHANGED row
    BY <1>10 DEF Finish, Settle, rowVars
  <2> QED
    BY <1>1, <1>2, <1>3, <1>10, <2>1 DEF Finish, ComesBack, OnAWalk
<1>11. CASE DeferInbox(p)
  <2>1. Idles(p) /\ UNCHANGED row
    BY <1>11 DEF DeferInbox, rowVars
  <2> QED
    BY <1>1, <1>2, <1>3, <1>11, <2>1 DEF DeferInbox, ComesBack, OnAWalk
<1>12. CASE Crash(p)
  <2>1. Others(p) /\ walk'[p].at = "rest"
    <3>1. Leave(p)
      BY <1>12 DEF Crash, Leave
    <3> QED
      BY <1>1, <3>1, LeaveEffect DEF Resting
  <2>2. MessagesOK'
    BY <1>1, <1>12 DEF Crash, MessagesOK
  <2>3. \A m \in Message, q \in Process \ {p} : sender'[m] = q => sender[m] = q
    BY <1>1, <1>12, InboxAssumption DEF Crash
  <2> QED
    BY <1>1, <1>12, <2>1, <2>2, <2>3 DEF Crash, ComesBack, rowVars
<1> QED
  BY <1>5, <1>6, <1>7, <1>8, <1>9, <1>10, <1>11, <1>12

(* What is left to show of the shape.                                      *)
Rest == MessagesOK /\ WorkOK /\ WalksOK /\ InATopic /\ AtWork /\ EchoPassed

LEMMA MovesKeep ==
    ASSUME InboxShape, Onward, NEW p \in Process, MovesOn(p)
    PROVE  Rest'
<1>1. PICK place \in PC : Goto(p, place)
  BY DEF MovesOn
<1>2. /\ pc' \in [Process -> PC] /\ \A q \in Process \ {p} : pc'[q] = pc[q]
      /\ UNCHANGED <<row, message, sender, job, plans>>
  BY <1>1, GotoEffect DEF InboxShape, rowVars
<1>3. \A q \in Process \ {p} : walk'[q] = walk[q]
  BY DEF MovesOn, Others
<1>4. MessagesOK' /\ WorkOK'
  BY <1>2 DEF InboxShape, MessagesOK, WorkOK, MovesOn
<1>5. WalksOK' /\ AtWork' /\ EchoPassed'
  <2>1. pc[p] # "idle" /\ Placed(p)
    BY DEF MovesOn
  <2>2. /\ WalksOK' /\ EchoPassed'
    BY <1>2, <1>3, <2>1 DEF InboxShape, WalksOK, EchoPassed, Placed, OnAWalk, Job
  <2>3. AtWork'
    BY <1>2, <1>3, <2>1 DEF InboxShape, AtWork, Placed, Job
  <2> QED
    BY <2>2, <2>3
<1>6. InATopic'
  BY <1>2 DEF InboxShape, InATopic, Onward
<1> QED
  BY <1>4, <1>5, <1>6 DEF Rest

LEMMA ComingBackKeeps ==
    ASSUME InboxShape, Onward, NEW p \in Process, ComesBack(p)
    PROVE  Rest'
<1>1. /\ pc' \in [Process -> PC] /\ pc'[p] = "idle"
      /\ job' \in [Process -> 0..MaxRows]
      /\ \A q \in Process \ {p} : pc'[q] = pc[q] /\ job'[q] = job[q] /\ walk'[q] = walk[q]
      /\ walk'[p].at = "rest" /\ UNCHANGED row
  BY IdlesEffect DEF InboxShape, ComesBack, Others
<1>2. MessagesOK' /\ WorkOK'
  BY <1>1 DEF ComesBack, WorkOK
<1>3. WalksOK' /\ AtWork' /\ InATopic'
  <2>1. WalksOK' /\ InATopic'
    BY <1>1 DEF InboxShape, WalksOK, OnAWalk, InATopic, Onward
  <2>2. AtWork'
    BY <1>1 DEF InboxShape, AtWork, Job
  <2> QED
    BY <2>1, <2>2
<1>4. EchoPassed'
  <2> SUFFICES ASSUME NEW q \in Process, pc'[q] \in {"aside", "plan"}, IsEcho(Job(q))'
               PROVE  sender'[Job(q)'.of] # q
    BY DEF EchoPassed
  <2>1. q # p /\ pc[q] \in {"aside", "plan"} /\ Job(q)' = Job(q) /\ IsEcho(Job(q))
    BY <1>1 DEF Job, IsEcho
  <2>2. Job(q) \in Event
    BY <2>1, JobFacts DEF InboxShape
  <2>3. Job(q).of \in Message /\ sender[Job(q).of] # q
    BY <2>1, <2>2, EventFacts DEF InboxShape, EchoPassed
  <2> QED
    BY <2>1, <2>3 DEF ComesBack
<1> QED
  BY <1>2, <1>3, <1>4 DEF Rest

LEMMA AcceptKeeps ==
    ASSUME InboxShape, NEW e \in Event, Accept(e)
    PROVE  Rest'
<1>1. /\ UNCHANGED <<topicVars, message, sender, pc, job, fate, plans>>
      /\ row' = Append(row, e) /\ row \in Seq(Event)
      /\ e.src = "telegram" => e.thread \in DOMAIN forum
  BY DEF Accept, MayCome, InboxShape, RowsOK
<1>2. /\ DOMAIN row \subseteq DOMAIN row' /\ \A i \in DOMAIN row : row'[i] = row[i]
      /\ \A i \in DOMAIN row' \ DOMAIN row : row'[i] = e
  BY <1>1
<1>3. \A q \in Process : pc[q] # "idle" => Job(q)' = Job(q) /\ job[q] \in DOMAIN row
  BY <1>1, <1>2 DEF InboxShape, AtWork, Job
<1>4. MessagesOK' /\ WorkOK' /\ WalksOK' /\ InATopic'
  BY <1>1, <1>2 DEF InboxShape, MessagesOK, WorkOK, WalksOK, OnAWalk, InATopic, topicVars
<1>5. AtWork'
  BY <1>1, <1>2, <1>3 DEF InboxShape, AtWork, topicVars
<1>6. EchoPassed'
  BY <1>1, <1>3 DEF InboxShape, EchoPassed, IsEcho
<1> QED
  BY <1>4, <1>5, <1>6 DEF Rest

LEMMA ClaimKeeps ==
    ASSUME InboxShape, NEW p \in Process, NEW i \in Id, ClaimInbox(p, i)
    PROVE  Rest'
<1>1. /\ pc[p] = "idle" /\ pc' = [pc EXCEPT ![p] = "route"] /\ job' = [job EXCEPT ![p] = i]
      /\ UNCHANGED <<topicVars, row, message, sender, fate, plans>>
  BY DEF ClaimInbox
<1>2. i \in DOMAIN row
  BY ClaimRows DEF InboxShape, RowsInv, WorkOK
<1>3. MessagesOK' /\ WorkOK' /\ InATopic'
  BY <1>1, InboxAssumption DEF InboxShape, MessagesOK, WorkOK, InATopic, topicVars, PC, Id
<1>4. WalksOK'
  BY <1>1 DEF InboxShape, WorkOK, WalksOK, OnAWalk, topicVars
<1>5. AtWork'
  BY <1>1, <1>2 DEF InboxShape, WorkOK, AtWork, Job, topicVars
<1>6. EchoPassed'
  BY <1>1 DEF InboxShape, WorkOK, EchoPassed, Job, IsEcho
<1> QED
  BY <1>3, <1>4, <1>5, <1>6 DEF Rest

LEMMA StandingKeeps ==
    ASSUME InboxShape, MessagesOK',
           UNCHANGED <<topicVars, row, sender, pc, job, fate, plans>>
    PROVE  Rest'
BY DEF InboxShape, Rest, WorkOK, WalksOK, OnAWalk, InATopic, AtWork, EchoPassed,
       Job, IsEcho, topicVars

LEMMA NextOnward ==
    ASSUME InboxShape, [Next]_vars
    PROVE  Kept
<1>1. [TopicsNext]_<<topicVars, faults>> /\ Shape
  BY NextWalks DEF InboxShape
<1>2. UNCHANGED topicVars => Kept
  BY DEF Kept, Onward, Active, topicVars
<1> QED
  BY <1>1, <1>2, NextKept

LEMMA InboxShapeNext == InboxShape /\ [Next]_vars => InboxShape'
<1> SUFFICES ASSUME InboxShape, [Next]_vars PROVE InboxShape'
  OBVIOUS
<1>1. Shape' /\ RowsInv' /\ Onward
  BY NextWalks, NextShape, NextRows, NextOnward DEF InboxShape, Kept
<1>2. Rest'
  <2>1. ASSUME NEW p \in Process, Handle(p) \/ Crash(p) PROVE Rest'
    BY <1>1, <2>1, AllMove, AllComeBack, MovesKeep, ComingBackKeeps DEF Handle
  <2>2. ASSUME NEW m \in Message, BeginSend(m) \/ LoseCreate(m) \/ CompleteCreate(m)
        PROVE  Rest'
    <3>1. MessagesOK'
      BY <2>2, OutTaken DEF InboxShape
    <3>2. UNCHANGED <<topicVars, row, sender, pc, job, fate, plans>>
      BY <2>2 DEF BeginSend, LoseCreate, CompleteCreate, Out, rowVars
    <3> QED
      BY <3>1, <3>2, StandingKeeps
  <2>3. CASE \/ \E i \in Id : ExpireLease(i) \/ BecomeReady(i)
             \/ RecoverExpiredLeases
             \/ UNCHANGED vars
    <3>1. UNCHANGED <<topicVars, row, message, sender, pc, job, fate, plans>>
      BY <2>3 DEF ExpireLease, BecomeReady, RecoverExpiredLeases, vars, inboxVars
    <3> QED
      BY <3>1, StandingKeeps DEF InboxShape, MessagesOK
  <2> QED
    BY <2>1, <2>2, <2>3, AcceptKeeps, ClaimKeeps DEF Next
<1> QED
  BY <1>1, <1>2 DEF InboxShape, RowsInv, Rest


LEMMA InboxShapeInit == InboxInit => InboxShape
<1> SUFFICES ASSUME InboxInit PROVE InboxShape
  OBVIOUS
<1>1. Shape
  BY InitShape DEF InboxInit
<1>2. RowsOK
  BY InboxAssumption DEF InboxInit, RowsOK, Id
<1>3. MessagesOK
  BY DEF InboxInit, MessagesOK, MessageRecord, MaybeVersion, Unknown
<1>4. WorkOK
  BY InboxAssumption DEF InboxInit, WorkOK, PC, Fate
<1>5. WalksOK /\ AtWork /\ EchoPassed
  BY DEF InboxInit, TopicsInit, WalksOK, OnAWalk, AtWork, EchoPassed, Resting
<1>6. RowsInOrder /\ InATopic
  BY DEF InboxInit, RowsInOrder, InATopic, Id
<1> QED
  BY <1>1, <1>2, <1>3, <1>4, <1>5, <1>6 DEF InboxShape

LEMMA ShapeHolds == Spec => []InboxShape
BY InboxShapeInit, InboxShapeNext, PTL DEF Spec

-----------------------------------------------------------------------------
(* The type invariant: of the table bridge_inbox, of what is kept of the   *)
(* messages, and of the handlers, of which those on a walk are where       *)
(* Topics has one.                                                         *)
THEOREM InboxTypeCorrect == Spec => []InboxTypeOK
<1>1. InboxShape => InboxTypeOK
  BY DEF InboxShape, InboxTypeOK, Shape, TopicsTypeOK, RowsOK, MessagesOK, WorkOK,
         WalksOK, OnAWalk
<1> QED
  BY <1>1, ShapeHolds, PTL

(* What an event asks for is planned once, though its row be claimed again *)
(* and again: it can be planned only while it is leased, and after that it *)
(* is done (ClaimInbox, PlanEvent, RecoverExpiredLeases).                  *)
THEOREM InboxPlansOnce == Spec => []PlannedOnce
<1>1. InboxShape => PlannedOnce
  BY DEF InboxShape, RowsInOrder, PlannedOnce
<1> QED
  BY <1>1, ShapeHolds, PTL

(* The handlers of the inbox use chats, topics and cards as Topics says:   *)
(* every step of theirs is one of Topics, or changes nothing there         *)
(* (StepInbox, EnsureTopic, handleBind, handleSync, UpdateMetaCard).       *)
THEOREM InboxWalksAsTopics == Spec => WalksAsTopics
<1>1. InboxInit => TopicsInit
  BY DEF InboxInit
<1> QED
  BY <1>1, ShapeHolds, NextWalks, PTL DEF Spec, WalksAsTopics, TopicsSpec

(* So in the whole program a chat that has a topic keeps it, and no two    *)
(* chats share one (BindTopic).                                            *)
THEOREM InboxTopicsStayPut == Spec => ActiveStaysPut
BY InboxWalksAsTopics, TopicsStayPut DEF WalksAsTopics

(* And what stands empty, and the cards that are shown, have their cause   *)
(* there, too (EnsureTopic, UpdateMetaCard).                               *)
THEOREM InboxTopicsBound == Spec => [](TopicsAreAccountedFor /\ CardsAreAccountedFor)
<1>1. Spec => []TopicsAreAccountedFor /\ []CardsAreAccountedFor
  BY InboxWalksAsTopics, TopicsBound, CardsBound DEF WalksAsTopics
<1> QED
  BY <1>1, PTL

-----------------------------------------------------------------------------
(* Echoes and versions.                                                    *)

LEMMA OnlyPlanningPlans ==
    ASSUME InboxShape, Next, UNCHANGED plans => FALSE
    PROVE  \E p \in Process : /\ AtPlan(p) /\ job[p] \in Id
                              /\ plans' = [plans EXCEPT ![job[p]] = @ + 1]
<1>1. PICK p \in Process : Handle(p)
  BY DEF Next, Accept, ClaimInbox, Crash, ExpireLease, BecomeReady,
         RecoverExpiredLeases, BeginSend, LoseCreate, CompleteCreate, Out
<1>2. PlanCreate(p) \/ PlanEcho(p) \/ PlanKnown(p)
  BY <1>1 DEF Handle, RouteWhatsApp, RouteTelegram, Command, Reached, BackFromAside,
              Commanded, Walks, LookCreate, LookMutation, TooLate, ToPlan, Goto, EndsAs,
              inboxVars, PlanStale, PlanRefused, Finish, DeferInbox
<1>3. AtPlan(p) /\ plans' = [plans EXCEPT ![job[p]] = @ + 1]
  BY <1>2 DEF PlanCreate, PlanEcho, PlanKnown, Planned
<1> QED
  BY <1>3, JobFacts DEF InboxShape, AtPlan

(* A process takes no message of its own, come back to it, for a new one,  *)
(* be its delivery complete or not (recordBridgeSend, isBridgeDispatched). *)
THEOREM InboxStopsEchoes == Spec => EchoStopsHere
<1>1. ASSUME InboxShape, [Next]_vars, NEW i \in DOMAIN row, IsEcho(row[i]), plans'[i] > plans[i]
      PROVE  sender[row[i].of] # owner[i]
  <2>1. i \in Id /\ plans \in [Id -> Nat]
    BY <1>1, InboxAssumption DEF InboxShape, RowsOK, WorkOK, Id
  <2>2. Next /\ plans' # plans
    BY <1>1, <2>1 DEF vars, inboxVars
  <2>3. PICK p \in Process : /\ AtPlan(p) /\ job[p] \in Id
                             /\ plans' = [plans EXCEPT ![job[p]] = @ + 1]
    BY <1>1, <2>2, OnlyPlanningPlans
  <2>4. i = job[p]
    BY <1>1, <2>1, <2>3
  <2> QED
    BY <1>1, <2>3, <2>4 DEF AtPlan, Holds, InboxShape, EchoPassed, Job
<1> DEFINE Stops == \A i \in DOMAIN row : IsEcho(row[i]) /\ plans'[i] > plans[i]
                                            => sender[row[i].of] # owner[i]
<1>2. InboxShape /\ [Next]_vars => Stops
  BY <1>1
<1>3. InboxShape /\ [Next]_vars => [Stops]_vars
  BY <1>2
<1> HIDE DEF Stops
<1>4. Spec => [][Stops]_vars
  BY <1>3, ShapeHolds, PTL DEF Spec
<1> QED
  BY <1>4 DEF EchoStopsHere, Stops

(* What applySource lets pass is later than what was there.                *)
LEMMA AppliedIsLater ==
    ASSUME NEW v \in Version, NEW old \in MaybeVersion, NEW part,
           JudgeBoth(v, part, old) \in {"apply", "pass"}, v.order > 0, old.order > 0
    PROVE  v.order > old.order
<1>1. v.order \in Nat /\ old.order \in Nat
  BY DEF Version, MaybeVersion, NoVersion
<1>2. Judge(v, old) = "apply"
  BY DEF JudgeBoth, Judge, Compare
<1> QED
  BY <1>1, <1>2 DEF Judge, Compare

Advances(m) ==
    LET old == message[m].effective
        new == message'[m].effective
    IN  message[m].known /\ ~message'[m].tomb
        /\ new # old /\ new.order > 0 /\ old.order > 0
          => new.order > old.order

LEMMA KnownAdvances ==
    ASSUME InboxShape, NEW p \in Process, PlanKnown(p), NEW m \in Message
    PROVE  Advances(m)
<1> DEFINE e == Job(p)
           old == message[m]
           new == message'[m]
<1>1. e \in Event /\ e \in EventRecord /\ MessagesOK /\ old \in MessageRecord
  BY JobFacts, EventFacts, MessageType DEF InboxShape, PlanKnown, AtPlan
<1>2. CASE Judgement(e) = "pass" \/ e.of # m
  <2>1. new = old
    BY <1>1, <1>2 DEF PlanKnown, MessagesOK
  <2> QED
    BY <2>1 DEF Advances
<1>3. CASE Judgement(e) # "pass" /\ e.of = m
  <2>1. message' = [message EXCEPT ![m] =
                      IF e.kind = "revoke" THEN Buried(WithVersion(@, e)) ELSE WithVersion(@, e)]
    BY <1>3 DEF PlanKnown
  <2>2. new = IF e.kind = "revoke" THEN Buried(WithVersion(old, e)) ELSE WithVersion(old, e)
    BY <1>1, <2>1 DEF MessagesOK
  <2> HIDE DEF old, new
  <2>3. WithVersion(old, e) \in MessageRecord
    BY <1>1, VersionTaken
  <2>4. CASE e.kind = "revoke"
    <3>1. new.tomb
      BY <2>2, <2>3, <2>4 DEF Buried, MessageRecord
    <3> QED
      BY <3>1 DEF Advances, new
  <2>5. CASE e.kind # "revoke"
    <3>1. new.effective = e.ver
      BY <1>1, <2>2, <2>5 DEF WithVersion, MessageRecord
    <3>2. e.ver \in Version /\ old.effective \in MaybeVersion
      BY <1>1 DEF EventRecord, MessageRecord
    <3>3. JudgeBoth(e.ver, PartVersion(e), old.effective) \in {"apply", "pass"}
      BY <1>3, <2>5 DEF PlanKnown, Judgement, old
    <3> QED
      BY <3>1, <3>2, <3>3, AppliedIsLater DEF Advances, old, new
  <2> QED
    BY <2>4, <2>5
<1> QED
  BY <1>2, <1>3

LEMMA AllAdvance ==
    ASSUME InboxShape, [Next]_vars, NEW m \in Message
    PROVE  Advances(m)
<1>1. message[m] \in MessageRecord /\ MessagesOK
  BY MessageType DEF InboxShape
<1>2. CASE UNCHANGED message
  BY <1>2 DEF Advances
<1>3. ASSUME NEW p \in Process, PlanCreate(p) PROVE Advances(m)
  <2>1. Job(p).of # m \/ ~message[m].known
    BY <1>3 DEF PlanCreate, IsEcho, PartKnown
  <2>2. Job(p).of # m => message'[m] = message[m]
    BY <1>1, <1>3 DEF PlanCreate, MessagesOK
  <2> QED
    BY <2>1, <2>2 DEF Advances
<1>4. ASSUME NEW p \in Process, PlanEcho(p) PROVE Advances(m)
  <2>1. message'[m].effective = message[m].effective
    BY <1>1, <1>4 DEF PlanEcho, MessagesOK, MessageRecord
  <2> QED
    BY <2>1 DEF Advances
<1>5. ASSUME NEW n \in Message, BeginSend(n) \/ LoseCreate(n) \/ CompleteCreate(n)
      PROVE  Advances(m)
  <2>1. message'[m].effective = message[m].effective
    BY <1>1, <1>5, OutTaken
  <2> QED
    BY <2>1 DEF Advances
<1>6. \/ UNCHANGED message
      \/ \E p \in Process : PlanCreate(p) \/ PlanEcho(p) \/ PlanKnown(p)
      \/ \E n \in Message : BeginSend(n) \/ LoseCreate(n) \/ CompleteCreate(n)
  BY DEF Next, Accept, ClaimInbox, Crash, ExpireLease, BecomeReady, RecoverExpiredLeases,
         Handle, RouteWhatsApp, RouteTelegram, Command, Reached, BackFromAside, Commanded,
         Walks, LookCreate, LookMutation, TooLate, ToPlan, Goto, EndsAs, inboxVars, vars,
         PlanStale, PlanRefused, Finish, DeferInbox
<1> QED
  BY <1>2, <1>3, <1>4, <1>5, <1>6, KnownAdvances

(* A message that is not deleted only moves to later versions of itself,   *)
(* whichever events come, in whatever order and number (applySource).      *)
THEOREM InboxVersionsAdvance == Spec => VersionsAdvance
<1>1. InboxShape /\ [Next]_vars => [\A m \in Message : Advances(m)]_vars
  BY AllAdvance
<1>2. Spec => [][\A m \in Message : Advances(m)]_vars
  BY <1>1, ShapeHolds, PTL DEF Spec
<1> QED
  BY <1>2 DEF VersionsAdvance, Advances

-----------------------------------------------------------------------------
(* Topics in hand.                                                         *)

LEMMA InitHands == TopicsInit => Hands
<1> SUFFICES ASSUME TopicsInit PROVE Hands
  OBVIOUS
<1>1. \A j \in Chat : Active(j) => chat[j].thread \in DOMAIN FirstTopics
  BY TopicsAssumption DEF TopicsInit, InFirst, Active
<1> QED
  BY <1>1 DEF TopicsInit, Hands, TopicsThere, OneHandEach, HasInHand, Resting

(* What a process may do with the topic that it has in hand.               *)
TakesInHand(p) ==
    /\ walk'[p].op = "bind" => walk'[p].thread \in DOMAIN forum
    /\ walk'[p].op = "ensure" /\ walk'[p].at \in {"read", "bind"} =>
         \/ HasInHand(p, walk'[p].thread)
         \/ walk'[p].thread \notin DOMAIN forum

LEMMA HandsMove ==
    ASSUME Shape, Hands, Onward, NEW p \in Process, Others(p), TakesInHand(p),
           \A j \in Chat : Active(j)' => chat'[j].thread \in DOMAIN forum
    PROVE  Hands'
<1>1. DOMAIN forum \subseteq DOMAIN forum' /\ \A q \in Process \ {p} : walk'[q] = walk[q]
  BY DEF Onward, Others
<1>2. TopicsThere'
  BY <1>1 DEF Hands, TopicsThere, TakesInHand
<1>3. ASSUME NEW q \in Process, q # p, NEW t, HasInHand(q, t)'
      PROVE  HasInHand(q, t) /\ t \in DOMAIN forum
  BY <1>1, <1>3 DEF HasInHand, Shape, Walking, OnItsWay
<1>4. ASSUME NEW t, HasInHand(p, t)' PROVE HasInHand(p, t) \/ t \notin DOMAIN forum
  BY <1>4 DEF HasInHand, TakesInHand
<1>5. ASSUME NEW t, HasInHand(p, t) PROVE t \in DOMAIN forum
  BY <1>5 DEF HasInHand, Shape, Walking, OnItsWay
<1>6. \A q, r \in Process, t \in DOMAIN forum : HasInHand(q, t) /\ HasInHand(r, t) => q = r
  BY DEF Hands, OneHandEach
<1>7. ASSUME NEW q \in Process, NEW r \in Process, NEW t, HasInHand(q, t)', HasInHand(r, t)'
      PROVE  q = r
  BY <1>3, <1>4, <1>6, <1>7
<1>8. OneHandEach'
  BY <1>7 DEF OneHandEach
<1> QED
  BY <1>2, <1>8 DEF Hands

LEMMA WalkHands ==
    ASSUME Shape, Hands, Onward, NEW p \in Process, WalkStep(p)
    PROVE  Hands'
<1>1. TopicsOK /\ Others(p) /\ walk'[p].op = walk[p].op
  BY WalkGoes DEF Shape, TopicsTypeOK
<1>2. walk[p].op = "bind" => walk[p].thread \in DOMAIN forum
  BY DEF Hands, TopicsThere
<1>3. CASE CreateTopic(p)
  <2>0. Len(forum) + 1 \notin DOMAIN forum
    BY <1>1 DEF TopicsOK
  <2>1. TakesInHand(p)
    <3>1. walk[p].at = "create" /\ walk[p].op = "ensure"
      BY <1>3 DEF CreateTopic, Shape, Walking, OnItsWay
    <3> QED
      BY <1>1, <1>3, <2>0, <3>1, CreateEffect DEF TakesInHand
  <2>2. UNCHANGED chat
    BY <1>3 DEF CreateTopic
  <2> QED
    BY <1>1, <2>1, <2>2, HandsMove DEF Hands, TopicsThere, Active
<1>4. CASE ReadGeneration(p)
  <2>1. TakesInHand(p)
    BY <1>1, <1>2, <1>4, ReadEffect DEF TakesInHand, ReadGeneration, HasInHand
  <2>2. UNCHANGED chat
    BY <1>4 DEF ReadGeneration
  <2> QED
    BY <1>1, <2>1, <2>2, HandsMove DEF Hands, TopicsThere, Active
<1>5. CASE DiscoverChat(p)
  <2>1. PICK place : Go(p, place) /\ (walk[p].op = "ensure" => place = "create")
    BY <1>5 DEF DiscoverChat
  <2>2. TakesInHand(p)
    BY <1>1, <1>2, <2>1, GoEffect DEF TakesInHand
  <2>3. \A j \in Chat : chat'[j].thread = chat[j].thread
    BY <1>1, <1>5, DiscoverEffect
  <2> QED
    BY <1>1, <2>2, <2>3, HandsMove DEF Hands, TopicsThere, Active
<1>6. CASE BindTopic(p)
  <2>1. PICK place \in {"post", "bound", "failed"} : Go(p, place)
    BY <1>6 DEF BindTopic
  <2>2. TakesInHand(p)
    BY <1>1, <1>2, <2>1, GoEffect DEF TakesInHand
  <2>3. walk[p].op \in {"ensure", "bind"} /\ walk[p].thread \in DOMAIN forum
    BY <1>2, <1>6 DEF BindTopic, Shape, Walking, OnItsWay
  <2>4. \A j \in Chat : \/ chat'[j].thread = chat[j].thread
                        \/ chat'[j].thread = walk[p].thread
    BY <1>1, <1>6, BindEffect
  <2> QED
    BY <1>1, <2>2, <2>3, <2>4, HandsMove DEF Hands, TopicsThere, Active
<1>7. CASE \/ CreateTopicFails(p) \/ EditCard(p) \/ PostPhoto(p)
           \/ PostText(p) \/ RecordCard(p)
  <2>1. PICK place \in {"post", "text", "record", "bound", "failed"} : Go(p, place)
    BY <1>7 DEF CreateTopicFails, EditCard, PostPhoto, PostText, RecordCard
  <2>2. TakesInHand(p)
    BY <1>1, <1>2, <2>1, GoEffect DEF TakesInHand
  <2>3. UNCHANGED chat
    BY <1>7 DEF CreateTopicFails, EditCard, PostPhoto, PostText, RecordCard
  <2> QED
    BY <1>1, <2>2, <2>3, HandsMove DEF Hands, TopicsThere, Active
<1> QED
  BY <1>3, <1>4, <1>5, <1>6, <1>7 DEF WalkStep

LEMMA NextHands == Shape /\ Hands /\ [TopicsNext]_<<topicVars, faults>> => Hands'
<1> SUFFICES ASSUME Shape, Hands, [TopicsNext]_<<topicVars, faults>> PROVE Hands'
  OBVIOUS
<1>1. TopicsOK
  BY DEF Shape, TopicsTypeOK
<1>2. CASE UNCHANGED topicVars
  BY <1>2 DEF Hands, TopicsThere, OneHandEach, HasInHand, Active, topicVars
<1>3. TopicsNext => Onward
  BY NextKept DEF Kept
<1>4. ASSUME NEW p \in Process, NEW j \in Chat, Onward,
             \/ EnsureTopic(p, j) \/ Sync(p, j)
             \/ \E t \in DOMAIN forum : Bind(p, j, t)
      PROVE  Hands'
  <2>1. /\ Others(p) /\ UNCHANGED chat
        /\ \/ walk'[p].op = "ensure" /\ walk'[p].at \in {"bound", "discover"}
           \/ walk'[p].op = "card"
           \/ walk'[p].op = "bind" /\ walk'[p].thread \in DOMAIN forum
    <3>1. CASE EnsureTopic(p, j)
      BY <1>1, <3>1, Ensures
    <3>2. CASE UpdateCard(p, j)
      BY <1>1, <3>2, Updates
    <3>3. CASE \E t \in DOMAIN forum : Bind(p, j, t)
      BY <1>1, <3>3, BeginEffect DEF Bind
    <3> QED
      BY <1>4, <3>1, <3>2, <3>3 DEF Sync
  <2>2. TakesInHand(p)
    BY <2>1 DEF TakesInHand
  <2> QED
    BY <1>4, <2>1, <2>2, HandsMove DEF Hands, TopicsThere, Active
<1>5. ASSUME NEW p \in Process, Return(p) \/ Stop(p), Onward PROVE Hands'
  <2>1. Others(p) /\ walk'[p] = Resting /\ UNCHANGED chat
    BY <1>1, <1>5, LeaveEffect DEF Return, Stop
  <2>2. TakesInHand(p)
    BY <2>1 DEF TakesInHand, Resting
  <2> QED
    BY <1>5, <2>1, <2>2, HandsMove DEF Hands, TopicsThere, Active
<1>6. CASE FaultElsewhere
  BY <1>2, <1>6 DEF FaultElsewhere
<1> QED
  BY <1>2, <1>3, <1>4, <1>5, <1>6, WalkHands DEF TopicsNext

-----------------------------------------------------------------------------
(* Messages that are passed over.  For the messages of a chat, a step is   *)
(* one of six: nothing is lost by it; or it is a fault; or a handler finds *)
(* that it cannot bind the topic it made; or one that had found that       *)
(* passes its message over; or the chat gets its topic; or another chat    *)
(* gets the one that was to be its topic.                                  *)

AsBefore(j) ==
    /\ Active(j)' <=> Active(j)
    /\ PassedOver(j)' \subseteq PassedOver(j)
    /\ TakenFrom(j) \subseteq TakenFrom(j)'
    /\ Active(j) => Walkers(j)' \subseteq Walkers(j)

LosesNothing(j) ==
    /\ faults' \in {faults, faults + 1} /\ AsBefore(j)
    /\ Failing(j)' \subseteq Failing(j)
    /\ ~Active(j) => Doomed(j)' \subseteq Doomed(j)

CostsOne(j) ==
    /\ faults' = faults + 1 /\ AsBefore(j)
    /\ \E p : \/ /\ Failing(j)' \subseteq Failing(j) \cup {p}
                 /\ Doomed(j)' \subseteq Doomed(j)
              \/ /\ Failing(j)' \subseteq Failing(j)
                 /\ Doomed(j)' \subseteq Doomed(j) \cup {p}

TurnsBack(j) ==
    /\ UNCHANGED faults /\ AsBefore(j)
    /\ \E p : /\ Failing(j)' \subseteq Failing(j) \cup {p}
              /\ p \in Walkers(j) /\ Walkers(j)' \subseteq Walkers(j) \ {p}
              /\ ~Active(j) => p \in Doomed(j) /\ Doomed(j)' \subseteq Doomed(j) \ {p}

PassesOver(j) ==
    /\ UNCHANGED faults
    /\ Active(j)' <=> Active(j)
    /\ TakenFrom(j) \subseteq TakenFrom(j)'
    /\ Walkers(j)' \subseteq Walkers(j) /\ Doomed(j)' \subseteq Doomed(j)
    /\ \E p, i : /\ PassedOver(j)' \subseteq PassedOver(j) \cup {i}
                 /\ p \in Failing(j) /\ Failing(j)' \subseteq Failing(j) \ {p}

FindsTopic(j) ==
    /\ UNCHANGED faults /\ ~Active(j) /\ Active(j)'
    /\ PassedOver(j)' \subseteq PassedOver(j)
    /\ TakenFrom(j) \subseteq TakenFrom(j)'
    /\ Failing(j)' \subseteq Failing(j)
    /\ \E p \in Process : p \notin Walkers(j)'

IsTaken(j) ==
    /\ UNCHANGED faults /\ AsBefore(j)
    /\ Failing(j)' \subseteq Failing(j)
    /\ \E t, p : /\ t \notin TakenFrom(j) /\ t \in TakenFrom(j)'
                 /\ Doomed(j)' \subseteq Doomed(j) \cup {p}

MessagesStep(j) ==
    \/ LosesNothing(j) \/ CostsOne(j) \/ TurnsBack(j)
    \/ PassesOver(j) \/ FindsTopic(j) \/ IsTaken(j)

LEMMA FiniteHere ==
    ASSUME InboxShape, NEW j
    PROVE  /\ IsFiniteSet(PassedOver(j)) /\ IsFiniteSet(TakenFrom(j))
           /\ IsFiniteSet(Failing(j)) /\ IsFiniteSet(Doomed(j)) /\ IsFiniteSet(Walkers(j))
           /\ Walkers(j) \subseteq Process
           /\ Cardinality(PassedOver(j)) \in Nat /\ Cardinality(TakenFrom(j)) \in Nat
           /\ Cardinality(Failing(j)) \in Nat /\ Cardinality(Doomed(j)) \in Nat
           /\ Cardinality(Walkers(j)) \in Nat
           /\ IsFiniteSet(Process) /\ Cardinality(Process) \in Nat \ {0}
           /\ faults \in Nat
<1>1. /\ IsFiniteSet(Process) /\ Cardinality(Process) \in Nat \ {0} /\ faults \in Nat
  BY Finite DEF InboxShape, Shape, TopicsTypeOK
<1>2. /\ Failing(j) \subseteq Process /\ Doomed(j) \subseteq Process
      /\ Walkers(j) \subseteq Process
  BY DEF Failing, Doomed, Robbed, Unwritten, Walkers, Making
<1>3. /\ PassedOver(j) \subseteq 1..Len(row) /\ Len(row) \in Nat
      /\ TakenFrom(j) \subseteq 1..Len(forum) /\ Len(forum) \in Nat
  BY DEF PassedOver, TakenFrom, InboxShape, RowsOK, Shape, TopicsTypeOK, TopicsOK
<1>4. IsFiniteSet(1..Len(row)) /\ IsFiniteSet(1..Len(forum))
  BY <1>3, FS_Interval
<1> QED
  BY <1>1, <1>2, <1>3, <1>4, NoLarger

LEMMA MessagesCounted ==
    ASSUME InboxShape, InboxShape', NEW j, MessagesOf(j), MessagesStep(j)
    PROVE  MessagesOf(j)'
<1> DEFINE N == Cardinality(Process)
           L == PassedOver(j)
           M == PassedOver(j)'
           T == TakenFrom(j)
           U == TakenFrom(j)'
           F == Failing(j)
           G == Failing(j)'
           D == Doomed(j)
           E == Doomed(j)'
           W == Walkers(j)
           X == Walkers(j)'
<1>1. /\ IsFiniteSet(L) /\ IsFiniteSet(T) /\ IsFiniteSet(F) /\ IsFiniteSet(D) /\ IsFiniteSet(W)
      /\ Cardinality(L) \in Nat /\ Cardinality(T) \in Nat /\ Cardinality(F) \in Nat
      /\ Cardinality(D) \in Nat /\ Cardinality(W) \in Nat
      /\ IsFiniteSet(Process) /\ N \in Nat \ {0} /\ faults \in Nat
  BY FiniteHere
<1>2. /\ IsFiniteSet(M) /\ IsFiniteSet(U) /\ IsFiniteSet(G) /\ IsFiniteSet(E) /\ IsFiniteSet(X)
      /\ Cardinality(M) \in Nat /\ Cardinality(U) \in Nat /\ Cardinality(G) \in Nat
      /\ Cardinality(E) \in Nat /\ Cardinality(X) \in Nat
      /\ X \subseteq Process /\ faults' \in Nat
  <2>1. /\ X \subseteq Process /\ G \subseteq Process /\ E \subseteq Process
    BY DEF Failing, Doomed, Robbed, Unwritten, Walkers, Making
  <2>2. /\ M \subseteq 1..Len(row') /\ Len(row') \in Nat
        /\ U \subseteq 1..Len(forum') /\ Len(forum') \in Nat
        /\ faults' \in Nat
    BY DEF PassedOver, TakenFrom, InboxShape, RowsOK, Shape, TopicsTypeOK, TopicsOK
  <2>3. IsFiniteSet(1..Len(row')) /\ IsFiniteSet(1..Len(forum'))
    BY <2>2, FS_Interval
  <2> HIDE DEF M, U, G, E, X
  <2> QED
    BY <1>1, <2>1, <2>2, <2>3, NoLarger
<1>3. /\ ~Active(j) => Cardinality(L) + Cardinality(F) + Cardinality(D)
                         <= faults + Cardinality(T)
      /\ Active(j) => Cardinality(L) + Cardinality(F) + Cardinality(W)
                        <= faults + Cardinality(T) + N - 1
  BY DEF MessagesOf
<1>4. SUFFICES
      /\ ~Active(j)' => Cardinality(M) + Cardinality(G) + Cardinality(E)
                          <= faults' + Cardinality(U)
      /\ Active(j)' => Cardinality(M) + Cardinality(G) + Cardinality(X)
                         <= faults' + Cardinality(U) + N - 1
  BY DEF MessagesOf
<1>5. /\ M \subseteq L => Cardinality(M) <= Cardinality(L)
      /\ T \subseteq U => Cardinality(T) <= Cardinality(U)
      /\ G \subseteq F => Cardinality(G) <= Cardinality(F)
      /\ E \subseteq D => Cardinality(E) <= Cardinality(D)
      /\ X \subseteq W => Cardinality(X) <= Cardinality(W)
  <2> HIDE DEF N, L, M, T, U, F, G, D, E, W, X
  <2> QED
    BY <1>1, <1>2, NoLarger
<1>6. CASE LosesNothing(j)
  BY <1>1, <1>2, <1>3, <1>5, <1>6 DEF LosesNothing, AsBefore
<1>7. CASE CostsOne(j)
  <2>1. PICK p : \/ G \subseteq F \cup {p} /\ E \subseteq D
                 \/ G \subseteq F /\ E \subseteq D \cup {p}
    BY <1>7 DEF CostsOne
  <2>2. /\ faults' = faults + 1 /\ M \subseteq L /\ T \subseteq U
        /\ Active(j)' <=> Active(j)
        /\ Active(j) => X \subseteq W
    BY <1>7 DEF CostsOne, AsBefore
  <2> HIDE DEF N, L, M, T, U, F, G, D, E, W, X
  <2>3. \/ Cardinality(G) <= Cardinality(F) + 1 /\ Cardinality(E) <= Cardinality(D)
        \/ Cardinality(G) <= Cardinality(F) /\ Cardinality(E) <= Cardinality(D) + 1
    BY <1>1, <1>5, <2>1, OneMore
  <2> QED
    BY <1>1, <1>2, <1>3, <1>5, <2>2, <2>3
<1>8. CASE TurnsBack(j)
  <2>1. PICK p : /\ G \subseteq F \cup {p} /\ p \in W /\ X \subseteq W \ {p}
                 /\ ~Active(j) => p \in D /\ E \subseteq D \ {p}
    BY <1>8 DEF TurnsBack
  <2>2. /\ faults' = faults /\ M \subseteq L /\ T \subseteq U
        /\ Active(j)' <=> Active(j)
    BY <1>8 DEF TurnsBack, AsBefore
  <2> HIDE DEF N, L, M, T, U, F, G, D, E, W, X
  <2>3. /\ Cardinality(G) <= Cardinality(F) + 1
        /\ Cardinality(X) + 1 <= Cardinality(W)
        /\ ~Active(j) => Cardinality(E) + 1 <= Cardinality(D)
    BY <1>1, <2>1, OneMore, OneLess
  <2> QED
    BY <1>1, <1>2, <1>3, <1>5, <2>2, <2>3
<1>9. CASE PassesOver(j)
  <2>1. PICK p, i : /\ M \subseteq L \cup {i}
                    /\ p \in F /\ G \subseteq F \ {p}
    BY <1>9 DEF PassesOver
  <2>2. /\ faults' = faults /\ T \subseteq U /\ X \subseteq W /\ E \subseteq D
        /\ Active(j)' <=> Active(j)
    BY <1>9 DEF PassesOver
  <2> HIDE DEF N, L, M, T, U, F, G, D, E, W, X
  <2>3. Cardinality(M) <= Cardinality(L) + 1 /\ Cardinality(G) + 1 <= Cardinality(F)
    BY <1>1, <2>1, OneMore, OneLess
  <2> QED
    BY <1>1, <1>2, <1>3, <1>5, <2>2, <2>3
<1>10. CASE FindsTopic(j)
  <2>1. PICK p \in Process : p \notin X
    BY <1>10 DEF FindsTopic
  <2>2. /\ faults' = faults /\ T \subseteq U /\ M \subseteq L /\ G \subseteq F
        /\ ~Active(j) /\ Active(j)'
    BY <1>10 DEF FindsTopic
  <2>3. X \subseteq Process \ {p}
    BY <1>2, <2>1
  <2> HIDE DEF L, M, T, U, F, G, D, E, W, X
  <2>4. Cardinality(X) + 1 <= N
    BY <1>1, <2>3, OneLess
  <2> HIDE DEF N
  <2> QED
    BY <1>1, <1>2, <1>3, <1>5, <2>2, <2>4
<1>11. CASE IsTaken(j)
  <2>1. PICK t, p : t \notin T /\ t \in U /\ E \subseteq D \cup {p}
    BY <1>11 DEF IsTaken
  <2>2. /\ faults' = faults /\ T \subseteq U /\ M \subseteq L /\ G \subseteq F
        /\ Active(j)' <=> Active(j)
        /\ Active(j) => X \subseteq W
    BY <1>11 DEF IsTaken, AsBefore
  <2>3. T \subseteq U \ {t}
    BY <2>1, <2>2
  <2> HIDE DEF N, L, M, T, U, F, G, D, E, W, X
  <2>4. Cardinality(T) + 1 <= Cardinality(U) /\ Cardinality(E) <= Cardinality(D) + 1
    BY <1>1, <1>2, <2>1, <2>3, OneMore, OneLess
  <2> QED
    BY <1>1, <1>2, <1>3, <1>5, <2>2, <2>4
<1> QED
  BY <1>6, <1>7, <1>8, <1>9, <1>10, <1>11 DEF MessagesStep

(* Steps that give no chat a topic.                                        *)
Unbound == \A k \in Chat : chat'[k].thread = chat[k].thread

LEMMA OthersStay ==
    ASSUME InboxShape, Kept, Unbound, NEW p \in Process, Others(p),
           \A q \in Process \ {p} : pc'[q] = pc[q], NEW j \in Chat
    PROVE  /\ Active(j)' <=> Active(j)
           /\ \A t : BoundTo(t)' = BoundTo(t)
           /\ TakenFrom(j) \subseteq TakenFrom(j)'
           /\ Walkers(j)' \ {p} \subseteq Walkers(j)
           /\ Failing(j)' \ {p} \subseteq Failing(j)
           /\ Doomed(j)' \ {p} \subseteq Doomed(j)
<1>1. \A q \in Process \ {p} : walk'[q] = walk[q] /\ pc'[q] = pc[q]
  BY DEF Others
<1>2. \A t : BoundTo(t)' = BoundTo(t)
  BY DEF Unbound, BoundTo
<1>3. Active(j)' <=> Active(j)
  BY DEF Unbound, Active
<1>4. TakenFrom(j) \subseteq TakenFrom(j)'
  BY <1>2 DEF TakenFrom, Kept, Onward
<1>5. Walkers(j)' \ {p} \subseteq Walkers(j) /\ Failing(j)' \ {p} \subseteq Failing(j)
  BY <1>1 DEF Walkers, Making, Failing, For
<1>6. Doomed(j)' \ {p} \subseteq Doomed(j)
  <2> SUFFICES ASSUME NEW q \in Doomed(j)', q # p PROVE q \in Doomed(j)
    OBVIOUS
  <2>1. q \in Process /\ walk'[q] = walk[q] /\ pc'[q] = pc[q]
    BY <1>1 DEF Doomed, Robbed, Walkers, Unwritten, Making
  <2>2. chat[j].known => chat'[j].known
    BY DEF Kept
  <2> QED
    BY <1>2, <2>1, <2>2 DEF Doomed, Robbed, Walkers, Unwritten, Making, For
<1> QED
  BY <1>2, <1>3, <1>4, <1>5, <1>6

LEMMA PassedStay ==
    ASSUME NEW j,
           \A i \in DOMAIN row' :
              \/ fate'[i] # "unrouted"
              \/ /\ i \in DOMAIN row /\ row'[i] = row[i]
                 /\ fate'[i] = fate[i] \/ row[i].src # "whatsapp"
    PROVE  PassedOver(j)' \subseteq PassedOver(j)
BY DEF PassedOver

(* A process that is not on its way to the topic of a message.             *)
LEMMA OffTheWay ==
    ASSUME InboxShape, Kept, Unbound, NEW p \in Process, Others(p),
           \A q \in Process \ {p} : pc'[q] = pc[q], NEW j \in Chat,
           pc'[p] # "walk" \/ walk'[p].at \in {"edit", "post", "text", "record", "bound"},
           faults' \in {faults, faults + 1},
           PassedOver(j)' \subseteq PassedOver(j)
    PROVE  LosesNothing(j)
<1>1. p \notin Walkers(j)' /\ p \notin Failing(j)' /\ p \notin Doomed(j)'
  BY DEF Walkers, Making, Failing, Doomed, Robbed, Unwritten
<1> QED
  BY <1>1, OthersStay DEF LosesNothing, AsBefore

(* A process that is.                                                      *)
LEMMA OnTheWay ==
    ASSUME NEW p, NEW j
    PROVE  /\ p \in Walkers(j) <=> /\ p \in Process /\ pc[p] = "walk"
                                   /\ walk[p].for = j /\ walk[p].op = "ensure"
                                   /\ walk[p].at \in {"discover", "create", "read", "bind"}
           /\ p \in Failing(j) <=> /\ p \in Process /\ pc[p] = "walk"
                                   /\ walk[p].for = j /\ walk[p].at = "failed"
           /\ p \in Doomed(j) <=> /\ p \in Walkers(j)
                                  /\ \/ walk[p].at # "discover" /\ ~chat[j].known
                                     \/ /\ walk[p].at \in {"read", "bind"}
                                        /\ BoundTo(walk[p].thread) # {}
           /\ p \in Walkers(j)' <=> /\ p \in Process /\ pc'[p] = "walk"
                                    /\ walk'[p].for = j /\ walk'[p].op = "ensure"
                                    /\ walk'[p].at \in {"discover", "create", "read", "bind"}
           /\ p \in Failing(j)' <=> /\ p \in Process /\ pc'[p] = "walk"
                                    /\ walk'[p].for = j /\ walk'[p].at = "failed"
           /\ p \in Doomed(j)' <=> /\ p \in Walkers(j)'
                                   /\ \/ walk'[p].at # "discover" /\ ~chat'[j].known
                                      \/ /\ walk'[p].at \in {"read", "bind"}
                                         /\ BoundTo(walk[p].thread)' # {}
BY DEF Walkers, Making, Failing, Doomed, Robbed, Unwritten, For

LEMMA SetOutMessages ==
    ASSUME InboxShape, Kept, NEW p \in Process, RouteWhatsApp(p), NEW j \in Chat
    PROVE  MessagesStep(j)
<1>1. /\ MovesOn(p) /\ Others(p) /\ UNCHANGED <<chat, faults, fate, row>>
      /\ \A q \in Process \ {p} : pc'[q] = pc[q]
      /\ pc'[p] \in {"look", "walk"}
  <2>1. MovesOn(p)
    BY AllMove
  <2>2. UNCHANGED <<chat, faults, fate>>
    BY DEF RouteWhatsApp, EnsureTopic, Begin, topicVars
  <2>3. PICK place \in {"look", "walk"} : Goto(p, place)
    BY DEF RouteWhatsApp
  <2> QED
    BY <2>1, <2>2, <2>3, GotoEffect DEF MovesOn, InboxShape, PC, rowVars
<1>2. Unbound /\ PassedOver(j)' \subseteq PassedOver(j)
  BY <1>1, PassedStay DEF Unbound
<1>3. CASE pc'[p] # "walk"
  BY <1>1, <1>2, <1>3, OffTheWay DEF MessagesStep
<1>4. CASE pc'[p] = "walk"
  <2>1. EnsureTopic(p, Job(p).chat)
    BY <1>4 DEF RouteWhatsApp, Goto, InboxShape, WorkOK
  <2>2. /\ walk'[p].for = Job(p).chat
        /\ walk'[p].at = IF Active(Job(p).chat) THEN "bound" ELSE "discover"
    BY <2>1, Ensures DEF InboxShape, Shape, TopicsTypeOK
  <2>3. /\ p \notin Failing(j)' /\ p \notin Doomed(j)'
        /\ Active(j) => p \notin Walkers(j)'
    BY <2>2, OnTheWay
  <2> QED
    BY <1>1, <1>2, <2>3, OthersStay DEF MessagesStep, LosesNothing, AsBefore
<1> QED
  BY <1>3, <1>4

(* Steps of a walk, for a message, that give no chat a topic.              *)
LEMMA WalkMessages ==
    ASSUME InboxShape, Hands, Kept, Unbound, NEW p \in Process, Walks(p), NEW j \in Chat
    PROVE  MessagesStep(j)
<1>1. /\ TopicsOK /\ OnItsWay(p) /\ Others(p) /\ UNCHANGED <<row, pc, fate>>
      /\ walk'[p].op = walk[p].op /\ walk'[p].for = walk[p].for
      /\ pc[p] = "walk" => walk[p].op = "ensure"
  <2>1. TopicsOK
    BY DEF InboxShape, Shape, TopicsTypeOK
  <2> QED
    BY <2>1, WalkGoes DEF InboxShape, Shape, Walking, AtWork, Walks, inboxVars
<1>2. PassedOver(j)' \subseteq PassedOver(j)
  BY <1>1, PassedStay
<1>3. faults' \in {faults, faults + 1}
  BY DEF Walks, WalkStep, DiscoverChat, CreateTopic, CreateTopicFails, ReadGeneration,
         BindTopic, EditCard, PostPhoto, PostText, RecordCard, Fault
<1>4. /\ Active(j)' <=> Active(j)
      /\ TakenFrom(j) \subseteq TakenFrom(j)'
      /\ Walkers(j)' \ {p} \subseteq Walkers(j)
      /\ Failing(j)' \ {p} \subseteq Failing(j)
      /\ Doomed(j)' \ {p} \subseteq Doomed(j)
  BY <1>1, OthersStay
<1>5. CASE pc[p] # "walk" \/ EditCard(p) \/ PostPhoto(p) \/ PostText(p) \/ RecordCard(p)
  <2>1. CASE pc[p] # "walk"
    BY <1>1, <1>2, <1>3, <2>1, OffTheWay DEF MessagesStep
  <2>2. CASE EditCard(p) \/ PostPhoto(p) \/ PostText(p) \/ RecordCard(p)
    <3>1. PICK place \in {"post", "text", "record", "bound"} : Go(p, place)
      BY <2>2 DEF EditCard, PostPhoto, PostText, RecordCard
    <3>2. walk'[p].at \in {"edit", "post", "text", "record", "bound"}
      BY <1>1, <3>1, GoEffect
    <3> QED
      BY <1>1, <1>2, <1>3, <3>2, OffTheWay DEF MessagesStep
  <2> QED
    BY <1>5, <2>1, <2>2
<1>6. CASE pc[p] = "walk" /\ DiscoverChat(p)
  <2>1. /\ walk[p].at = "discover" /\ walk[p].op = "ensure" /\ Go(p, "create")
        /\ \/ chat'[walk[p].for].known /\ UNCHANGED faults
           \/ faults' = faults + 1
    <3>1. Go(p, "create") /\ walk[p].at = "discover" /\ walk[p].op = "ensure"
      BY <1>1, <1>6 DEF DiscoverChat
    <3>2. \/ chat'[walk[p].for].known /\ UNCHANGED faults
          \/ faults' = faults + 1
      BY <1>1, <1>6, DiscoverEffect DEF Fault
    <3> QED
      BY <3>1, <3>2
  <2>2. walk'[p].at = "create"
    BY <1>1, <2>1, GoEffect
  <2>3. /\ p \notin Failing(j)'
        /\ p \in Walkers(j)' => p \in Walkers(j)
        /\ chat'[walk[p].for].known => p \notin Doomed(j)'
    BY <1>1, <2>1, <2>2, OnTheWay
  <2>4. CASE faults' = faults + 1
    BY <1>2, <1>4, <2>3, <2>4 DEF MessagesStep, CostsOne, AsBefore
  <2>5. CASE chat'[walk[p].for].known /\ UNCHANGED faults
    BY <1>2, <1>3, <1>4, <2>3, <2>5 DEF MessagesStep, LosesNothing, AsBefore
  <2> QED
    BY <2>1, <2>4, <2>5
<1>7. CASE pc[p] = "walk" /\ (CreateTopic(p) \/ ReadGeneration(p))
  <2>1. /\ walk[p].at \in {"create", "read"} /\ walk'[p].at \in {"read", "bind"}
        /\ walk[p].at = "read" => walk'[p].thread = walk[p].thread
        /\ walk[p].at = "create" => walk'[p].thread = Len(forum) + 1
        /\ UNCHANGED chat
    BY <1>1, <1>7, CreateEffect, ReadEffect DEF CreateTopic, ReadGeneration
  <2>2. Len(forum) + 1 \notin DOMAIN forum /\ Len(forum) + 1 # 0
    BY <1>1 DEF TopicsOK
  <2>3. BoundTo(Len(forum) + 1) = {}
    BY <2>2 DEF BoundTo, Hands, TopicsThere, Active
  <2>4. \A t : BoundTo(t)' = BoundTo(t)
    BY <2>1 DEF BoundTo
  <2>5. p \notin Failing(j)' /\ (p \in Walkers(j)' => p \in Walkers(j))
    BY <1>1, <2>1, OnTheWay
  <2>6. p \in Doomed(j)' => p \in Doomed(j)
    <3> SUFFICES ASSUME p \in Doomed(j)' PROVE p \in Doomed(j)
      OBVIOUS
    <3>1. PICK t : t = walk'[p].thread
      OBVIOUS
    <3>2. p \in Walkers(j) /\ (~chat'[j].known \/ BoundTo(t) # {})
      BY <2>4, <2>5, <3>1 DEF Doomed, Robbed, Unwritten, Walkers
    <3>3. walk[p].at # "discover"
      BY <2>1
    <3> QED
      BY <2>1, <2>3, <3>1, <3>2, <3>3, OnTheWay
  <2> QED
    BY <1>2, <1>3, <1>4, <2>5, <2>6 DEF MessagesStep, LosesNothing, AsBefore
<1>8. CASE pc[p] = "walk" /\ CreateTopicFails(p)
  <2>1. Go(p, "failed") /\ faults' = faults + 1
    BY <1>8 DEF CreateTopicFails, Fault
  <2>2. p \notin Walkers(j)' /\ p \notin Doomed(j)'
    BY <1>1, <2>1, GoEffect, OnTheWay
  <2> QED
    BY <1>2, <1>4, <2>1, <2>2 DEF MessagesStep, CostsOne, AsBefore
<1>9. CASE pc[p] = "walk" /\ BindTopic(p)
  <2>1. /\ \/ Go(p, "post") /\ UNCHANGED faults
           \/ /\ Go(p, "failed")
              /\ \/ Fault
                 \/ UNCHANGED faults /\ ~MayBind(walk[p].for, walk[p].thread, walk[p].gen)
        /\ walk[p].at = "bind" /\ walk[p].op = "ensure" /\ walk[p].for \in Chat
    <3>1. walk[p].at = "bind" /\ walk[p].op = "ensure"
      BY <1>1, <1>9 DEF BindTopic
    <3> QED
      BY <1>1, <1>9, <3>1, BindEffect
  <2>2. CASE Go(p, "post")
    <3>1. walk'[p].at = "post"
      BY <1>1, <2>2, GoEffect
    <3> QED
      BY <1>1, <1>2, <1>3, <3>1, OffTheWay DEF MessagesStep
  <2>3. CASE Go(p, "failed") /\ Fault
    <3>1. p \notin Walkers(j)' /\ p \notin Doomed(j)'
      BY <1>1, <2>3, GoEffect, OnTheWay
    <3> QED
      BY <1>2, <1>4, <2>3, <3>1 DEF MessagesStep, CostsOne, AsBefore, Fault
  <2>4. CASE /\ Go(p, "failed") /\ UNCHANGED faults
             /\ ~MayBind(walk[p].for, walk[p].thread, walk[p].gen)
    <3>1. walk'[p].at = "failed"
      BY <1>1, <2>4, GoEffect
    <3>2. p \notin Walkers(j)' /\ p \notin Doomed(j)'
      BY <3>1, OnTheWay
    <3>3. CASE walk[p].for # j
      <4>1. p \notin Failing(j)'
        BY <1>1, <3>3, OnTheWay
      <4> QED
        BY <1>2, <1>3, <1>4, <3>2, <4>1 DEF MessagesStep, LosesNothing, AsBefore
    <3>4. CASE walk[p].for = j
      <4>1. p \in Walkers(j)
        BY <1>9, <2>1, <3>4, OnTheWay
      <4>2. ~Active(j) => ~chat[j].known \/ BoundTo(walk[p].thread) # {}
        BY <1>1, <2>1, <2>4, <3>4 DEF MayBind, OnItsWay, InboxShape, Shape, ChatsInOrder
      <4>3. ~Active(j) => p \in Doomed(j)
        BY <2>1, <4>1, <4>2, OnTheWay
      <4> QED
        BY <1>2, <1>4, <2>4, <3>2, <4>1, <4>3 DEF MessagesStep, TurnsBack, AsBefore
    <3> QED
      BY <3>3, <3>4
  <2> QED
    BY <2>1, <2>2, <2>3, <2>4
<1> QED
  BY <1>5, <1>6, <1>7, <1>8, <1>9 DEF Walks, WalkStep

(* A chat gets a topic, maybe one that was made for another.               *)
LEMMA BoundMessages ==
    ASSUME InboxShape, Hands, Kept, ~Unbound, NEW p \in Process, Walks(p), NEW j \in Chat
    PROVE  MessagesStep(j)
<1> PICK k, t : k = walk[p].for /\ t = walk[p].thread
  OBVIOUS
<1>1. TopicsOK /\ Others(p) /\ OnItsWay(p) /\ UNCHANGED <<row, pc, fate>> /\ BindTopic(p)
  <2>1. TopicsOK
    BY DEF InboxShape, Shape, TopicsTypeOK
  <2>2. ~DiscoverChat(p)
    BY <2>1, DiscoverEffect DEF Unbound
  <2> QED
    BY <2>1, <2>2, WalkGoes DEF InboxShape, Shape, Walking, Walks, inboxVars, WalkStep, Unbound,
       CreateTopic, CreateTopicFails, ReadGeneration, EditCard, PostPhoto, PostText, RecordCard
<1>2. /\ k \in Chat /\ t \in DOMAIN forum /\ t # 0
      /\ \A i \in Chat \ {k} : chat'[i] = chat[i]
      /\ ~Active(k) /\ BoundTo(t) = {} /\ chat'[k].thread = t /\ chat'[k].known
      /\ UNCHANGED <<forum, faults>>
      /\ walk'[p].at \in {"post", "bound"}
  <2>1. walk[p].op \in {"ensure", "bind"} /\ t \in DOMAIN forum /\ UNCHANGED forum
    BY <1>1 DEF OnItsWay, Hands, TopicsThere, BindTopic
  <2>2. /\ k \in Chat /\ \A i \in Chat \ {k} : chat'[i] = chat[i]
        /\ Go(p, "post") \/ Go(p, "bound")
        /\ UNCHANGED faults /\ MayBind(k, t, walk[p].gen)
        /\ chat'[k].thread = t /\ chat'[k].known
    BY <1>1, BindEffect DEF Unbound
  <2>3. walk'[p].at \in {"post", "bound"}
    BY <1>1, <2>2, GoEffect
  <2> QED
    BY <1>1, <2>1, <2>2, <2>3 DEF MayBind, TopicsOK
<1>3. PassedOver(j)' \subseteq PassedOver(j)
  BY <1>1, PassedStay
<1>4. /\ \A s \in DOMAIN forum \ {t} : BoundTo(s)' = BoundTo(s)
      /\ BoundTo(t)' = {k}
  <2>1. \A i \in Chat : \A s \in DOMAIN forum \ {t} : chat'[i].thread = s <=> chat[i].thread = s
    <3>1. chat[k].thread = 0 /\ 0 \notin DOMAIN forum
      BY <1>1, <1>2 DEF Active, TopicsOK
    <3> QED
      BY <1>2, <3>1
  <2>2. \A i \in Chat : chat'[i].thread = t <=> i = k
    BY <1>2 DEF BoundTo
  <2>3. \A s \in DOMAIN forum \ {t} : BoundTo(s)' = BoundTo(s)
    BY <2>1 DEF BoundTo
  <2>4. BoundTo(t)' = {k}
    BY <1>2, <2>2 DEF BoundTo
  <2> QED
    BY <2>3, <2>4
<1>5. /\ p \notin Walkers(j)' /\ p \notin Failing(j)' /\ p \notin Doomed(j)'
  BY <1>2, OnTheWay
<1>6. Walkers(j)' \subseteq Walkers(j) /\ Failing(j)' \subseteq Failing(j)
  BY <1>1, <1>5 DEF Others, Walkers, Making, Failing, For
<1>7. TakenFrom(j) \subseteq TakenFrom(j)' /\ t \notin TakenFrom(j)
  BY <1>2, <1>4 DEF TakenFrom
<1>8. ASSUME NEW q \in Doomed(j)', q \notin Doomed(j)
      PROVE  forum[t] = j /\ HasInHand(q, t)
  <2>1. /\ q \in Process /\ q # p /\ walk'[q] = walk[q] /\ pc'[q] = pc[q]
    BY <1>1, <1>5, <1>8 DEF Others, Doomed, Robbed, Walkers, Unwritten, Making
  <2>2. q \in Walkers(j) /\ (chat[j].known => chat'[j].known)
    BY <1>6, <1>8 DEF Doomed, Robbed, Walkers, Unwritten, Kept
  <2>3. PICK s : s = walk[q].thread
    OBVIOUS
  <2>4. walk[q].at \in {"read", "bind"} /\ BoundTo(s)' # {} /\ BoundTo(s) = {}
    BY <1>8, <2>1, <2>2, <2>3 DEF Doomed, Robbed, Unwritten, Walkers, Making
  <2>5. HasInHand(q, s) /\ s \in DOMAIN forum /\ forum[s] = j
    BY <2>1, <2>2, <2>3, <2>4 DEF HasInHand, Walkers, Making, For, InboxShape, Shape,
       Walking, OnItsWay
  <2> QED
    BY <1>4, <2>4, <2>5
<1>9. CASE k = j
  <2>1. ~Active(j) /\ Active(j)'
    BY <1>2, <1>9 DEF Active
  <2> QED
    BY <1>2, <1>3, <1>5, <1>6, <1>7, <2>1 DEF MessagesStep, FindsTopic
<1>10. CASE k # j
  <2>1. Active(j)' <=> Active(j)
    BY <1>2, <1>10 DEF Active
  <2>2. CASE Doomed(j)' \subseteq Doomed(j)
    BY <1>2, <1>3, <1>6, <1>7, <2>1, <2>2 DEF MessagesStep, LosesNothing, AsBefore
  <2>3. CASE ~(Doomed(j)' \subseteq Doomed(j))
    <3>1. PICK q \in Doomed(j)' : q \notin Doomed(j)
      BY <2>3
    <3>2. forum[t] = j /\ HasInHand(q, t)
      BY <1>8, <3>1
    <3>3. t \in TakenFrom(j)'
      BY <1>2, <1>4, <1>10, <3>2 DEF TakenFrom
    <3>4. ASSUME NEW r \in Doomed(j)', r \notin Doomed(j) PROVE r = q
      <4>1. HasInHand(r, t)
        BY <1>8, <3>4
      <4> QED
        BY <1>2, <3>1, <3>2, <4>1 DEF Hands, OneHandEach, Doomed, Robbed, Walkers, Unwritten,
           Making
    <3>5. Doomed(j)' \subseteq Doomed(j) \cup {q}
      BY <3>4
    <3> QED
      BY <1>2, <1>3, <1>6, <1>7, <2>1, <3>3, <3>5 DEF MessagesStep, IsTaken, AsBefore
  <2> QED
    BY <2>2, <2>3
<1> QED
  BY <1>9, <1>10

(* A handler that comes without the topic passes its message over.         *)
LEMMA ReachedMessages ==
    ASSUME InboxShape, Kept, NEW p \in Process, Reached(p), NEW j \in Chat
    PROVE  MessagesStep(j)
<1>1. /\ MovesOn(p) /\ Others(p) /\ UNCHANGED <<chat, faults, row>> /\ Unbound
      /\ \A q \in Process \ {p} : pc'[q] = pc[q]
      /\ pc[p] = "walk" /\ pc'[p] # "walk"
  <2>1. MovesOn(p)
    BY AllMove
  <2>2. PICK place \in {"look", "finish"} : Goto(p, place)
    BY DEF Reached, EndsAs
  <2> QED
    BY <2>1, <2>2, GotoEffect DEF MovesOn, InboxShape, PC, rowVars, Reached, Unbound
<1>2. p \notin Walkers(j)' /\ p \notin Failing(j)' /\ p \notin Doomed(j)'
  BY <1>1, OnTheWay
<1>3. CASE UNCHANGED fate
  <2>1. PassedOver(j)' \subseteq PassedOver(j)
    BY <1>1, <1>3, PassedStay
  <2> QED
    BY <1>1, <2>1, OffTheWay DEF MessagesStep
<1>4. CASE walk[p].at = "failed" /\ EndsAs(p, "finish", "unrouted")
  <2>1. fate' = [fate EXCEPT ![job[p]] = "unrouted"] /\ fate \in [Id -> Fate]
    BY <1>4 DEF EndsAs, InboxShape, WorkOK
  <2>2. walk[p].for = row[job[p]].chat
    BY <1>1 DEF InboxShape, AtWork, Job
  <2>3. CASE walk[p].for # j
    <3>1. PassedOver(j)' \subseteq PassedOver(j)
      BY <1>1, <2>1, <2>2, <2>3 DEF PassedOver
    <3> QED
      BY <1>1, <3>1, OffTheWay DEF MessagesStep
  <2>4. CASE walk[p].for = j
    <3>1. PassedOver(j)' \subseteq PassedOver(j) \cup {job[p]}
      BY <1>1, <2>1 DEF PassedOver
    <3>2. p \in Failing(j)
      BY <1>1, <1>4, <2>4, OnTheWay
    <3>3. /\ Active(j)' <=> Active(j)
          /\ TakenFrom(j) \subseteq TakenFrom(j)'
          /\ Walkers(j)' \subseteq Walkers(j)
          /\ Failing(j)' \subseteq Failing(j) \ {p}
          /\ Doomed(j)' \subseteq Doomed(j)
      BY <1>1, <1>2, OthersStay
    <3> QED
      BY <1>1, <3>1, <3>2, <3>3 DEF MessagesStep, PassesOver
  <2> QED
    BY <2>3, <2>4
<1> QED
  BY <1>3, <1>4 DEF Reached

(* Whatever else a handler says of its row.                                *)
LEMMA FatePasses ==
    ASSUME InboxShape, NEW p \in Process, UNCHANGED row, NEW j,
           \/ UNCHANGED fate
           \/ /\ \E f \in Fate : fate' = [fate EXCEPT ![job[p]] = f]
              /\ fate'[job[p]] # "unrouted" \/ Job(p).src # "whatsapp"
    PROVE  PassedOver(j)' \subseteq PassedOver(j)
<1>1. fate \in [Id -> Fate] /\ DOMAIN row \subseteq Id
  BY InboxAssumption DEF InboxShape, WorkOK, RowsOK, Id
<1> QED
  BY <1>1 DEF PassedOver, Job

LEMMA ElseMessages ==
    ASSUME InboxShape, Kept, NEW p \in Process, NEW j \in Chat,
           \/ RouteTelegram(p) \/ Command(p) \/ BackFromAside(p) \/ Commanded(p)
           \/ LookCreate(p) \/ LookMutation(p) \/ TooLate(p)
           \/ PlanCreate(p) \/ PlanEcho(p) \/ PlanKnown(p) \/ PlanStale(p)
           \/ PlanRefused(p) \/ Finish(p) \/ DeferInbox(p) \/ Crash(p)
    PROVE  MessagesStep(j)
<1>1. Others(p) /\ UNCHANGED row /\ \A q \in Process \ {p} : pc'[q] = pc[q]
  <2>1. CASE MovesOn(p)
    BY <2>1, GotoEffect DEF MovesOn, InboxShape, rowVars
  <2>2. CASE ComesBack(p)
    BY <2>2, IdlesEffect DEF ComesBack, InboxShape
  <2> QED
    BY <2>1, <2>2, AllMove, AllComeBack
<1>2. pc'[p] # "walk"
  <2>1. CASE ComesBack(p)
    BY <2>1, IdlesEffect DEF ComesBack, InboxShape
  <2>2. CASE \E place \in PC \ {"walk"} : Goto(p, place)
    BY <2>2, GotoEffect DEF InboxShape
  <2>3. CASE \/ RouteTelegram(p) \/ Command(p) \/ BackFromAside(p) \/ Commanded(p)
             \/ LookCreate(p) \/ LookMutation(p) \/ TooLate(p)
    BY <2>2, <2>3 DEF RouteTelegram, Command, BackFromAside, Commanded, LookCreate,
       LookMutation, TooLate, ToPlan, EndsAs, PC
  <2> QED
    BY <2>1, <2>3, AllComeBack
<1>3. UNCHANGED chat /\ faults' \in {faults, faults + 1}
  BY DEF RouteTelegram, Command, BackFromAside, Commanded, LookCreate, LookMutation, TooLate,
     ToPlan, EnsureTopic, Sync, UpdateCard, Bind, Begin, PlanCreate, PlanEcho, PlanKnown,
     Planned, PlanStale, PlanRefused, Finish, DeferInbox, Crash, Fault, topicVars
<1>4. PassedOver(j)' \subseteq PassedOver(j)
  <2>1. CASE UNCHANGED fate
    BY <1>1, <2>1, FatePasses
  <2>2. \/ UNCHANGED fate
        \/ \E f \in {"handled", "echo", "unmapped", "planned", "suppressed"} :
             /\ fate' = [fate EXCEPT ![job[p]] = f] /\ pc[p] # "idle"
        \/ /\ fate' = [fate EXCEPT ![job[p]] = "unrouted"]
           /\ Job(p).src = "telegram"
    BY DEF RouteTelegram, Command, BackFromAside, Commanded, LookCreate, LookMutation, TooLate,
     ToPlan, PlanCreate, PlanEcho, PlanKnown, AtPlan,
     Planned, PlanStale, PlanRefused, Finish, DeferInbox, Crash, Becomes, EndsAs
  <2>3. ASSUME NEW f \in {"handled", "echo", "unmapped", "planned", "suppressed"},
               fate' = [fate EXCEPT ![job[p]] = f], pc[p] # "idle"
        PROVE  PassedOver(j)' \subseteq PassedOver(j)
    <3>1. fate'[job[p]] # "unrouted" /\ f \in Fate
      BY <2>3, JobFacts DEF InboxShape, WorkOK, Fate
    <3> QED
      BY <1>1, <2>3, <3>1, FatePasses
  <2>4. CASE fate' = [fate EXCEPT ![job[p]] = "unrouted"] /\ Job(p).src = "telegram"
    BY <1>1, <2>4, FatePasses DEF Fate
  <2> QED
    BY <2>1, <2>2, <2>3, <2>4
<1> QED
  BY <1>1, <1>2, <1>3, <1>4, OffTheWay DEF MessagesStep, Unbound

LEMMA NextFates ==
    ASSUME InboxShape, FatesThere, [Next]_vars
    PROVE  FatesThere'
<1>0. fate \in [Id -> Fate] /\ row \in Seq(Event)
  BY DEF InboxShape, WorkOK, RowsOK
<1>1. ASSUME NEW p \in Process, Handle(p)
      PROVE  /\ UNCHANGED row
             /\ \/ UNCHANGED fate
                \/ pc[p] # "idle" /\ \E f : fate' = [fate EXCEPT ![job[p]] = f]
  <2>1. UNCHANGED row
    BY <1>1, AllMove, AllComeBack DEF Handle, MovesOn, Goto, rowVars, ComesBack
  <2>2. \/ UNCHANGED fate
        \/ pc[p] # "idle" /\ \E f : fate' = [fate EXCEPT ![job[p]] = f]
    BY <1>1 DEF Handle, RouteWhatsApp, RouteTelegram, Command, Reached, BackFromAside,
       Commanded, Walks, LookCreate, LookMutation, TooLate, ToPlan, PlanCreate, PlanEcho,
       PlanKnown, AtPlan, Planned, PlanStale, PlanRefused, Finish, DeferInbox, Becomes,
       EndsAs, inboxVars
  <2> QED
    BY <2>1, <2>2
<1>2. ASSUME NEW p \in Process, Handle(p) PROVE FatesThere'
  <2>1. pc[p] # "idle" => job[p] \in DOMAIN row
    BY JobFacts DEF InboxShape
  <2> QED
    BY <1>0, <1>1, <1>2, <2>1 DEF FatesThere
<1>3. ASSUME NEW e \in Event, Accept(e) PROVE FatesThere'
  <2>1. DOMAIN row \subseteq DOMAIN row' /\ UNCHANGED fate
    BY <1>0, <1>3 DEF Accept
  <2> QED
    BY <2>1 DEF FatesThere
<1>4. UNCHANGED <<row, fate>> => FatesThere'
  BY DEF FatesThere
<1>5. \/ \E p \in Process : Handle(p)
      \/ \E e \in Event : Accept(e)
      \/ UNCHANGED <<row, fate>>
  BY DEF Next, ClaimInbox, Crash, ExpireLease, BecomeReady, RecoverExpiredLeases,
         BeginSend, LoseCreate, CompleteCreate, Out, rowVars, vars, inboxVars
<1> QED
  BY <1>2, <1>3, <1>4, <1>5

LEMMA NextMessages ==
    ASSUME InboxInv, [Next]_vars, NEW j \in Chat
    PROVE  MessagesStep(j)
<1>1. InboxShape /\ Hands /\ FatesThere /\ Kept
  BY NextOnward DEF InboxInv
<1>2. ASSUME NEW p \in Process, Handle(p) \/ Crash(p) PROVE MessagesStep(j)
  <2>1. CASE RouteWhatsApp(p)
    BY <1>1, <2>1, SetOutMessages
  <2>2. CASE Reached(p)
    BY <1>1, <2>2, ReachedMessages
  <2>3. CASE Walks(p)
    BY <1>1, <2>3, WalkMessages, BoundMessages
  <2> QED
    BY <1>1, <1>2, <2>1, <2>2, <2>3, ElseMessages DEF Handle
<1>3. ASSUME UNCHANGED <<topicVars, pc>>, faults' \in {faults, faults + 1},
             PassedOver(j)' \subseteq PassedOver(j)
      PROVE  MessagesStep(j)
  <2>1. /\ Active(j)' <=> Active(j)
        /\ TakenFrom(j)' = TakenFrom(j)
        /\ Walkers(j)' = Walkers(j) /\ Failing(j)' = Failing(j) /\ Doomed(j)' = Doomed(j)
    BY <1>3 DEF Active, TakenFrom, BoundTo, Walkers, Making, Failing, For,
       Doomed, Robbed, Unwritten, topicVars
  <2> QED
    BY <1>3, <2>1 DEF MessagesStep, LosesNothing, AsBefore
<1>4. ASSUME UNCHANGED <<topicVars, row, pc, fate>>, faults' \in {faults, faults + 1}
      PROVE  MessagesStep(j)
  <2>1. PassedOver(j)' \subseteq PassedOver(j)
    BY <1>4, PassedStay
  <2> QED
    BY <1>3, <1>4, <2>1
<1>5. ASSUME NEW e \in Event, Accept(e) PROVE MessagesStep(j)
  <2>1. UNCHANGED <<topicVars, faults, pc, fate>>
    BY <1>5 DEF Accept
  <2>2. row \in Seq(Event) /\ Len(row) < MaxRows /\ row' = Append(row, e)
    BY <1>1, <1>5 DEF InboxShape, RowsOK, Accept
  <2>3. /\ \A i \in DOMAIN row : row'[i] = row[i]
        /\ \A i \in DOMAIN row' \ DOMAIN row : i = Len(row) + 1
        /\ Len(row) + 1 \in Id \ DOMAIN row
    BY <2>2, InboxAssumption DEF Id
  <2>4. fate[Len(row) + 1] # "unrouted"
    BY <1>1, <2>3 DEF FatesThere
  <2>5. PassedOver(j)' \subseteq PassedOver(j)
    BY <2>1, <2>3, <2>4, PassedStay
  <2> QED
    BY <1>3, <2>1, <2>5
<1>6. ASSUME NEW p \in Process, NEW i \in Id, ClaimInbox(p, i) PROVE MessagesStep(j)
  <2>1. /\ UNCHANGED <<topicVars, faults, fate, row>>
        /\ pc'[p] = "route" /\ \A q \in Process \ {p} : pc'[q] = pc[q]
    BY <1>1, <1>6 DEF ClaimInbox, InboxShape, WorkOK
  <2>2. Others(p) /\ Unbound /\ PassedOver(j)' \subseteq PassedOver(j)
    BY <2>1, PassedStay DEF topicVars, Others, Unbound
  <2> QED
    BY <1>1, <2>1, <2>2, OffTheWay DEF MessagesStep
<1>7. \/ \E p \in Process : Handle(p) \/ Crash(p)
      \/ \E e \in Event : Accept(e)
      \/ \E p \in Process, i \in Id : ClaimInbox(p, i)
      \/ UNCHANGED <<topicVars, row, pc, fate>> /\ faults' \in {faults, faults + 1}
  BY DEF Next, ExpireLease, BecomeReady, RecoverExpiredLeases, Fault,
         BeginSend, LoseCreate, CompleteCreate, Out, rowVars, vars, inboxVars
<1> QED
  BY <1>2, <1>4, <1>5, <1>6, <1>7

LEMMA InitMessages == InboxInit => MessageCount
<1> SUFFICES ASSUME InboxInit, NEW j \in Chat PROVE MessagesOf(j)
  BY DEF MessageCount
<1>1. /\ PassedOver(j) = {} /\ Failing(j) = {} /\ Doomed(j) = {} /\ Walkers(j) = {}
  BY DEF InboxInit, PassedOver, Failing, Doomed, Robbed, Unwritten, Walkers, Making
<1>2. /\ Cardinality({}) = 0 /\ Cardinality(TakenFrom(j)) \in Nat
      /\ Cardinality(Process) \in Nat \ {0} /\ faults \in Nat
  BY InboxShapeInit, FiniteHere, FS_EmptySet
<1> QED
  BY <1>1, <1>2 DEF MessagesOf

LEMMA InboxInvInit == InboxInit => InboxInv
<1>1. InboxInit => FatesThere
  BY DEF InboxInit, FatesThere
<1> QED
  BY <1>1, InboxShapeInit, InitHands, InitMessages DEF InboxInv, InboxInit

LEMMA InboxInvNext == InboxInv /\ [Next]_vars => InboxInv'
<1> SUFFICES ASSUME InboxInv, [Next]_vars PROVE InboxInv'
  OBVIOUS
<1>1. InboxShape /\ Shape /\ Hands /\ FatesThere /\ InboxShape'
  BY InboxShapeNext DEF InboxInv, InboxShape
<1>2. Hands' /\ FatesThere'
  BY <1>1, NextWalks, NextHands, NextFates
<1>3. ASSUME NEW j \in Chat PROVE MessagesOf(j)'
  BY <1>1, NextMessages, MessagesCounted DEF InboxInv, MessageCount
<1> QED
  BY <1>1, <1>2, <1>3 DEF InboxInv, MessageCount

LEMMA InboxInvHolds == Spec => []InboxInv
BY InboxInvInit, InboxInvNext, PTL DEF Spec

(* A message that is passed over for want of a topic has its fault, or a   *)
(* topic of its chat that was given to another, or a handler that made one *)
(* while another bound its own (handleWhatsAppEvent, EnsureTopic,          *)
(* handleBind).                                                            *)
THEOREM InboxMessagesFindTheirTopic == Spec => []MessagesFindTheirTopic
<1>1. ASSUME InboxInv, NEW j \in Chat
      PROVE  Cardinality(PassedOver(j))
               <= faults + Cardinality(TakenFrom(j)) + Cardinality(Process) - 1
  <2>1. InboxShape /\ MessagesOf(j)
    BY <1>1 DEF InboxInv, MessageCount
  <2> QED
    BY <2>1, FiniteHere DEF MessagesOf
<1>2. InboxInv => MessagesFindTheirTopic
  BY <1>1 DEF MessagesFindTheirTopic
<1> QED
  BY <1>2, InboxInvHolds, PTL

=============================================================================
