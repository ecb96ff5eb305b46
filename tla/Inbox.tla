------------------------------- MODULE Inbox -------------------------------
(***************************************************************************)
(* From the inbox to the outbox: the table bridge_inbox, the inbox loop    *)
(* with its two handlers (handleTelegramEvent, handleWhatsAppEvent), the   *)
(* protection against echoes, and the transaction PlanEvent that turns an  *)
(* event into a delivery by the versions of its message.                   *)
(*                                                                         *)
(* A handler reads, may walk to a topic (Topics), reads again, and writes  *)
(* in one last transaction; the lease of its row may lapse at any time in  *)
(* between, the row be given to another process, and its process die.      *)
(*                                                                         *)
(* Abstractions.  A lease token is the process that drew it.  An event has *)
(* only what its handling turns on; its author may do what it asks for,    *)
(* and no message is older than a quarter of an hour but by TooLate.  Of   *)
(* the deliveries only the create of each message is followed, as it is    *)
(* what maps a message to its copy; the others are those of Outbox, and    *)
(* what is told there of supersession and revokes is not told again.  A    *)
(* Telegram event about a message of WhatsApp does not exist: Telegram     *)
(* lets nobody edit the messages of a bot, tells no bot of deletions, and  *)
(* its reactions are put aside at admission.  No adapter makes an event    *)
(* about a chat as a whole (chat.title, chat.timer, ...), so the branches  *)
(* for those are left out, as are the commands that write no chat.         *)
(***************************************************************************)
EXTENDS Topics, Versions

CONSTANTS
    Message,   \* logical messages
    Origin,    \* Message -> the side it was written on
    Event,     \* what may be admitted, each once
    MaxRows    \* bound: rows of the inbox

Side == {"telegram", "whatsapp"}

EventKind == {"create", "edit", "revoke", "reaction",   \* of a message
               "sync", "bind",                           \* commands
              "other"}                                  \* not known

About == {"create", "edit", "revoke", "reaction"}

EventRecord ==
    [src : Side, kind : EventKind, of : Message \cup {Nobody},
     chat : Chat \cup {Nobody},     \* of a WhatsApp event or a command
     thread : Nat,                  \* of a Telegram event
     author : Chat \cup {Nobody},   \* who wrote in a group, if not the owner
     ver : Version, mine : BOOLEAN]

ASSUME InboxAssumption ==
    /\ Origin \in [Message -> Side]
    /\ Event \subseteq EventRecord
    /\ Nobody \notin Message \cup Process
    /\ MaxRows \in Nat
    /\ \A e \in Event : /\ e.kind \in About <=> e.of # Nobody
                        /\ e.src = "telegram" /\ e.kind \in About =>
                             /\ Origin[e.of] = "telegram"
                             /\ e.kind \in {"create", "edit"}
                        /\ e.kind = "create" /\ e.src # Origin[e.of] => e.mine
                        /\ e.src = "whatsapp" => e.chat \in Chat
                        /\ e.src = "telegram" => e.ver.kind = "telegram.message"
                        /\ e.kind \in {"sync", "bind"} =>
                             e.src = "telegram" /\ e.chat \in Chat

Id == 1..MaxRows

VARIABLES
    row,      \* the events admitted, in the order of their ids
    state,    \* Id -> state of the row
    owner,    \* Id -> the process that holds the lease
    expired,  \* Id -> the lease has run out
    ready,    \* Id -> available_at has come
    message,  \* Message -> bridge_message, its parts, and its create
    sender,   \* Message -> who planned its create and still knows the id
    pc, job,  \* Process -> where its handler is, and on which row
    fate,     \* history: Id -> what became of the event
    plans     \* history: Id -> how many times it was planned

rowVars == <<row, state, owner, expired, ready>>
inboxVars == <<row, state, owner, expired, ready, message, sender, pc, job,
               fate, plans>>
vars == <<topicVars, faults, inboxVars>>

NoVersion == [kind |-> "none", order |-> 0, tie |-> Nobody]
Unknown == [known |-> FALSE, tomb |-> FALSE, out |-> "none", copy |-> "none",
            own |-> NoVersion, other |-> NoVersion, effective |-> NoVersion]

MaybeVersion == Version \cup {NoVersion}
MessageRecord ==
    [known : BOOLEAN, tomb : BOOLEAN,
     out  : {"none", "planned", "sending", "done", "lost"},
     copy : {"none", "live", "deleted", "taken"},
     own : MaybeVersion, other : MaybeVersion, effective : MaybeVersion]

PC == {"idle", "route", "walk", "command", "look", "aside", "plan", "defer",
       "finish"}
Fate == {"none", "planned", "suppressed", "echo", "unrouted", "unmapped",
         "handled"}

InboxTypeOK ==
    /\ TopicsOK
    /\ faults \in 0..MaxFaults
    /\ row \in Seq(Event) /\ Len(row) <= MaxRows
    /\ state \in [Id -> {"none", "pending", "leased", "done", "quarantined"}]
    /\ owner \in [Id -> Process \cup {Nobody}]
    /\ expired \in [Id -> BOOLEAN]
    /\ ready \in [Id -> BOOLEAN]
    /\ message \in [Message -> MessageRecord]
    /\ sender \in [Message -> Process \cup {Nobody}]
    /\ pc \in [Process -> PC]
    /\ job \in [Process -> 0..MaxRows]
    /\ fate \in [Id -> Fate]
    /\ plans \in [Id -> Nat]
    /\ \A i \in Id : state[i] = "leased" <=> owner[i] # Nobody
    /\ \A p \in Process : pc[p] \in {"walk", "command", "aside"}
                            <=> walk[p].at # "rest"

InboxInit ==
    /\ TopicsInit
    /\ row = << >>
    /\ state = [i \in Id |-> "none"]
    /\ owner = [i \in Id |-> Nobody]
    /\ expired = [i \in Id |-> FALSE]
    /\ ready = [i \in Id |-> FALSE]
    /\ message = [m \in Message |-> Unknown]
    /\ sender = [m \in Message |-> Nobody]
    /\ pc = [p \in Process |-> "idle"]
    /\ job = [p \in Process |-> 0]
    /\ fate = [i \in Id |-> "none"]
    /\ plans = [i \in Id |-> 0]

-----------------------------------------------------------------------------
(* Admission.  Telegram sends an edit after its message, in order, and     *)
(* both from a topic that is there: what is written outside of the topics  *)
(* goes nowhere.  From WhatsApp, history and live delivery may come in any *)
(* order.  What is said of a copy is said when the copy has been sent.     *)

Admitted(e) == \E i \in DOMAIN row : row[i] = e

CreateOf(e) == \E k \in DOMAIN row : /\ row[k].of = e.of
                                     /\ row[k].kind = "create"
                                     /\ row[k].src = e.src

MayCome(e) ==
    /\ ~Admitted(e)
    /\ e.src = "telegram" => e.thread \in DOMAIN forum
    /\ e.src = "telegram" /\ e.kind = "edit" => CreateOf(e)
    /\ e.of # Nobody /\ e.src # Origin[e.of] =>
         message[e.of].out \in {"sending", "done", "lost"}

Accept(e) ==
    /\ Len(row) < MaxRows
    /\ MayCome(e)
    /\ row' = Append(row, e)
    /\ state' = [state EXCEPT ![Len(row) + 1] =
                   IF e.kind = "other" THEN "quarantined" ELSE "pending"]
    /\ ready' = [ready EXCEPT ![Len(row) + 1] = TRUE]
    /\ UNCHANGED <<topicVars, faults, owner, expired, message, sender, pc, job,
                   fate, plans>>

-----------------------------------------------------------------------------
(* Claiming.                                                               *)

(* target_key: a part of a message, or else a chat.                        *)
Target(i) == IF row[i].of # Nobody THEN <<row[i].src, row[i].of>>
             ELSE IF row[i].src = "whatsapp" THEN <<"chat", row[i].chat>>
             ELSE <<"command", i>>

(* Both parts of the message are recorded.                                 *)
Mapped(m) == message[m].known /\ message[m].copy \in {"live", "deleted"}

SameTarget(i, k) ==
    \/ Target(i) = Target(k)
    \/ row[i].of # Nobody /\ row[i].of = row[k].of /\ Mapped(row[i].of)

(* Mutant: an earlier row waits its turn before a later one has its own.   *)
HeldByEarlier(i) ==
    \E k \in 1..i-1 : state[k] \in {"pending", "leased"} /\ SameTarget(i, k)

HeldBack(i) ==
    \E k \in Id \ {i} : state[k] = "leased" /\ SameTarget(i, k)

Claimable(i) == state[i] = "pending" /\ ready[i] /\ ~HeldBack(i)

(* ClaimInbox takes the lowest id.                                         *)
ClaimInbox(p, i) ==
    /\ pc[p] = "idle"
    /\ Claimable(i)
    /\ \A k \in 1..i-1 : ~Claimable(k)
    /\ state' = [state EXCEPT ![i] = "leased"]
    /\ owner' = [owner EXCEPT ![i] = p]
    /\ pc' = [pc EXCEPT ![p] = "route"]
    /\ job' = [job EXCEPT ![p] = i]
    /\ UNCHANGED <<topicVars, faults, row, expired, ready, message, sender,
                   fate, plans>>

Job(p) == row[job[p]]

(* Mutant: the lease is not looked at.                                     *)
HoldsAnyhow(p) == TRUE

(* The fence of every transaction that ends the handling of a row.         *)
Holds(p) == owner[job[p]] = p /\ ~expired[job[p]]

Goto(p, place) ==
    /\ pc' = [pc EXCEPT ![p] = place]
    /\ UNCHANGED <<rowVars, message, sender, job, plans>>

(* The handler has returned.  A row it has not settled stays leased.       *)
Idles(p) == /\ pc' = [pc EXCEPT ![p] = "idle"]
            /\ job' = [job EXCEPT ![p] = 0]

EndsAs(p, place, f) == Goto(p, place) /\ fate' = [fate EXCEPT ![job[p]] = f]

-----------------------------------------------------------------------------
(* The way to the chat.                                                    *)

(* Mutant: as COORDINATOR.md has it, a chat without a topic gets none.     *)
RouteKnownOnly(p) ==
    /\ pc[p] = "route"
    /\ Job(p).src = "whatsapp"
    /\ IF Active(Job(p).chat) THEN Goto(p, "look") /\ UNCHANGED fate
                              ELSE EndsAs(p, "finish", "unrouted")
    /\ UNCHANGED <<topicVars, faults>>

(* handleWhatsAppEvent reads the chat, and makes it a topic if need be.    *)
RouteWhatsApp(p) ==
    /\ pc[p] = "route"
    /\ Job(p).src = "whatsapp"
    /\ IF Active(Job(p).chat)
       THEN Goto(p, "look") /\ UNCHANGED <<topicVars, faults>>
       ELSE Goto(p, "walk") /\ EnsureTopic(p, Job(p).chat)
    /\ UNCHANGED fate

(* After EnsureTopic.                                                      *)
Reached(p) ==
    /\ pc[p] = "walk"
    /\ \/ walk[p].at = "bound" /\ Goto(p, "look") /\ UNCHANGED fate
       \/ walk[p].at = "failed" /\ EndsAs(p, "finish", "unrouted")
    /\ Leave(p)
    /\ UNCHANGED <<chat, forum, card, faults>>

(* handleTelegramEvent reads the chat of the thread and makes nothing.     *)
RouteTelegram(p) ==
    /\ pc[p] = "route"
    /\ Job(p).src = "telegram"
    /\ Job(p).kind \in About
    /\ IF BoundTo(Job(p).thread) # {} THEN Goto(p, "look") /\ UNCHANGED fate
                                      ELSE EndsAs(p, "finish", "unrouted")
    /\ UNCHANGED <<topicVars, faults>>

(* A command is executed, and whatever comes of it, its event is complete. *)
(* The candidates of /sync are gone through one by one; here it has one.   *)
Command(p) ==
    /\ pc[p] = "route"
    /\ \/ Job(p).kind = "sync" /\ Sync(p, Job(p).chat)
       \/ Job(p).kind = "bind" /\ Bind(p, Job(p).chat, Job(p).thread)
    /\ Goto(p, "command")
    /\ UNCHANGED fate

(* What is shown of a group names the author, whose chat gets a topic.     *)
(* A notice of the group itself names nobody, and brings the card of the   *)
(* chat up to date.                                                        *)
IsNotice(e) == e.kind = "create" /\ e.ver.kind = "wa.system"

NamesAuthor(e) == /\ e.author # Nobody
                  /\ e.kind \in {"create", "edit"}
                  /\ ~IsNotice(e)

(* The handler goes on, whatever came of the topic or the card.            *)
BackFromAside(p) ==
    /\ pc[p] = "aside"
    /\ Arrived(p)
    /\ Leave(p)
    /\ Goto(p, "plan")
    /\ UNCHANGED <<chat, forum, card, faults, fate>>

(* Mutant: the handler does not wait for the command.                      *)
CommandedAtOnce(p) ==
    /\ pc[p] = "command"
    /\ Leave(p)
    /\ EndsAs(p, "finish", "handled")
    /\ UNCHANGED <<chat, forum, card, faults>>

Commanded(p) ==
    /\ pc[p] = "command"
    /\ Arrived(p)
    /\ Leave(p)
    /\ EndsAs(p, "finish", "handled")
    /\ UNCHANGED <<chat, forum, card, faults>>

Walks(p) == WalkStep(p) /\ UNCHANGED inboxVars

-----------------------------------------------------------------------------
(* Looking up the message.                                                 *)

IsEcho(e) == e.kind = "create" /\ e.src # Origin[e.of]

Recorded(m) == message[m].copy \in {"live", "deleted"}

(* isKnownBridgeSend: the ids of the sends that this process has planned.  *)
IsKnownBridgeSend(p, m) == sender[m] = p

(* Mutant: the ids of the sends are not remembered.                        *)
KnownByPart(p, m) == Recorded(m)

(* isBridgeDispatched: the id is in memory, or its part is recorded as the *)
(* bridge's own.  MatchEcho, the third way, never finds anything: it asks  *)
(* for the actor and the digest of the event, and BeginSend reserves the   *)
(* JID of the chat and the digest of the Telegram message.                 *)
IsBridgeDispatched(p, m) == IsKnownBridgeSend(p, m) \/ Recorded(m)

PartKnown(e) == IF e.src = Origin[e.of] THEN message[e.of].known
                                        ELSE Recorded(e.of)

(* A live part on the other side.                                          *)
Counterpart(e) == IF e.src = Origin[e.of] THEN message[e.of].copy = "live"
                                          ELSE ~message[e.of].tomb

ToPlan(p) ==
    LET e == Job(p)
        named == NamesAuthor(e) /\ ~Active(e.author)
    IN  /\ UNCHANGED fate
        /\ \/ IsNotice(e) /\ Goto(p, "aside") /\ UpdateCard(p, e.chat)
           \/ named /\ Goto(p, "aside") /\ EnsureTopic(p, e.author)
           \/ /\ ~IsNotice(e) /\ ~named
              /\ Goto(p, "plan")
              /\ UNCHANGED <<topicVars, faults>>

LookCreate(p) ==
    /\ pc[p] = "look"
    /\ Job(p).kind = "create"
    /\ IF IsEcho(Job(p)) /\ IsBridgeDispatched(p, Job(p).of)
       THEN EndsAs(p, "finish", "echo") /\ UNCHANGED <<topicVars, faults>>
       ELSE ToPlan(p)

(* An edit, a revoke or a reaction waits for its message, and is done with *)
(* when the message is known and has nothing on the other side.  If an     *)
(* echo took the part, it is about a message that is not followed here.    *)
LookMutation(p) ==
    LET e == Job(p)
        taken == e.src # Origin[e.of] /\ message[e.of].copy = "taken"
    IN  /\ pc[p] = "look"
        /\ e.kind \in {"edit", "revoke", "reaction"}
        /\ \/ /\ taken
              /\ EndsAs(p, "finish", "handled")
              /\ UNCHANGED <<topicVars, faults>>
           \/ /\ ~taken /\ ~PartKnown(e)
              /\ Goto(p, "defer")
              /\ UNCHANGED <<topicVars, faults, fate>>
           \/ /\ ~taken /\ PartKnown(e) /\ ~Counterpart(e)
              /\ EndsAs(p, "finish", "unmapped")
              /\ UNCHANGED <<topicVars, faults>>
           \/ ~taken /\ PartKnown(e) /\ Counterpart(e) /\ ToPlan(p)

(* A Telegram edit is not passed on when its message is buried by then, or *)
(* a quarter of an hour old.                                               *)
TooLate(p) ==
    /\ pc[p] = "look"
    /\ Job(p).kind = "edit" /\ Job(p).src = "telegram"
    /\ PartKnown(Job(p)) /\ Counterpart(Job(p))
    /\ EndsAs(p, "finish", "handled")
    /\ UNCHANGED <<topicVars, faults>>

-----------------------------------------------------------------------------
(* PlanEvent.                                                              *)

(* Mutant: the lease stays in the row.                                     *)
SettleKeepsLease(p, s) ==
    /\ state' = [state EXCEPT ![job[p]] = s]
    /\ Idles(p)
    /\ UNCHANGED <<owner, row, expired, ready>>

(* The row leaves the inbox, and the handler returns.                      *)
Settle(p, s) ==
    /\ state' = [state EXCEPT ![job[p]] = s]
    /\ owner' = [owner EXCEPT ![job[p]] = Nobody]
    /\ Idles(p)
    /\ UNCHANGED <<row, expired, ready>>

Becomes(p, f) == fate' = [fate EXCEPT ![job[p]] = f]

AtPlan(p) == pc[p] = "plan" /\ Holds(p)

Planned(p) ==
    /\ Settle(p, "done")
    /\ Becomes(p, "planned")
    /\ plans' = [plans EXCEPT ![job[p]] = @ + 1]
    /\ UNCHANGED <<topicVars, faults>>

(* The first that is heard of a message.  recordBridgeSend comes before    *)
(* the plan of what will be sent to WhatsApp.                              *)
PlanCreate(p) ==
    LET e == Job(p)
    IN  /\ AtPlan(p)
        /\ e.kind = "create" /\ ~IsEcho(e) /\ ~PartKnown(e)
        /\ message' = [message EXCEPT ![e.of] =
                         [@ EXCEPT !.known = TRUE, !.out = "planned",
                                   !.own = e.ver, !.other = e.ver,
                                   !.effective = e.ver]]
        /\ sender' = IF e.src = "telegram" THEN [sender EXCEPT ![e.of] = p]
                                           ELSE sender
        /\ Planned(p)

(* An echo that is not recognised becomes a message of its own, which has  *)
(* the part that the copy of the first was to have.                        *)
PlanEcho(p) ==
    LET e == Job(p)
    IN  /\ AtPlan(p)
        /\ e.kind = "create" /\ IsEcho(e) /\ ~PartKnown(e)
        /\ message' = [message EXCEPT ![e.of].copy = "taken"]
        /\ UNCHANGED sender
        /\ Planned(p)

PartVersion(e) == IF e.src = Origin[e.of] THEN message[e.of].own
                                          ELSE message[e.of].other

(* What applySource says of an event whose part it knows.                  *)
Judgement(e) ==
    LET m == message[e.of]
    IN  IF e.kind = "revoke" THEN "apply"
        ELSE IF m.tomb THEN "stale"
        ELSE IF e.kind = "reaction" THEN "pass"
        ELSE JudgeBoth(e.ver, PartVersion(e), m.effective)

WithVersion(m, e) ==
    IF e.src = Origin[e.of] THEN [m EXCEPT !.own = e.ver, !.effective = e.ver]
                            ELSE [m EXCEPT !.other = e.ver, !.effective = e.ver]

Buried(m) == [m EXCEPT !.tomb = TRUE,
                       !.copy = IF @ = "live" THEN "deleted" ELSE @]

PlanKnown(p) ==
    LET e == Job(p)
    IN  /\ AtPlan(p)
        /\ PartKnown(e)
        /\ Judgement(e) \in {"apply", "pass"}
        /\ message' =
             IF Judgement(e) = "pass" THEN message
             ELSE [message EXCEPT ![e.of] =
                     IF e.kind = "revoke" THEN Buried(WithVersion(@, e))
                                          ELSE WithVersion(@, e)]
        /\ UNCHANGED sender
        /\ Planned(p)

(* A stale event is done with, and nothing is sent.                        *)
PlanStale(p) ==
    /\ AtPlan(p)
    /\ PartKnown(Job(p))
    /\ Judgement(Job(p)) = "stale"
    /\ Settle(p, "done")
    /\ Becomes(p, "suppressed")
    /\ UNCHANGED <<topicVars, faults, message, sender, plans>>

(* The transaction is refused: two versions that nothing orders, a lost    *)
(* lease, a full outbox, a busy database.  The handler returns the error,  *)
(* and the loop takes no notice of it but to wait.                         *)
PlanRefused(p) ==
    /\ pc[p] = "plan"
    /\ \/ ~Holds(p) /\ UNCHANGED faults
       \/ PartKnown(Job(p)) /\ Judgement(Job(p)) = "conflict" /\ UNCHANGED faults
       \/ Fault
    /\ Idles(p)
    /\ UNCHANGED <<topicVars, rowVars, message, sender, fate, plans>>

-----------------------------------------------------------------------------
(* The other ends.                                                         *)

(* completeInbox: the row is done; if that cannot be written, it is put    *)
(* aside; if that cannot be written either, it stays leased.               *)
Finish(p) ==
    /\ pc[p] = "finish"
    /\ \/ Holds(p) /\ Settle(p, "done") /\ UNCHANGED faults
       \/ Holds(p) /\ Settle(p, "quarantined") /\ Fault
       \/ /\ Idles(p)
          /\ UNCHANGED rowVars
          /\ IF Holds(p) THEN Fault ELSE UNCHANGED faults
    /\ UNCHANGED <<topicVars, message, sender, fate, plans>>

DeferInbox(p) ==
    /\ pc[p] = "defer"
    /\ \/ /\ Holds(p)
          /\ state' = [state EXCEPT ![job[p]] = "pending"]
          /\ owner' = [owner EXCEPT ![job[p]] = Nobody]
          /\ ready' = [ready EXCEPT ![job[p]] = FALSE]
          /\ UNCHANGED <<row, expired, faults>>
       \/ /\ UNCHANGED rowVars
          /\ IF Holds(p) THEN Fault ELSE UNCHANGED faults
    /\ Idles(p)
    /\ UNCHANGED <<topicVars, message, sender, fate, plans>>

Working(i) == \E p \in Process : job[p] = i /\ owner[i] = p

(* A handler seldom takes longer than its lease.                           *)
ExpireLease(i) ==
    /\ state[i] = "leased" /\ ~expired[i]
    /\ IF Working(i) THEN Fault ELSE UNCHANGED faults
    /\ expired' = [expired EXCEPT ![i] = TRUE]
    /\ UNCHANGED <<topicVars, row, state, owner, ready, message, sender, pc,
                   job, fate, plans>>

(* RecoverExpiredLeases, which the processes run every half minute.        *)
RecoverExpiredLeases ==
    /\ \E i \in Id : expired[i]
    /\ state' = [i \in Id |-> IF expired[i] THEN "pending" ELSE state[i]]
    /\ owner' = [i \in Id |-> IF expired[i] THEN Nobody ELSE owner[i]]
    /\ expired' = [i \in Id |-> FALSE]
    /\ UNCHANGED <<topicVars, faults, row, ready, message, sender, pc, job,
                   fate, plans>>

BecomeReady(i) ==
    /\ state[i] = "pending" /\ ~ready[i]
    /\ ready' = [ready EXCEPT ![i] = TRUE]
    /\ UNCHANGED <<topicVars, faults, row, state, owner, expired, message,
                   sender, pc, job, fate, plans>>

-----------------------------------------------------------------------------
(* What becomes of the creates, as far as the handlers can see it.  Outbox *)
(* tells the whole of it.                                                  *)

Out(m, from, to) ==
    /\ message[m].out = from
    /\ message' = [message EXCEPT ![m].out = to]
    /\ UNCHANGED <<topicVars, rowVars, sender, pc, job, fate, plans>>

BeginSend(m) == Out(m, "planned", "sending") /\ UNCHANGED faults

LoseCreate(m) == Out(m, "sending", "lost") /\ Fault

(* CompleteDelivery records the copy, unless its part is another's.        *)
CompleteCreate(m) ==
    /\ message[m].out = "sending"
    /\ message' = [message EXCEPT ![m] =
                     IF @.copy = "taken" THEN [@ EXCEPT !.out = "lost"]
                     ELSE [@ EXCEPT !.out = "done",
                                    !.copy = IF message[m].tomb THEN "deleted"
                                                                ELSE "live"]]
    /\ UNCHANGED <<topicVars, faults, rowVars, sender, pc, job, fate, plans>>

(* The process dies, forgets what it knew, and starts again.               *)
Crash(p) ==
    /\ Fault
    /\ walk' = [walk EXCEPT ![p] = Resting]
    /\ sender' = [m \in Message |-> IF sender[m] = p THEN Nobody ELSE sender[m]]
    /\ Idles(p)
    /\ UNCHANGED <<chat, forum, card, rowVars, message, fate, plans>>

-----------------------------------------------------------------------------
Handle(p) ==
    \/ RouteWhatsApp(p) \/ RouteTelegram(p) \/ Command(p) \/ Reached(p)
    \/ BackFromAside(p) \/ Commanded(p) \/ Walks(p)
    \/ LookCreate(p) \/ LookMutation(p) \/ TooLate(p)
    \/ PlanCreate(p) \/ PlanEcho(p) \/ PlanKnown(p) \/ PlanStale(p)
    \/ PlanRefused(p) \/ Finish(p) \/ DeferInbox(p)

Next ==
    \/ \E e \in Event : Accept(e)
    \/ \E p \in Process : Handle(p) \/ Crash(p) \/ \E i \in Id : ClaimInbox(p, i)
    \/ \E i \in Id : ExpireLease(i) \/ BecomeReady(i)
    \/ RecoverExpiredLeases
    \/ \E m \in Message : BeginSend(m) \/ LoseCreate(m) \/ CompleteCreate(m)

Spec == InboxInit /\ [][Next]_vars

(* The loop claims as long as there is work; a row that is put off makes   *)
(* room for the others for RetryBase, in which the loop comes round, so    *)
(* that a row that can be claimed over and over is claimed in the end.     *)
Fairness ==
    /\ \A p \in Process : WF_vars(Handle(p))
    /\ \A i \in Id : SF_vars(\E p \in Process : ClaimInbox(p, i))
    /\ \A i \in Id : WF_vars(ExpireLease(i)) /\ WF_vars(BecomeReady(i))
    /\ WF_vars(RecoverExpiredLeases)

FairSpec == Spec /\ Fairness

-----------------------------------------------------------------------------
(* However often a lease lapses under a handler, a row is given to another *)
(* process, or a process dies: what an event asks for is planned once      *)
(* (ClaimInbox, PlanEvent, RecoverExpiredLeases).                          *)
PlannedOnce == \A i \in Id : plans[i] <= 1

(* A message that is not deleted only ever moves to a later version of     *)
(* itself, in whatever order the events of its two sides are admitted, put *)
(* off, claimed and planned (applySource, SourceVersion.Compare).  Only an *)
(* edit on the phone may come without a time, and then has the number 0,   *)
(* which is neither earlier nor later than any.                            *)
VersionsAdvance ==
    [][\A m \in Message :
         LET old == message[m].effective
             new == message'[m].effective
         IN  message[m].known /\ ~message'[m].tomb
             /\ new # old /\ new.order > 0 /\ old.order > 0
               => new.order > old.order]_vars

(* A process that has planned a message does not take its echo for a new   *)
(* one as long as it lives, be the send complete, uncertain or still on    *)
(* its way (recordBridgeSend, isBridgeDispatched).                         *)
EchoStopsHere ==
    [][\A i \in DOMAIN row :
         IsEcho(row[i]) /\ plans'[i] > plans[i]
           => sender[row[i].of] # owner[i]]_vars

(* A message from WhatsApp is not passed over for want of a topic, unless  *)
(* something failed, or another process was making the topic at that time, *)
(* or an operator gave the one that was just made to another chat          *)
(* (handleWhatsAppEvent, EnsureTopic, handleBind).                         *)
PassedOver(j) == {i \in DOMAIN row : /\ row[i].src = "whatsapp"
                                     /\ row[i].chat = j
                                     /\ fate[i] = "unrouted"}

TakenFrom(j) == {t \in DOMAIN forum : /\ forum[t] = j
                                      /\ BoundTo(t) # {} /\ j \notin BoundTo(t)}

MessagesFindTheirTopic ==
    \A j \in Chat :
        Cardinality(PassedOver(j)) <=
          faults + Cardinality(TakenFrom(j)) + Cardinality(Process) - 1

(* What the handlers do with chats, topics and cards is what Topics says,  *)
(* so what holds there holds here: a handler begins no second walk, and    *)
(* leaves none half way but by a crash (StepInbox, EnsureTopic).           *)
WalksAsTopics == TopicsSpec

(* A row that comes back again and again: its message is not known, or two *)
(* versions of it have come that nothing orders.                           *)
Clashing(m) ==
    \E i, k \in DOMAIN row : /\ row[i].of = m /\ row[k].of = m
                             /\ row[i].ver # row[k].ver
                             /\ row[i].ver.kind = row[k].ver.kind
                             /\ row[i].ver.order = row[k].ver.order

Waiting(i) == /\ row[i].kind \in {"edit", "revoke", "reaction"}
              /\ ~PartKnown(row[i])

Returns(i) == row[i].of # Nobody /\ (Waiting(i) \/ Clashing(row[i].of))

Unsettled == {i \in DOMAIN row : state[i] \in {"pending", "leased"}}

Returning == {i \in Unsettled : Returns(i)}

(* Everything else is handled in the end, though handlers die, leases      *)
(* lapse and rows are put aside, and though one row comes back for ever.   *)
(* Two that do can keep the loop from all that came later, if RetryBase is *)
(* shorter than a round (RunInboxLoop, ClaimInbox, DeferInbox).            *)
EventsSettle ==
    <>[](Unsettled = Returning \/ Cardinality(Returning) > 1)

(* As SUPPORT_MATRIX.md has it, versions of Telegram are ordered by edit   *)
(* date and update id, and what cannot be ordered is put aside: no row     *)
(* comes back for ever.                                                    *)
EveryRowEnds == <>[](Unsettled = {})

=============================================================================
