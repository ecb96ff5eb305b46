------------------------------- MODULE Outbox -------------------------------
(***************************************************************************)
(* The outbox of the bridge: the table bridge_outbox, the transactions of  *)
(* internal/store that write it, the planners of internal/coordinator that *)
(* fill it and the delivery loop that drains it through the two adapters.  *)
(*                                                                         *)
(* Every transaction of the store is one action: SQLite runs them          *)
(* BEGIN IMMEDIATE, one at a time.  What happens between two transactions  *)
(* of one goroutine is not atomic: the delivery loop claims a row, begins  *)
(* the send, calls the adapter once per chunk and only then records the    *)
(* outcome, and every other actor may move in each of those gaps.          *)
(*                                                                         *)
(* Abstractions.  A lease token is random, and a worker holds one lease at *)
(* a time, so the token of a row is the worker that drew it.  Time is the  *)
(* flag "expired" of a lease and the flag "ready" of a postponed row.      *)
(* Chats stay active in one topic generation and no row depends on another *)
(* by depends_on_id: nothing in the program writes those columns after the *)
(* topic is bound (SetChatState, CompleteTopicDelivery and the topic.*     *)
(* operations have no caller).  Payloads are left out; of a message's      *)
(* version only the order in which versions became effective matters.      *)
(***************************************************************************)
EXTENDS Integers, FiniteSets

CONSTANTS
    Workers,          \* delivery loops over one database
    Nobody,           \* the owner of a row that is not leased
    Message,          \* logical messages (bridge_message)
    MaxRows,          \* bound: rows ever inserted
    MaxChunks,        \* bound: requests one message.create is split into
    MaxOutboxCount,   \* store.Options.MaxOutboxCount
    MaxFaults,        \* bound: crashes, lost answers, storage failures, ...
    MutationHooks     \* are whatsapp.Options.LookupMessage and OperationTime set

ASSUME WorkersAssumption == Nobody \notin Workers
ASSUME BoundsAssumption ==
    /\ MaxRows \in Nat
    /\ MaxChunks \in Nat \ {0}
    /\ MaxOutboxCount \in Nat
    /\ MaxFaults \in Nat
ASSUME HooksAssumption == MutationHooks \in BOOLEAN

Id       == 1..MaxRows
Platform == {"telegram", "whatsapp"}
Kind     == {"create", "edit", "revoke", "reaction"}

(* Requests of a row are numbered: 0, 1, ... for the operation itself and  *)
(* the last number for the notice that replaces a refused edit or revoke.  *)
Notice == MaxChunks
Call   == 0..MaxChunks

Row   == [kind : Kind, of : Message, on : Platform, mine : BOOLEAN,
          ver : Nat, calls : 1..MaxChunks]
NoRow == [kind |-> "none", of |-> Nobody, on |-> "none", mine |-> FALSE,
          ver |-> 0, calls |-> 0]

RowState == {"none", "pending", "leased", "sending", "succeeded",
             "uncertain", "blocked", "dead", "superseded"}
Settled  == {"succeeded", "dead", "superseded"}

Verdict == {"none", "pending", "succeeded", "uncertain", "blocked", "dead"}

(* Adapter error classes.  "transient" stands for rate_limited too, and    *)
(* "permanent" for conflict: both pairs take the same branches.            *)
ErrorClass == {"transient", "permission", "permanent", "uncertain"}

VARIABLES
    lastId,    \* rows inserted so far; ids are 1..lastId
    row,       \* Id -> what the row asks for (payload columns)
    state,     \* Id -> bridge_outbox.state
    owner,     \* Id -> worker whose token is in lease_token, or Nobody
    expired,   \* Id -> lease_until_ms has passed
    ready,     \* Id -> available_at_ms has passed
    started,   \* Id -> send_started_at_ms is set
    message,   \* Message -> effective state of the message and of its copy
    reading,   \* what the inbox loop has read and not yet planned
    pc,        \* Workers -> where the worker is in StepDelivery
    job,       \* Workers -> the row it works on
    at,        \* Workers -> the request it is at
    verdict,   \* Workers -> the outcome it is about to record
    issued,    \* Id -> Call -> requests handed to the platform
    flight,    \* requests the platform has neither applied nor dropped
    applied,   \* requests the platform has carried out
    faults     \* faults so far

rows    == <<lastId, row, state, owner, expired, ready, started>>
loop    == <<pc, job, at, verdict>>
network == <<issued, flight, applied>>
vars    == <<rows, message, reading, loop, network, faults>>

NotRead == [kind |-> "none", of |-> Nobody]

(* A message the store does not know has version 0.  "copy" is the part of *)
(* the message on the other platform: not there yet, live, or deleted.     *)
Unknown == [ver |-> 0, origin |-> "telegram", tomb |-> FALSE,
            copy |-> "none", parts |-> 1, timer |-> FALSE]

RowsOK ==
    /\ lastId \in 0..MaxRows
    /\ row \in [Id -> Row \cup {NoRow}]
    /\ state \in [Id -> RowState]
    /\ owner \in [Id -> Workers \cup {Nobody}]
    /\ expired \in [Id -> BOOLEAN]
    /\ ready \in [Id -> BOOLEAN]
    /\ started \in [Id -> BOOLEAN]

MessageState == [ver : Nat, origin : Platform, tomb : BOOLEAN,
                 copy : {"none", "live", "deleted"},
                 parts : 1..MaxChunks, timer : BOOLEAN]

PlannerOK ==
    /\ message \in [Message -> MessageState]
    /\ reading \in [kind : {"edit", "revoke", "reaction"}, of : Message]
                     \cup {NotRead}

PC == {"idle", "claimed", "call", "wait", "settle"}

LoopOK ==
    /\ pc \in [Workers -> PC]
    /\ job \in [Workers -> Id \cup {0}]
    /\ at \in [Workers -> Call]
    /\ verdict \in [Workers -> Verdict]
    /\ \A w \in Workers : pc[w] # "idle" <=> job[w] # 0
    /\ \A w \in Workers : pc[w] = "settle" => verdict[w] # "none"

NetworkOK ==
    /\ issued \in [Id -> [Call -> Nat]]
    /\ flight \subseteq Id \X Call
    /\ applied \subseteq Id \X Call

(* The types; a worker has a row unless it is idle, and an outcome when it *)
(* comes to record one.                                                    *)
TypeOK ==
    /\ RowsOK
    /\ PlannerOK
    /\ LoopOK
    /\ NetworkOK
    /\ faults \in 0..MaxFaults

Init ==
    /\ lastId = 0
    /\ row = [i \in Id |-> NoRow]
    /\ state = [i \in Id |-> "none"]
    /\ owner = [i \in Id |-> Nobody]
    /\ expired = [i \in Id |-> FALSE]
    /\ ready = [i \in Id |-> TRUE]
    /\ started = [i \in Id |-> FALSE]
    /\ message = [m \in Message |-> Unknown]
    /\ reading = NotRead
    /\ pc = [w \in Workers |-> "idle"]
    /\ job = [w \in Workers |-> 0]
    /\ at = [w \in Workers |-> 0]
    /\ verdict = [w \in Workers |-> "none"]
    /\ issued = [i \in Id |-> [k \in Call |-> 0]]
    /\ flight = {}
    /\ applied = {}
    /\ faults = 0

Fault == faults < MaxFaults /\ faults' = faults + 1

-----------------------------------------------------------------------------
(* Planning: transactions that insert rows and supersede rows.             *)

Unresolved == {i \in Id : state[i] \notin Settled \cup {"none"}}

(* Mutants: rows whose send may have begun, rows that nobody has claimed.  *)
UnsettledOf(m, kinds) ==
    {i \in Unresolved : row[i].of = m /\ row[i].kind \in kinds}
QueuedOf(m, kinds) ==
    {i \in Id : state[i] = "pending" /\ row[i].of = m /\ row[i].kind \in kinds}

(* Rows of m, of the given kinds, whose send has not begun.                *)
Unsent(m, kinds) ==
    {i \in Id : /\ state[i] \in {"pending", "leased"}
                /\ ~started[i]
                /\ row[i].of = m
                /\ row[i].kind \in kinds}

(* Insert n rows r and supersede the rows of cancel, in one transaction.   *)
Put(n, r, cancel) ==
    LET new == (lastId + 1)..(lastId + n)
    IN  /\ lastId + n <= MaxRows
        /\ lastId' = lastId + n
        /\ row' = [i \in Id |-> IF i \in new THEN r ELSE row[i]]
        /\ state' = [i \in Id |-> IF i \in new THEN "pending"
                                  ELSE IF i \in cancel THEN "superseded"
                                  ELSE state[i]]
        /\ owner' = [i \in Id |-> IF i \in cancel THEN Nobody ELSE owner[i]]
        /\ expired' = [i \in Id |-> expired[i] /\ i \notin cancel]
        /\ UNCHANGED <<ready, started>>

(* insertDelivery refuses a row, and with it the whole transaction, when   *)
(* the rows that are not settled reach the limit.                          *)
Room(n, cancel) == Cardinality(Unresolved \ cancel) + n <= MaxOutboxCount

Other(p) == IF p = "telegram" THEN "whatsapp" ELSE "telegram"

(* A new message is planned as one create on the other platform, with the  *)
(* disappearing-message timer of the chat if it has one.                   *)
PlanCreate(m) ==
    /\ message[m].ver = 0
    /\ Room(1, {})
    /\ \E p \in Platform, n \in 1..MaxChunks, t \in BOOLEAN :
         /\ message' = [message EXCEPT ![m] =
                          [ver |-> 1, origin |-> p, tomb |-> FALSE,
                           copy |-> "none", parts |-> 1, timer |-> t]]
         /\ Put(1, [kind |-> "create", of |-> m, on |-> Other(p), mine |-> TRUE,
                    ver |-> 1, calls |-> n], {})
    /\ UNCHANGED <<reading, loop, network, faults>>

(* The handler of an edit, a revoke or a reaction reads the parts first    *)
(* and gives the event up unless it finds a live counterpart to aim at.    *)
ReadParts(m) ==
    /\ reading = NotRead
    /\ message[m].copy = "live"
    /\ \E k \in {"edit", "revoke", "reaction"} :
         reading' = [kind |-> k, of |-> m]
    /\ UNCHANGED <<rows, message, loop, network, faults>>

(* Where an operation on m goes.  The author's own event is aimed at the   *)
(* bridge's copy.  From the other side only WhatsApp events get through:   *)
(* they are aimed at the original Telegram message, which the bridge does  *)
(* not own.  No reaction comes out of Telegram (its kind is quarantined).  *)
Aim(m, kind) ==
    LET o == message[m].origin
    IN  {a \in {[on |-> Other(o), mine |-> TRUE], [on |-> o, mine |-> FALSE]} :
           \/ a.on = "telegram"
           \/ a.mine /\ kind # "reaction"}

(* Mutant: the tombstone is not looked at.                                 *)
NotSuppressed(m) == FALSE

(* A tombstone silences every later event but a revoke.                    *)
Suppressed(m) == message[m].tomb

PlanEdit(m) ==
    /\ reading = [kind |-> "edit", of |-> m]
    /\ reading' = NotRead
    /\ LET old == Unsent(m, {"edit"})
       IN  \/ Suppressed(m) /\ UNCHANGED <<rows, message>>
           \/ /\ ~Suppressed(m)
              /\ Room(1, old)
              /\ message' = [message EXCEPT ![m].ver = @ + 1]
              /\ \E a \in Aim(m, "edit") :
                   Put(1, [kind |-> "edit", of |-> m, on |-> a.on,
                           mine |-> a.mine, ver |-> message[m].ver + 1,
                           calls |-> 1], old)
    /\ UNCHANGED <<loop, network, faults>>

PlanReaction(m) ==
    /\ reading = [kind |-> "reaction", of |-> m]
    /\ reading' = NotRead
    /\ \/ Suppressed(m) /\ UNCHANGED rows
       \/ /\ ~Suppressed(m)
          /\ Room(1, {})
          /\ \E a \in Aim(m, "reaction") :
               Put(1, [kind |-> "reaction", of |-> m, on |-> a.on,
                       mine |-> a.mine, ver |-> message[m].ver,
                       calls |-> 1], {})
    /\ UNCHANGED <<message, loop, network, faults>>

(* The message with a tombstone, at version v: its parts are all deleted.  *)
Bury(rec, v) ==
    [ver |-> v, origin |-> rec.origin, tomb |-> TRUE,
     copy |-> IF rec.copy = "none" THEN "none" ELSE "deleted",
     parts |-> rec.parts, timer |-> FALSE]

PlanRevoke(m) ==
    /\ reading = [kind |-> "revoke", of |-> m]
    /\ reading' = NotRead
    /\ LET old == Unsent(m, {"create", "edit", "reaction"})
       IN  /\ Room(1, old)
           /\ message' = [message EXCEPT ![m] = Bury(@, message[m].ver + 1)]
           /\ \E a \in Aim(m, "revoke") :
                Put(1, [kind |-> "revoke", of |-> m, on |-> a.on,
                        mine |-> a.mine, ver |-> message[m].ver + 1,
                        calls |-> message[m].parts], old)
    /\ UNCHANGED <<loop, network, faults>>

(* The event is left leased (the planner failed, or the outbox was full)   *)
(* and will be read again.                                                 *)
GiveUpReading ==
    /\ reading # NotRead
    /\ reading' = NotRead
    /\ UNCHANGED <<rows, message, loop, network, faults>>

(* The timer of a message fires: CompleteTimer tombstones it and, if its   *)
(* copy is there, plans one revoke per part.  The rows are inserted before *)
(* the old ones are superseded, so these still count against the limit.    *)
TimerExpire(m) ==
    /\ message[m].timer /\ message[m].ver = 1 /\ ~message[m].tomb
    /\ LET n   == IF message[m].copy = "live" THEN message[m].parts ELSE 0
           old == Unsent(m, {"create", "edit", "reaction"})
       IN  /\ Room(n, {})
           /\ Put(n, [kind |-> "revoke", of |-> m,
                      on |-> Other(message[m].origin), mine |-> TRUE,
                      ver |-> 1, calls |-> message[m].parts], old)
    /\ message' = [message EXCEPT ![m] = Bury(@, message[m].ver)]
    /\ UNCHANGED <<reading, loop, network, faults>>

(* The /del command is a reply to a message in the topic: it tombstones    *)
(* the message and plans nothing.                                          *)
AdminDelete(m) ==
    /\ message[m].ver > 0
    /\ message[m].origin = "telegram" \/ message[m].copy # "none"
    /\ Put(0, NoRow, Unsent(m, {"create", "edit", "reaction"}))
    /\ message' = [message EXCEPT ![m] = Bury(@, message[m].ver)]
    /\ UNCHANGED <<reading, loop, network, faults>>

-----------------------------------------------------------------------------
(* The store side of a delivery.                                           *)

(* Mutants: an unanswered row does not hold its message back; a row holds  *)
(* back other messages too.                                                *)
OvertakesLive(i) ==
    \E j \in Id \ {i} : /\ row[j].of = row[i].of
                        /\ state[j] \in {"pending", "leased", "sending"}
                        /\ j < i \/ state[j] \in {"leased", "sending"}
OvertakesAny(i) ==
    \E j \in Id \ {i} :
        /\ state[j] \in {"pending", "leased", "sending", "uncertain", "blocked"}
        /\ j < i \/ state[j] \in {"leased", "sending", "uncertain"}

(* The condition of ClaimDelivery's query on the other rows of a message.  *)
Overtakes(i) ==
    \E j \in Id \ {i} :
        /\ row[j].of = row[i].of
        /\ state[j] \in {"pending", "leased", "sending", "uncertain", "blocked"}
        /\ j < i \/ state[j] \in {"leased", "sending", "uncertain"}

Eligible(i) == state[i] = "pending" /\ ready[i] /\ ~Overtakes(i)

(* Mutant: an outcome is recorded whoever holds the row.                   *)
HoldsUnfenced(w, states) == ~expired[job[w]]

(* The fence of every transaction on a lease.                              *)
Holds(w, states) ==
    /\ state[job[w]] \in states
    /\ owner[job[w]] = w
    /\ ~expired[job[w]]

(* Worker w lets go of row i, which takes the state s.                     *)
Release(i, s) ==
    /\ state' = [state EXCEPT ![i] = s]
    /\ owner' = [owner EXCEPT ![i] = Nobody]

ClaimDelivery(w) ==
    /\ pc[w] = "idle"
    /\ \E i \in Id :
         /\ Eligible(i)
         /\ \A j \in 1..(i - 1) : ~Eligible(j)
         /\ state' = [state EXCEPT ![i] = "leased"]
         /\ owner' = [owner EXCEPT ![i] = w]
         /\ expired' = [expired EXCEPT ![i] = FALSE]
         /\ job' = [job EXCEPT ![w] = i]
    /\ pc' = [pc EXCEPT ![w] = "claimed"]
    /\ at' = [at EXCEPT ![w] = 0]
    /\ verdict' = [verdict EXCEPT ![w] = "none"]
    /\ UNCHANGED <<lastId, row, ready, started, message, reading, network, faults>>

(* Worker w has made up its mind about its row.                            *)
Decide(w, v) ==
    /\ pc' = [pc EXCEPT ![w] = "settle"]
    /\ verdict' = [verdict EXCEPT ![w] = v]
    /\ UNCHANGED <<job, at>>

(* WhatsApp is not connected: the row goes back to the queue for later.    *)
NotConnected(w) ==
    /\ pc[w] = "claimed"
    /\ row[job[w]].on = "whatsapp"
    /\ Fault
    /\ Decide(w, "pending")
    /\ UNCHANGED <<rows, message, reading, network>>

(* The checks of BeginSend on the message and on the target part.          *)
Valid(i) ==
    LET r == row[i]
        m == message[r.of]
    IN  CASE r.kind = "create"   -> ~m.tomb /\ m.ver >= r.ver
          [] r.kind = "reaction" -> ~m.tomb /\ m.copy = "live"
          [] r.kind = "edit"     -> /\ ~m.tomb /\ m.copy = "live"
                                    /\ m.ver = r.ver
                                    /\ r.on = "whatsapp" => r.mine
          [] r.kind = "revoke"   -> m.ver = r.ver /\ r.mine

BeginSend(w) ==
    /\ pc[w] = "claimed"
    /\ Holds(w, {"leased"})
    /\ Valid(job[w])
    /\ state' = [state EXCEPT ![job[w]] = "sending"]
    /\ started' = [started EXCEPT ![job[w]] = TRUE]
    /\ pc' = [pc EXCEPT ![w] = "call"]
    /\ UNCHANGED <<lastId, row, owner, expired, ready, message, reading,
                   job, at, verdict, network, faults>>

(* Any error of BeginSend, a lost lease and a busy database included, is   *)
(* not an adapter error and is recorded as permanent.                      *)
BeginSendFails(w) ==
    /\ pc[w] = "claimed"
    /\ \/ ~(Holds(w, {"leased"}) /\ Valid(job[w])) /\ UNCHANGED faults
       \/ Fault
    /\ Decide(w, "dead")
    /\ UNCHANGED <<rows, message, reading, network>>

(* The worker is done with its row and goes round the loop.                *)
Rest(w) ==
    /\ pc' = [pc EXCEPT ![w] = "idle"]
    /\ job' = [job EXCEPT ![w] = 0]
    /\ at' = [at EXCEPT ![w] = 0]
    /\ verdict' = [verdict EXCEPT ![w] = "none"]

(* A create makes the copy known, as deleted if the message was buried     *)
(* meanwhile; a revoke marks the parts on its platform deleted.            *)
Recorded(i) ==
    LET r == row[i]
        m == message[r.of]
    IN  CASE r.kind = "create" ->
               [message EXCEPT ![r.of] =
                  [m EXCEPT !.copy = IF m.tomb THEN "deleted" ELSE "live",
                            !.parts = r.calls]]
          [] r.kind = "revoke" -> [message EXCEPT ![r.of].copy = "deleted"]
          [] OTHER -> message

CompleteDelivery(w) ==
    /\ pc[w] = "settle" /\ verdict[w] = "succeeded"
    /\ \/ /\ Holds(w, {"sending"})
          /\ Release(job[w], "succeeded")
          /\ message' = Recorded(job[w])
       \/ /\ ~Holds(w, {"sending"})                    \* ErrLeaseLost
          /\ UNCHANGED <<state, owner, message>>
    /\ Rest(w)
    /\ UNCHANGED <<lastId, row, expired, ready, started, reading, network, faults>>

FailDelivery(w) ==
    /\ pc[w] = "settle" /\ verdict[w] # "succeeded"
    /\ LET i  == job[w]
           ok == /\ Holds(w, {"leased", "sending"})
                 /\ ~(started[i] /\ verdict[w] = "pending")
       IN  \/ /\ ok
              /\ Release(i, verdict[w])
              /\ ready' = [ready EXCEPT ![i] = (verdict[w] # "pending")]
           \/ ~ok /\ UNCHANGED <<state, owner, ready>>
    /\ Rest(w)
    /\ UNCHANGED <<lastId, row, expired, started, message, reading, network, faults>>

(* The database refuses the outcome; the row keeps its lease.              *)
OutcomeNotRecorded(w) ==
    /\ pc[w] = "settle"
    /\ Fault
    /\ Rest(w)
    /\ UNCHANGED <<rows, message, reading, network>>

(* A lease runs out.  Under a worker that still works on the row it does   *)
(* so only if the worker is slow, which is a fault.                        *)
Working(i) == \E w \in Workers : pc[w] # "idle" /\ job[w] = i /\ owner[i] = w

ExpireLease(i) ==
    /\ state[i] \in {"leased", "sending"} /\ ~expired[i]
    /\ IF Working(i) THEN Fault ELSE UNCHANGED faults
    /\ expired' = [expired EXCEPT ![i] = TRUE]
    /\ UNCHANGED <<lastId, row, state, owner, ready, started, message, reading,
                   loop, network>>

(* Mutant: a lapsed row is always put back into the queue.                 *)
RequeuedAnyway(i) == "pending"

(* What becomes of a row whose lease has lapsed.                           *)
AfterLease(i) == IF started[i] THEN "uncertain" ELSE "pending"

RecoverExpiredLeases ==
    LET lapsed == {i \in Id : state[i] \in {"leased", "sending"} /\ expired[i]}
    IN  /\ lapsed # {}
        /\ state' = [i \in Id |-> IF i \in lapsed THEN AfterLease(i) ELSE state[i]]
        /\ owner' = [i \in Id |-> IF i \in lapsed THEN Nobody ELSE owner[i]]
        /\ expired' = [i \in Id |-> expired[i] /\ i \notin lapsed]
        /\ UNCHANGED <<lastId, row, ready, started, message, reading, loop,
                       network, faults>>

BecomeReady(i) ==
    /\ ~ready[i]
    /\ ready' = [ready EXCEPT ![i] = TRUE]
    /\ UNCHANGED <<lastId, row, state, owner, expired, started, message, reading,
                   loop, network, faults>>

-----------------------------------------------------------------------------
(* The worker and the adapters: sendTelegram and sendWhatsApp.             *)

(* A Telegram edit or deletion needs a part that is the bridge's, and any  *)
(* change of a message a live one; else no request is made.                *)
Denied(i) ==
    LET r == row[i]
    IN  /\ r.on = "telegram"
        /\ \/ r.kind \in {"edit", "revoke"} /\ ~r.mine
           \/ r.kind # "create" /\ message[r.of].copy # "live"

(* Without its hooks the WhatsApp client refuses every mutation.           *)
Unhooked(i) == row[i].on = "whatsapp" /\ row[i].kind # "create" /\ ~MutationHooks

CanIssue(w) == at[w] = Notice \/ ~(Denied(job[w]) \/ Unhooked(job[w]))

Issue(w) ==
    /\ pc[w] = "call"
    /\ CanIssue(w)
    /\ pc' = [pc EXCEPT ![w] = "wait"]
    /\ issued' = [issued EXCEPT ![job[w]][at[w]] = @ + 1]
    /\ flight' = flight \cup {<<job[w], at[w]>>}
    /\ UNCHANGED <<rows, message, reading, job, at, verdict, applied, faults>>

(* Mutant: an unknown outcome is taken for a rejection.                    *)
VerdictOnKnown(class) ==
    CASE class = "transient" -> "uncertain"
      [] class = "permission" -> "blocked"
      [] class \in {"permanent", "uncertain"} -> "dead"

VerdictOn(class) ==
    CASE class \in {"transient", "uncertain"} -> "uncertain"
      [] class = "permission" -> "blocked"
      [] class = "permanent"  -> "dead"

(* An edit or a revoke on Telegram that failed otherwise than transiently  *)
(* is announced by a notice instead.                                       *)
FallsBack(w, class) ==
    /\ row[job[w]].on = "telegram"
    /\ row[job[w]].kind \in {"edit", "revoke"}
    /\ at[w] # Notice
    /\ class # "transient"

(* Mutant: a failed revoke returns an error that has not been set yet.     *)
VerdictOfLastError(w, class) ==
    IF row[job[w]].kind = "revoke" THEN verdict[w] ELSE VerdictOn(class)

(* When the notice for a revoke fails, the error of the deletion is what   *)
(* is returned.                                                            *)
FinalVerdict(w, class) ==
    IF row[job[w]].kind = "revoke" /\ at[w] = Notice THEN verdict[w]
    ELSE VerdictOn(class)

(* A request of w failed with the given class.                             *)
CallFails(w, class) ==
    \/ /\ FallsBack(w, class)
       /\ pc' = [pc EXCEPT ![w] = "call"]
       /\ at' = [at EXCEPT ![w] = Notice]
       /\ verdict' = [verdict EXCEPT ![w] = VerdictOn(class)]
       /\ UNCHANGED job
    \/ /\ ~FallsBack(w, class)
       /\ Decide(w, FinalVerdict(w, class))

(* An edit of a message that is not the bridge's is not even tried.        *)
Tried(w) == at[w] = Notice \/ row[job[w]].kind # "edit" \/ row[job[w]].mine

(* The adapter fails without a request: what it must refuse it refuses     *)
(* with a definite class; anything else (no identity yet, a flood wait cut *)
(* short, an invalid argument, a window that has closed) is a fault.       *)
Refuse(w) ==
    /\ pc[w] = "call"
    /\ \/ /\ ~CanIssue(w)
          /\ CallFails(w, IF row[job[w]].on = "whatsapp" THEN "permanent"
                          ELSE "permission")
          /\ UNCHANGED faults
       \/ /\ Tried(w)
          /\ Fault
          /\ \E class \in ErrorClass \ {"uncertain"} : CallFails(w, class)
    /\ UNCHANGED <<rows, message, reading, network>>

(* Mutant: the last chunk is forgotten.                                    *)
MoreButOne(w) == at[w] # Notice /\ at[w] + 2 < row[job[w]].calls

(* Is there another chunk to send?                                         *)
More(w) == at[w] # Notice /\ at[w] + 1 < row[job[w]].calls

(* The platform carried the request out and says so.                       *)
Answered(w) ==
    /\ pc[w] = "wait"
    /\ flight' = flight \ {<<job[w], at[w]>>}
    /\ applied' = applied \cup {<<job[w], at[w]>>}
    /\ \/ /\ More(w)
          /\ pc' = [pc EXCEPT ![w] = "call"]
          /\ at' = [at EXCEPT ![w] = @ + 1]
          /\ UNCHANGED <<job, verdict>>
       \/ ~More(w) /\ Decide(w, "succeeded")
    /\ UNCHANGED <<rows, message, reading, issued, faults>>

(* The platform rejects the request.                                       *)
Rejected(w) ==
    /\ pc[w] = "wait"
    /\ Fault
    /\ flight' = flight \ {<<job[w], at[w]>>}
    /\ \E class \in ErrorClass \ {"uncertain"} : CallFails(w, class)
    /\ UNCHANGED <<rows, message, reading, issued, applied>>

(* The answer is lost: the worker goes on, the request is still out there. *)
Lost(w) ==
    /\ pc[w] = "wait"
    /\ Fault
    /\ CallFails(w, "uncertain")
    /\ UNCHANGED <<rows, message, reading, network>>

(* The process of w dies and starts again.                                 *)
Crash(w) ==
    /\ pc[w] # "idle"
    /\ Fault
    /\ Rest(w)
    /\ UNCHANGED <<rows, message, reading, network>>

(* A request whose answer nobody waits for arrives after all, or never.    *)
Stray(c) == c \in flight /\ \A w \in Workers :
                ~(pc[w] = "wait" /\ job[w] = c[1] /\ at[w] = c[2])

Land(c) ==
    /\ Stray(c)
    /\ flight' = flight \ {c}
    /\ applied' = applied \cup {c}
    /\ UNCHANGED <<rows, message, reading, loop, issued, faults>>

Vanish(c) ==
    /\ Stray(c)
    /\ flight' = flight \ {c}
    /\ UNCHANGED <<rows, message, reading, loop, issued, applied, faults>>

-----------------------------------------------------------------------------
Plan ==
    \/ \E m \in Message : \/ PlanCreate(m) \/ ReadParts(m) \/ PlanEdit(m)
                          \/ PlanReaction(m) \/ PlanRevoke(m)
                          \/ TimerExpire(m) \/ AdminDelete(m)
    \/ GiveUpReading

(* The steps of RunDeliveryLoop.                                           *)
Step(w) ==
    \/ ClaimDelivery(w) \/ BeginSend(w) \/ BeginSendFails(w)
    \/ Issue(w) \/ Refuse(w) \/ Answered(w)
    \/ CompleteDelivery(w) \/ FailDelivery(w)

Trouble(w) ==
    NotConnected(w) \/ Rejected(w) \/ Lost(w) \/ OutcomeNotRecorded(w) \/ Crash(w)

Clock == RecoverExpiredLeases \/ \E i \in Id : ExpireLease(i) \/ BecomeReady(i)

Network == \E c \in flight : Land(c) \/ Vanish(c)

Next == Plan \/ (\E w \in Workers : Step(w) \/ Trouble(w)) \/ Clock \/ Network

Spec == Init /\ [][Next]_vars

(* The delivery loop never stops while the process lives, the recovery     *)
(* ticker runs every 30 seconds, time passes, and an HTTP request or a     *)
(* WhatsApp send returns within the client's own timeout.                  *)
Fairness ==
    /\ \A w \in Workers : WF_vars(Step(w))
    /\ WF_vars(RecoverExpiredLeases)
    /\ \A i \in Id : WF_vars(ExpireLease(i)) /\ WF_vars(BecomeReady(i))

FairSpec == Spec /\ Fairness

-----------------------------------------------------------------------------
(* Safety.                                                                 *)

(* No request is ever made twice: neither a crash after the request, nor a *)
(* lease that lapses under a slow worker, nor a second worker makes the    *)
(* bridge post a chunk, an edit or a notice again (BeginSend, FailDelivery *)
(* and RecoverExpiredLeases never lead a begun row back to the queue).     *)
AtMostOnce == \A i \in Id, k \in Call : issued[i][k] <= 1

(* A row is taken up only when every earlier row of its message is done    *)
(* for good; one whose outcome is unknown holds the later ones back, over  *)
(* any number of crashes, retries and recoveries (ClaimDelivery).          *)
NoOvertaking ==
    \A i, j \in Id :
        /\ i < j
        /\ row[i].of = row[j].of
        /\ state[j] \notin {"none", "pending", "superseded"}
        => state[i] \in Settled

(* A row that the store says was not sent was not sent: what goes back to  *)
(* the queue or is superseded has no request out (PlanEvent, CompleteTimer *)
(* and TombstoneMessage supersede only what BeginSend has not marked).     *)
UnsentMeansUnsent ==
    \A i \in Id : state[i] \in {"none", "pending", "leased", "superseded"}
                    => \A k \in Call : issued[i][k] = 0

(* A create recorded as succeeded has had all its chunks carried out, and  *)
(* its copy is known to the store (sendTelegram, CompleteDelivery).        *)
DeliveredInFull ==
    \A i \in Id : state[i] = "succeeded" /\ row[i].kind = "create"
        => /\ \A k \in 0..(row[i].calls - 1) : <<i, k>> \in applied
           /\ message[row[i].of].copy # "none"

(* What is still to be sent is up to date: an unsent edit carries the      *)
(* message's current version, and nothing but a revoke is waiting for a    *)
(* message that has been revoked, has expired or was deleted; nor is that  *)
(* message live, though it was buried while its create was under way       *)
(* (applySource, CompleteTimer, TombstoneMessage, CompleteDelivery).       *)
LatestIntentOnly ==
    /\ \A i \in Id : state[i] \in {"pending", "leased"} =>
         LET m == message[row[i].of]
         IN  /\ row[i].kind = "edit" => row[i].ver = m.ver
             /\ m.tomb => row[i].kind = "revoke"
    /\ \A m \in Message : message[m].tomb => message[m].copy # "live"

(* The newest revoke of a message that is still to be sent passes the      *)
(* version check of BeginSend: no event that comes after it, planned from  *)
(* whatever the handler read before, makes it stale.                       *)
LastRevokeIsValid ==
    \A i \in Id :
        /\ state[i] \in {"pending", "leased"} /\ row[i].kind = "revoke"
        /\ \A j \in Id : j > i /\ row[j].of = row[i].of => row[j].kind # "revoke"
        => row[i].ver = message[row[i].of].ver

(* As long as a chunk or a reaction whose answer nobody got may still      *)
(* arrive, its row is not reported as done or failed.                      *)
LostIsNotForgotten ==
    \A c \in flight :
        Stray(c) /\ row[c[1]].kind \in {"create", "reaction"}
            => state[c[1]] \in {"sending", "uncertain"}

(* A row that has been settled, or put aside as uncertain or blocked,      *)
(* keeps that state, whatever a worker that lost its lease does later.     *)
SettledForGood ==
    [][\A i \in Id : state[i] \in Settled \cup {"uncertain", "blocked"}
                        => state'[i] = state[i]]_vars

(* As the README has it, a WhatsApp revoke deletes the Telegram copy: with *)
(* no fault, a revoke of the bridge's own Telegram message that succeeded  *)
(* has had its deletion carried out.                                       *)
RevokesReachTelegram ==
    \A i \in Id : /\ row[i].kind = "revoke" /\ row[i].on = "telegram"
                   /\ state[i] = "succeeded" /\ faults = 0
                   => <<i, 0>> \in applied

(* As COORDINATOR.md has it, once a send has begun an uncertain outcome is *)
(* classified into the state uncertain, whatever the operation: while a    *)
(* request that makes the change itself (not a notice about it) may still  *)
(* arrive unanswered, its row is not reported as done or failed.           *)
UncertainIsRecorded ==
    \A c \in flight : Stray(c) /\ c[2] # Notice
        => state[c[1]] \in {"sending", "uncertain"}

-----------------------------------------------------------------------------
(* Liveness.                                                               *)

(* Every row that was planned ends settled, or aside as uncertain or       *)
(* blocked, or behind an earlier row of its message that is aside.         *)
Aside(i) == state[i] \in {"uncertain", "blocked"}

Progress ==
    \A i \in Id : state[i] = "pending" ~>
        \/ state[i] \in Settled \/ Aside(i)
        \/ \E j \in 1..(i - 1) : row[j].of = row[i].of /\ Aside(j)

=============================================================================
