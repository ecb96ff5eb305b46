--------------------------- MODULE TelegramPolling ---------------------------
(***************************************************************************)
(* How updates of Telegram reach the inbox: RunPolling and poll of         *)
(* internal/telegram/polling.go, AcceptTelegramBatch and accept of         *)
(* internal/store/admission.go, and the life of the process around them    *)
(* (cmd/whatsgram/main.go, restarted by docker-compose).                   *)
(*                                                                         *)
(* The poller keeps its cursor in memory.  A request for updates with an   *)
(* offset tells Telegram to forget every update below it, so the offset    *)
(* must not get ahead of what is in the database.  Several processes may   *)
(* share one database: nothing locks it.                                   *)
(*                                                                         *)
(* Abstractions.  Update ids are 1, 2, 3, ...; a stream epoch is a model   *)
(* value that is drawn once.  An update is of a kind that the bridge knows *)
(* ("message") or of one that admission puts aside ("reaction").  The same *)
(* update is delivered with the same content each time, so digests never   *)
(* differ, and the limit in bytes is folded into the limit in rows.  What  *)
(* the inbox loop does with a row between its admission and its end is one *)
(* step, Settle.                                                           *)
(***************************************************************************)
EXTENDS Naturals, FiniteSets

CONSTANTS
    Process,         \* bridge processes over one database
    Epoch,           \* random stream epochs
    NoEpoch,         \* the epoch while bridge_cursor is empty
    MaxUpdates,      \* bound: updates that arrive at Telegram
    BatchLimit,      \* the limit of getUpdates
    MaxInboxCount,   \* store.Options.MaxInboxCount
    MaxFaults        \* bound: crashes, failed requests, lapsed updates, ...

ASSUME EpochAssumption == NoEpoch \notin Epoch
ASSUME PollingBoundsAssumption ==
    /\ MaxUpdates \in Nat
    /\ BatchLimit \in Nat \ {0}
    /\ MaxInboxCount \in Nat
    /\ BatchLimit <= MaxInboxCount
    /\ MaxFaults \in Nat

Update == 1..MaxUpdates
Kind   == {"message", "reaction"}

InboxState == {"none", "pending", "done", "quarantined"}

Cursor   == [next : Nat, epoch : Epoch]
NoCursor == [next |-> 0, epoch |-> NoEpoch]

(* Why a poller ended: the class of the error RunPolling returned.         *)
Reason == {"none", "crash", "transient", "permanent", "conflict", "review"}

VARIABLES
    arrived,   \* updates 1..arrived have reached Telegram
    kind,      \* Update -> its kind
    kept,      \* updates that Telegram still holds for the bot
    lapsed,    \* updates that Telegram dropped after 24 hours
    idle,      \* nobody has polled with success for seven days
    drawn,     \* epochs drawn so far
    cursor,    \* the row of bridge_cursor
    inbox,     \* Update -> Epoch -> state of the row of bridge_inbox
    pc,        \* Process -> where it is in RunPolling
    own,       \* Process -> its cursor in memory
    batch,     \* Process -> the updates poll returned
    next,      \* Process -> the offset behind them
    silent,    \* Process -> seven days have passed since its lastContact
    reason,    \* Process -> why its last poller ended
    faults     \* faults so far

telegram == <<arrived, kind, kept, lapsed, idle>>
table    == <<drawn, cursor, inbox>>
poller   == <<pc, own, batch, next, silent, reason>>
vars     == <<telegram, table, poller, faults>>

------------------------------------------------------------------------------
(* The store.                                                              *)

Admitted(u) == \E e \in Epoch : inbox[u][e] # "none"

Occupying == {"pending", "quarantined"}
Occupied  == Cardinality({r \in Update \X Epoch : inbox[r[1]][r[2]] \in Occupying})

(* EventKind.Known.                                                        *)
Known(k) == k = "message"

(* The state accept gives to a new row.                                    *)
Entry(u) == IF Known(kind[u]) THEN "pending" ELSE "quarantined"

(* The rows of a batch that accept inserts: a duplicate is left alone, and *)
(* the key of a row contains the epoch.                                    *)
New(updates, epoch) == {u \in updates : inbox[u][epoch] = "none"}

(* Mutants: the transaction looks only at the epoch, or only at the offset. *)
ConflictsOnEpoch(offset, epoch) ==
    cursor # NoCursor /\ epoch # cursor.epoch
ConflictsOnOffset(offset, epoch) ==
    cursor # NoCursor /\ offset < cursor.next

(* AcceptTelegramBatch refuses another epoch and an offset that goes back. *)
Conflicts(offset, epoch) ==
    /\ cursor # NoCursor
    /\ \/ epoch # cursor.epoch
       \/ offset < cursor.next

(* The limit is looked at for each new row; one row too many undoes all.   *)
Saturated(updates, epoch) ==
    Occupied + Cardinality(New(updates, epoch)) > MaxInboxCount

(* Mutant: the offset is left for a transaction of its own.                *)
AcceptRowsOnly(updates, offset, epoch) ==
    /\ cursor' = IF cursor = NoCursor
                 THEN [next |-> offset, epoch |-> epoch]
                 ELSE cursor
    /\ inbox' = [u \in Update |->
                   IF u \in New(updates, epoch)
                   THEN [inbox[u] EXCEPT ![epoch] = Entry(u)]
                   ELSE inbox[u]]

Accept(updates, offset, epoch) ==
    /\ cursor' = [next |-> offset, epoch |-> epoch]
    /\ inbox' = [u \in Update |->
                   IF u \in New(updates, epoch)
                   THEN [inbox[u] EXCEPT ![epoch] = Entry(u)]
                   ELSE inbox[u]]

------------------------------------------------------------------------------
(* The life of a process.                                                  *)

Fault == /\ faults < MaxFaults
         /\ faults' = faults + 1

(* RunPolling returns, main calls stop(), and the process is gone.         *)
Ends(p, why) ==
    /\ pc' = [pc EXCEPT ![p] = "down"]
    /\ own' = [own EXCEPT ![p] = NoCursor]
    /\ batch' = [batch EXCEPT ![p] = {}]
    /\ next' = [next EXCEPT ![p] = 0]
    /\ reason' = [reason EXCEPT ![p] = why]
    /\ UNCHANGED silent

Goes(p, to) ==
    /\ pc' = [pc EXCEPT ![p] = to]
    /\ UNCHANGED <<batch, next, silent, reason>>

(* main opens the database and gives the poller the present time as the    *)
(* time of its last contact.                                               *)
Boot(p) ==
    /\ pc[p] = "down"
    /\ pc' = [pc EXCEPT ![p] = "start"]
    /\ silent' = [silent EXCEPT ![p] = FALSE]
    /\ reason' = [reason EXCEPT ![p] = "none"]
    /\ UNCHANGED <<own, batch, next, telegram, table, faults>>

Crash(p) ==
    /\ pc[p] # "down"
    /\ Fault
    /\ Ends(p, "crash")
    /\ UNCHANGED <<telegram, table>>

------------------------------------------------------------------------------
(* RunPolling up to its loop.                                              *)

ReadCursor(p) ==
    /\ pc[p] = "start"
    /\ cursor # NoCursor
    /\ own' = [own EXCEPT ![p] = cursor]
    /\ Goes(p, "init")
    /\ UNCHANGED <<telegram, table, faults>>

DrawEpoch(p) ==
    /\ pc[p] = "start"
    /\ cursor = NoCursor
    /\ \E e \in Epoch \ drawn :
          /\ drawn' = drawn \cup {e}
          /\ own' = [own EXCEPT ![p] = [next |-> 0, epoch |-> e]]
    /\ Goes(p, "found")
    /\ UNCHANGED <<telegram, cursor, inbox, faults>>

(* The empty batch that makes the epoch durable.                           *)
FoundStream(p) ==
    /\ pc[p] = "found"
    /\ UNCHANGED <<telegram, drawn, faults>>
    /\ \/ /\ Conflicts(0, own[p].epoch)
          /\ Ends(p, "conflict")
          /\ UNCHANGED <<cursor, inbox>>
       \/ /\ ~Conflicts(0, own[p].epoch)
          /\ Accept({}, 0, own[p].epoch)
          /\ Goes(p, "init")
          /\ UNCHANGED own

Initialize(p) ==
    /\ pc[p] = "init"
    /\ Goes(p, "poll")
    /\ UNCHANGED <<own, telegram, table, faults>>

(* Initialize makes three requests; an error of any of them is returned.   *)
InitializeFails(p) ==
    /\ pc[p] = "init"
    /\ Fault
    /\ \E why \in {"transient", "permanent"} : Ends(p, why)
    /\ UNCHANGED <<telegram, table>>

------------------------------------------------------------------------------
(* The loop.                                                               *)

(* Mutants: the id itself is taken for the offset, or one is left out.     *)
SameOffset(u) == u
OffsetPast(u) == u + 2

(* The offset behind an update.                                            *)
NextOffset(u) == u + 1

(* getUpdates forgets what lies below the offset, and answers with the     *)
(* oldest updates that are left.                                           *)
Forgets(p) == kept' = {u \in kept : u >= own[p].next}

Hears(p) ==
    /\ idle' = FALSE
    /\ silent' = [silent EXCEPT ![p] = FALSE]

Poll(p) ==
    /\ pc[p] = "poll"
    /\ ~silent[p]
    /\ \E last \in kept :
          /\ last >= own[p].next
          /\ batch' = [batch EXCEPT ![p] =
                         {u \in kept : u >= own[p].next /\ u <= last}]
          /\ Cardinality(batch'[p]) <= BatchLimit
          /\ next' = [next EXCEPT ![p] = NextOffset(last)]
    /\ Forgets(p)
    /\ Hears(p)
    /\ pc' = [pc EXCEPT ![p] = "commit"]
    /\ UNCHANGED <<arrived, kind, lapsed, own, reason, table, faults>>

PollNothing(p) ==
    /\ pc[p] = "poll"
    /\ ~silent[p]
    /\ \A u \in kept : u < own[p].next
    /\ Forgets(p)
    /\ Hears(p)
    /\ UNCHANGED <<arrived, kind, lapsed, pc, own, batch, next, reason, table, faults>>

(* A request fails before or after Telegram has seen it.  A transient or   *)
(* rate-limited error is tried again after a delay; any other one is       *)
(* returned.                                                               *)
PollFails(p) ==
    /\ pc[p] = "poll"
    /\ ~silent[p]
    /\ Fault
    /\ Forgets(p) \/ UNCHANGED kept
    /\ \/ UNCHANGED poller
       \/ \E why \in {"permanent", "conflict"} : Ends(p, why)
    /\ UNCHANGED <<arrived, kind, lapsed, idle, table>>

(* Seven days of failed requests: ErrEpochReviewRequired.                  *)
RequireReview(p) ==
    /\ pc[p] = "poll"
    /\ silent[p]
    /\ Ends(p, "review")
    /\ UNCHANGED <<telegram, table, faults>>

(* The batch and the cursor are one transaction, and every error of it is  *)
(* returned, a full inbox as a transient one.                              *)
Commit(p) ==
    /\ pc[p] = "commit"
    /\ UNCHANGED <<telegram, drawn, faults>>
    /\ \/ /\ Conflicts(next[p], own[p].epoch)
          /\ Ends(p, "conflict")
          /\ UNCHANGED <<cursor, inbox>>
       \/ /\ ~Conflicts(next[p], own[p].epoch)
          /\ Saturated(batch[p], own[p].epoch)
          /\ Ends(p, "transient")
          /\ UNCHANGED <<cursor, inbox>>
       \/ /\ ~Conflicts(next[p], own[p].epoch)
          /\ ~Saturated(batch[p], own[p].epoch)
          /\ Accept(batch[p], next[p], own[p].epoch)
          /\ own' = [own EXCEPT ![p].next = next[p]]
          /\ batch' = [batch EXCEPT ![p] = {}]
          /\ next' = [next EXCEPT ![p] = 0]
          /\ pc' = [pc EXCEPT ![p] = "poll"]
          /\ UNCHANGED <<silent, reason>>

(* The database is busy, or fails in another way.                          *)
StoreFails(p) ==
    /\ pc[p] \in {"start", "found", "commit"}
    /\ Fault
    /\ \E why \in {"transient", "permanent"} : Ends(p, why)
    /\ UNCHANGED <<telegram, table>>

------------------------------------------------------------------------------
(* The surroundings.                                                       *)

Arrive ==
    /\ arrived < MaxUpdates
    /\ arrived' = arrived + 1
    /\ \E k \in Kind : kind' = [kind EXCEPT ![arrived'] = k]
    /\ kept' = kept \cup {arrived'}
    /\ UNCHANGED <<lapsed, idle, table, poller, faults>>

(* Telegram keeps updates for 24 hours.                                    *)
Lapse ==
    /\ Fault
    /\ \E u \in kept :
          /\ kept' = kept \ {u}
          /\ lapsed' = lapsed \cup {u}
    /\ UNCHANGED <<arrived, kind, idle, table, poller>>

(* Seven days in which every process is down or gets no answer.            *)
Week ==
    /\ Fault
    /\ \A p \in Process : pc[p] \in {"down", "poll"}
    /\ idle' = TRUE
    /\ silent' = [p \in Process |-> TRUE]
    /\ UNCHANGED <<arrived, kind, kept, lapsed, table>>
    /\ UNCHANGED <<pc, own, batch, next, reason>>

(* The inbox loop of a process ends a row: it is planned or completed, or  *)
(* put aside.                                                              *)
Settle(p) ==
    /\ pc[p] # "down"
    /\ \E u \in Update, e \in Epoch, s \in {"done", "quarantined"} :
          /\ inbox[u][e] = "pending"
          /\ inbox' = [inbox EXCEPT ![u][e] = s]
    /\ UNCHANGED <<telegram, drawn, cursor, poller, faults>>

------------------------------------------------------------------------------
Init ==
    /\ arrived = 0
    /\ kind = [u \in Update |-> "message"]
    /\ kept = {}
    /\ lapsed = {}
    /\ idle = FALSE
    /\ drawn = {}
    /\ cursor = NoCursor
    /\ inbox = [u \in Update |-> [e \in Epoch |-> "none"]]
    /\ pc = [p \in Process |-> "down"]
    /\ own = [p \in Process |-> NoCursor]
    /\ batch = [p \in Process |-> {}]
    /\ next = [p \in Process |-> 0]
    /\ silent = [p \in Process |-> FALSE]
    /\ reason = [p \in Process |-> "none"]
    /\ faults = 0

Polls(p) ==
    \/ ReadCursor(p) \/ DrawEpoch(p) \/ FoundStream(p) \/ Initialize(p)
    \/ Poll(p) \/ PollNothing(p) \/ RequireReview(p) \/ Commit(p)

Fails(p) ==
    \/ Crash(p) \/ InitializeFails(p) \/ PollFails(p) \/ StoreFails(p)

Next ==
    \/ \E p \in Process : Boot(p) \/ Polls(p) \/ Fails(p) \/ Settle(p)
    \/ Arrive \/ Lapse \/ Week

Spec == Init /\ [][Next]_vars

(* docker-compose restarts a process that stopped, and a poller goes on.   *)
FairSpec ==
    /\ Spec
    /\ \A p \in Process : WF_vars(Boot(p)) /\ WF_vars(Polls(p))

------------------------------------------------------------------------------
(* The state is well typed, and a batch waits exactly while it is to be    *)
(* committed, its offset ahead of the cursor it was asked for with.        *)
TypeOK ==
    /\ arrived \in 0..MaxUpdates
    /\ kind \in [Update -> Kind]
    /\ kept \in SUBSET (1..arrived)
    /\ lapsed \in SUBSET (1..arrived)
    /\ idle \in BOOLEAN
    /\ drawn \in SUBSET Epoch
    /\ cursor \in Cursor \cup {NoCursor}
    /\ inbox \in [Update -> [Epoch -> InboxState]]
    /\ pc \in [Process -> {"down", "start", "found", "init", "poll", "commit"}]
    /\ own \in [Process -> Cursor \cup {NoCursor}]
    /\ batch \in [Process -> SUBSET (1..arrived)]
    /\ next \in [Process -> Nat]
    /\ silent \in [Process -> BOOLEAN]
    /\ reason \in [Process -> Reason]
    /\ faults \in 0..MaxFaults
    /\ \A p \in Process : pc[p] = "commit" => next[p] > own[p].next

(* No update is lost: one that has reached Telegram is still held there or *)
(* is in the inbox, unless it lay for 24 hours.  README.md promises it     *)
(* under "At-Least-Once Delivery to Queue"; it hangs on the order of the   *)
(* commit and the next request, over crashes and failed commits.           *)
NothingLost ==
    \A u \in 1..arrived : u \in kept \/ u \in lapsed \/ Admitted(u)

(* The cursor and the inbox move together: everything below the offset is  *)
(* in the inbox, and nothing else is.  A batch that fails half way, or     *)
(* that commits without its offset, breaks it.                             *)
CursorMatchesInbox ==
    \A u \in 1..arrived :
        /\ u < cursor.next => u \in lapsed \/ Admitted(u)
        /\ Admitted(u) => u < cursor.next

(* An update is admitted once, though the key of a row contains the epoch  *)
(* and two processes that found an empty database drew one each.           *)
AdmittedOnce ==
    \A u \in Update : \A e, f \in Epoch :
        inbox[u][e] # "none" /\ inbox[u][f] # "none" => e = f

(* The durable offset never goes back and the epoch, once founded, stays,  *)
(* whatever an older batch of another process asks for.                    *)
CursorOnlyAdvances ==
    [][cursor # NoCursor => /\ cursor'.epoch = cursor.epoch
                            /\ cursor'.next >= cursor.next]_vars

(* Every update gets into the inbox unless it lapses first or the inbox    *)
(* has, time and again, no room for a batch.  Rows that were put aside     *)
(* keep their room, so it takes an operator to make some.                  *)
Room == Occupied + BatchLimit <= MaxInboxCount
EventuallyAdmitted ==
    []<>(~Room \/ \A u \in 1..arrived : Admitted(u) \/ u \in lapsed)
==============================================================================
