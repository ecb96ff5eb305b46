-------------------------------- MODULE Timers --------------------------------
(***************************************************************************)
(* Disappearing messages: the timer of a chat (setChatTimer, getChatTimer  *)
(* of internal/coordinator/coordinator.go), the timer of a message         *)
(* (scheduleTimer, ClaimTimer, CompleteTimer of internal/store/timers.go)  *)
(* and the loop that runs it (StepTimer).                                  *)
(*                                                                         *)
(* A timer is a row with a lease.  The loop reads the parts of the message *)
(* when it claims the row, and plans their deletion in a later             *)
(* transaction.  In between the create of the message may arrive, and the  *)
(* message may be edited or revoked.                                       *)
(*                                                                         *)
(* Abstractions.  There is one chat with one message.  The length of a     *)
(* timer is left out: a chat has one or not, and the deadline of the       *)
(* message has passed or not.  The parts are those that the bridge owns    *)
(* and could delete.  The tokens of leases are the workers.  Timers of the *)
(* kind mapping_wait, and kept messages, have no caller in the program.    *)
(* A version is the number of edits: a revoke has a version too, but what  *)
(* counts for a timer is that it buries the message.  What becomes of the  *)
(* rows that are planned is the business of Outbox.                        *)
(***************************************************************************)
EXTENDS Naturals

CONSTANTS
    Worker,       \* processes over one database, each with one timer loop
    Nobody,       \* the owner of a row without a lease
    Part,         \* parts the create makes
    MaxEdits,     \* bound: edits of the message
    MaxCommands,  \* bound: changes of the chat's timer
    MaxFaults     \* bound: crashes, lapsed leases, failures of the store

ASSUME TimersAssumption ==
    /\ Nobody \notin Worker
    /\ MaxEdits \in Nat /\ MaxCommands \in Nat /\ MaxFaults \in Nat

TimerState == {"none", "pending", "leased", "done", "cancelled"}
Cached     == {"unknown", "on", "off"}

(* A part is not recorded yet, live, marked as deleted, or was recorded    *)
(* only after the message was buried.                                      *)
PartState == {"none", "live", "deleted", "orphan"}

VARIABLES
    stored,     \* the chat has a timer in the database
    cached,     \* Worker -> what its process remembers of it
    commands,   \* commands so far
    planned,    \* the message has been planned
    version,    \* its state_version: the number of edits
    tombstone,  \* it is buried
    create,     \* the outbox row of its create
    part,       \* Part -> state of the part
    revokes,    \* Part -> deletions planned by the timer
    timer,      \* the state of the message's timer
    target,     \* target_version of the timer
    due,        \* its deadline has passed
    owner,      \* lease_token
    expired,    \* lease_until_ms has passed
    found,      \* Worker -> a handler has found a part to edit or revoke
    busy,       \* Worker -> StepTimer has claimed and not yet completed
    held,       \* Worker -> the parts it read when it claimed
    faults      \* faults so far

setting == <<stored, cached, commands>>
message == <<planned, version, tombstone>>
copy    == <<create, part, revokes>>
row     == <<timer, target, due, owner, expired>>
loops   == <<found, busy, held>>
vars == <<setting, message, copy, row, loops, faults>>

Live == {p \in Part : part[p] = "live"}

Fault == faults < MaxFaults /\ faults' = faults + 1

Init ==
    /\ stored = FALSE
    /\ cached = [w \in Worker |-> "unknown"]
    /\ commands = 0
    /\ planned = FALSE
    /\ version = 0
    /\ tombstone = FALSE
    /\ create = "none"
    /\ part = [p \in Part |-> "none"]
    /\ revokes = [p \in Part |-> 0]
    /\ timer = "none"
    /\ target = 0
    /\ due = FALSE
    /\ owner = Nobody
    /\ expired = FALSE
    /\ found = [w \in Worker |-> FALSE]
    /\ busy = [w \in Worker |-> FALSE]
    /\ held = [w \in Worker |-> {}]
    /\ faults = 0

------------------------------------------------------------------------------
(* The timer of the chat.                                                  *)

(* The store has the new setting, or fails and keeps the old one.          *)
Store(on) ==
    \/ stored' = on /\ UNCHANGED faults
    \/ UNCHANGED stored /\ Fault

(* The command /timer: setChatTimer remembers the setting, and ignores     *)
(* whatever the store returns.                                             *)
SetChatTimer(w, on) ==
    /\ commands < MaxCommands
    /\ commands' = commands + 1
    /\ cached' = [cached EXCEPT ![w] = IF on THEN "on" ELSE "off"]
    /\ Store(on)
    /\ UNCHANGED <<message, copy, row, loops>>

(* getChatTimer believes what the process remembers.  It remembers a timer *)
(* it has read, and asks again where it has read none.                     *)
HasTimer(w) == IF cached[w] = "unknown" THEN stored ELSE cached[w] = "on"

Remembers(w) == [cached EXCEPT ![w] = IF HasTimer(w) THEN "on" ELSE @]

------------------------------------------------------------------------------
(* The message.                                                            *)

(* A message that is new has a version of its own and no tombstone, so     *)
(* scheduleTimer inserts its row.                                          *)
Schedule(on) ==
    /\ timer' = IF on THEN "pending" ELSE "none"
    /\ target' = version

(* PlanEventWithTimers: the create, with a timer for its version.          *)
PlanMessage(w) ==
    /\ ~planned
    /\ planned' = TRUE
    /\ create' = "pending"
    /\ cached' = Remembers(w)
    /\ Schedule(HasTimer(w))
    /\ UNCHANGED <<stored, commands, version, tombstone, part, revokes,
                   due, owner, expired, loops, faults>>

(* The handler of an edit or a revoke looks for a part first, and plans in *)
(* a later transaction.                                                    *)
FindParts(w) ==
    /\ Live # {} /\ ~found[w]
    /\ found' = [found EXCEPT ![w] = TRUE]
    /\ UNCHANGED <<setting, message, copy, row, busy, held, faults>>

Plans(w) == found[w] /\ found' = [found EXCEPT ![w] = FALSE]

(* applySource drops an edit of a message that is buried.                  *)
Suppressed == tombstone

(* An edit has no timer to plan.                                           *)
PlanEdit(w) ==
    /\ Plans(w)
    /\ \/ Suppressed /\ UNCHANGED version
       \/ ~Suppressed /\ version < MaxEdits /\ version' = version + 1
    /\ UNCHANGED <<setting, planned, tombstone, copy, row, busy, held, faults>>

(* What burying a message does to a create that has not begun.             *)
Unbegun(c) == IF c = "pending" THEN "superseded" ELSE c

Bury ==
    /\ tombstone' = TRUE
    /\ create' = Unbegun(create)
    /\ part' = [p \in Part |-> IF p \in Live THEN "deleted" ELSE part[p]]

PlanRevoke(w) ==
    /\ Plans(w)
    /\ Bury
    /\ UNCHANGED <<setting, planned, version, revokes, row, busy, held, faults>>

BeginSend ==
    /\ create = "pending"
    /\ create' = "sending"
    /\ UNCHANGED <<setting, message, part, revokes, row, loops, faults>>

(* CompleteDelivery records all parts, as deleted when the message has     *)
(* been buried meanwhile.                                                  *)
CompleteCreate ==
    /\ create = "sending"
    /\ create' = "succeeded"
    /\ part' = [p \in Part |-> IF tombstone THEN "orphan" ELSE "live"]
    /\ UNCHANGED <<setting, message, revokes, row, loops, faults>>

(* The create ends without parts: uncertain, blocked or dead.              *)
CreateFails ==
    /\ create = "sending"
    /\ Fault
    /\ create' = "failed"
    /\ UNCHANGED <<setting, message, part, revokes, row, loops>>

------------------------------------------------------------------------------
(* The timer of the message.                                               *)

(* A timer that no longer fits its message.  The mutant only looks whether *)
(* the message is buried.                                                  *)
StaleWhenBuried == tombstone
Stale == tombstone \/ version # target

(* ClaimTimer first cancels the timers that are stale ...                  *)
CancelStale(w) ==
    /\ ~busy[w]
    /\ timer = "pending" /\ Stale
    /\ timer' = "cancelled"
    /\ UNCHANGED <<setting, message, copy, target, due, owner, expired, loops, faults>>

(* ... and then takes one that is due.                                     *)
ClaimTimer(w) ==
    /\ ~busy[w]
    /\ timer = "pending" /\ ~Stale /\ due
    /\ timer' = "leased"
    /\ owner' = w
    /\ expired' = FALSE
    /\ busy' = [busy EXCEPT ![w] = TRUE]
    /\ held' = [held EXCEPT ![w] = Live]
    /\ UNCHANGED <<setting, message, copy, target, due, found, faults>>

StepEnds(w) ==
    /\ busy[w]
    /\ busy' = [busy EXCEPT ![w] = FALSE]
    /\ held' = [held EXCEPT ![w] = {}]
    /\ UNCHANGED found

(* The lease that CompleteTimer asks for.                                  *)
Holds(w) == timer = "leased" /\ owner = w /\ ~expired

(* The deletions that were planned are those that are needed.  The mutant  *)
(* trusts the parts that were read.                                        *)
CoversAnything(w) == TRUE
Covers(w) == held[w] = Live

Revoke(w) == revokes' = [p \in Part |-> IF p \in held[w] THEN revokes[p] + 1 ELSE revokes[p]]

(* CompleteTimer: the rows of the revokes, the burial and the end of the   *)
(* timer in one transaction.  The mutant inserts the rows in one of their  *)
(* own, and may stop after it.                                             *)
CompleteTimerTorn(w) ==
    /\ Holds(w) /\ ~Stale /\ Covers(w)
    /\ StepEnds(w)
    /\ Revoke(w)
    /\ \/ Bury /\ timer' = "done" /\ owner' = Nobody
       \/ UNCHANGED <<tombstone, create, part, timer, owner>>
    /\ UNCHANGED <<setting, planned, version, target, due, expired, faults>>
CompleteTimer(w) ==
    /\ Holds(w) /\ ~Stale /\ Covers(w)
    /\ StepEnds(w)
    /\ Revoke(w)
    /\ Bury
    /\ timer' = "done"
    /\ owner' = Nobody
    /\ UNCHANGED <<setting, planned, version, target, due, expired, faults>>

(* CompleteTimer is refused, by its fence, by a conflict, or by the store; *)
(* StepTimer returns and leaves the row to the recovery of leases.         *)
CompleteTimerFails(w) ==
    /\ StepEnds(w)
    /\ IF Holds(w) /\ ~Stale /\ Covers(w) THEN Fault ELSE UNCHANGED faults
    /\ UNCHANGED <<setting, message, copy, row>>

(* The mutants recover nothing, and leave the token in the row.            *)
RecoverableNever == FALSE
Recoverable == timer = "leased" /\ expired

RequeueOwned == timer' = "pending" /\ UNCHANGED owner
Requeue == timer' = "pending" /\ owner' = Nobody

RecoverExpiredLeases ==
    /\ Recoverable
    /\ Requeue
    /\ UNCHANGED <<setting, message, copy, target, due, expired, loops, faults>>

------------------------------------------------------------------------------
(* Time and faults.                                                        *)

Deadline ==
    /\ timer # "none" /\ ~due
    /\ due' = TRUE
    /\ UNCHANGED <<setting, message, copy, timer, target, owner, expired, loops, faults>>

(* The lease of a row runs out.  That is a fault while its worker is still *)
(* at it.                                                                  *)
ExpireLease ==
    /\ timer = "leased" /\ ~expired
    /\ expired' = TRUE
    /\ IF busy[owner] THEN Fault ELSE UNCHANGED faults
    /\ UNCHANGED <<setting, message, copy, timer, target, due, owner, loops>>

(* The process of a worker dies and starts again.                          *)
Restart(w) ==
    /\ Fault
    /\ cached' = [cached EXCEPT ![w] = "unknown"]
    /\ found' = [found EXCEPT ![w] = FALSE]
    /\ busy' = [busy EXCEPT ![w] = FALSE]
    /\ held' = [held EXCEPT ![w] = {}]
    /\ UNCHANGED <<stored, commands, message, copy, row>>

------------------------------------------------------------------------------
StepTimer(w) ==
    CancelStale(w) \/ ClaimTimer(w) \/ CompleteTimer(w) \/ CompleteTimerFails(w)

Next ==
    \/ \E w \in Worker, on \in BOOLEAN : SetChatTimer(w, on)
    \/ \E w \in Worker :
        \/ PlanMessage(w) \/ FindParts(w) \/ PlanEdit(w) \/ PlanRevoke(w)
        \/ StepTimer(w) \/ Restart(w)
    \/ BeginSend \/ CompleteCreate \/ CreateFails
    \/ RecoverExpiredLeases \/ Deadline \/ ExpireLease

Spec == Init /\ [][Next]_vars

(* The timer loops go on, leases run out and are recovered, time passes.   *)
FairSpec ==
    /\ Spec
    /\ \A w \in Worker : WF_vars(StepTimer(w))
    /\ WF_vars(RecoverExpiredLeases)
    /\ WF_vars(Deadline)
    /\ WF_vars(ExpireLease)

------------------------------------------------------------------------------
(* Properties.                                                             *)

(* Every variable has its type, and only a row with a lease has an owner.  *)
TypeOK ==
    /\ stored \in BOOLEAN
    /\ cached \in [Worker -> Cached]
    /\ commands \in 0..MaxCommands
    /\ planned \in BOOLEAN /\ tombstone \in BOOLEAN
    /\ version \in 0..MaxEdits
    /\ create \in {"none", "pending", "sending", "succeeded", "failed", "superseded"}
    /\ part \in [Part -> PartState]
    /\ revokes \in [Part -> Nat]
    /\ timer \in TimerState
    /\ target \in 0..MaxEdits
    /\ due \in BOOLEAN /\ expired \in BOOLEAN
    /\ owner \in Worker \cup {Nobody}
    /\ (owner # Nobody) = (timer = "leased")
    /\ found \in [Worker -> BOOLEAN] /\ busy \in [Worker -> BOOLEAN]
    /\ held \in [Worker -> SUBSET Part]
    /\ faults \in 0..MaxFaults

(* The timer plans the deletion of a part at most once, over workers that  *)
(* lose their lease and come late, crashes and conflicts: the rows it      *)
(* inserts, the burial and its end are one transaction (timers.go:132-226).*)
RevokedOnce == \A p \in Part : revokes[p] <= 1

(* When the timer is done no part is live, and for each that is marked as  *)
(* deleted the deletion has been planned: CompleteTimer marks them all, so *)
(* it must start over when the create has brought parts after they were    *)
(* read (timers.go:159-182, 217).                                          *)
DeletionsArePlanned ==
    timer = "done" => \A p \in Part :
        part[p] # "live" /\ (part[p] = "deleted" => revokes[p] = 1)

(* A timer that has buried the message was set for the version that the    *)
(* message has, for good: no edit is applied between its claim and its     *)
(* end, and an edit that found the parts before is dropped after           *)
(* (timers.go:153, work.go:276).                                           *)
OnlyItsVersion == timer = "done" => version = target

(* A timer whose deadline has passed comes to an end: the message is       *)
(* buried, or the timer is stale.                                          *)
DueIsSettled ==
    (timer = "pending" /\ due) ~> (timer \in {"done", "cancelled"})

(* A message that was planned with a timer disappears, also when it is     *)
(* edited (docs/STORAGE.md:242-244 asks that an edit carry the deadline    *)
(* over to a timer for the new version; README.md:249).                    *)
MessagesDisappear == (timer = "pending") ~> tombstone
==============================================================================
