# A TLA+ model of whatsgram

whatsgram mirrors WhatsApp chats into the topics of a Telegram group, and back.  It is one Go process
with an SQLite database.  Events of both platforms are admitted into a durable *inbox*; planners turn each
event into rows of a durable *outbox*; a delivery loop carries the rows out through two platform adapters.

This directory models that machinery in TLA+, checks it with TLC and proves what matters most with TLAPS.
Paths below are relative to `src/`.

## Inventory

| Part | Where | State it keeps | Operations |
| --- | --- | --- | --- |
| Admission | `internal/store/admission.go` | `bridge_inbox`, `bridge_cursor` | `Accept` (WhatsApp), `AcceptTelegramBatch` (events and cursor in one transaction) |
| Telegram polling | `internal/telegram/polling.go` | the cursor in memory, retry attempt | `RunPolling`, `poll` |
| Inbox | `internal/store/work.go`, `internal/coordinator/inbox.go` | lease and state of inbox rows | `ClaimInbox`, `DeferInbox`, `QuarantineInbox`, `CompleteInbox`, `RunInboxLoop` |
| Planners | `internal/coordinator/inbox.go`, `applySource` in `internal/store/work.go` | `bridge_message`, `bridge_source_state` | `handleTelegramEvent`, `handleWhatsAppEvent`, `PlanEventWithTimers` |
| Outbox | `internal/store/deliveries.go`, `completion.go`, `work.go` | `bridge_outbox`, `bridge_part` | `insertDelivery`, `ClaimDelivery`, `BeginSend`, `CompleteDelivery`, `FailDelivery`, `RecoverExpiredLeases` |
| Delivery loop | `internal/coordinator/delivery.go` | local variables of one pass | `StepDelivery`, `sendTelegram`, `sendWhatsApp`, `handleDeliveryError` |
| Timers | `internal/store/timers.go`, `internal/coordinator/coordinator.go` | `bridge_timer` | `scheduleTimer`, `ClaimTimer`, `CompleteTimer`, `StepTimer` |
| Echo protection | `deliveries.go` (`MatchEcho`, `BeginSend`), `inbox.go` (`isBridgeDispatched`) | `bridge_echo`, the set of sent ids in memory | reserve, match |
| Chats and topics | `internal/store/chats.go`, `coordinator/meta.go`, `coordinator/admin.go` | `bridge_chat`, the card of a topic | discover, create a topic, bind, `/bind`, `/sync`, show the card |
| WhatsApp connection | `internal/whatsapp/connection.go`, `pairing.go`, the runner in `cmd/whatsgram/main.go` | `Client.terminal`, the counter of attempts, a channel of one token | `Run`, `handle`, `BeginQR`, `BeginPhoneCode` |
| Adapters | `internal/telegram`, `internal/whatsapp` | rate limiter | send, edit, delete, react |
| Admin | `internal/admin`, `internal/coordinator/admin.go`, `meta.go` | none of its own | `/del`, `/bind`, `/sync`, `/pair`, ... |
| Media, config, normalization | `internal/media`, `internal/config`, `normalize.go` | none | pure conversion |

**How the parts interact.**  Every part reaches the others through the database.  The goroutines of
`Coordinator.Run` (`coordinator.go:121-189`) are the inbox loop, the delivery loop, the timer loop and the
recovery loop; the two adapters add the Telegram poller and the WhatsApp event handler.  A store operation is
one `BEGIN IMMEDIATE` transaction.  Between two of them a goroutine holds only what it has read, and a *lease*
(a random token with a deadline) that the next transaction checks.  A second process on the same database
is not excluded: `open.go` takes no lock, and `docs/STORAGE.md` speaks of simultaneous workers.

**What is hard.**  The delivery loop is not one transaction: it claims a row, marks the send as begun, makes one
request per chunk, and only then records the outcome.  Everybody else moves in these gaps: a planner
supersedes rows or buries the message, the recovery loop takes the row back, another worker claims, the process
dies, an answer is lost and the request takes effect later.  The neighbours have the same shape: a handler
reads the parts of a message and plans in a later transaction; a poller reads updates and commits them
later; the timer loop reads the parts of a message when it claims a timer and deletes them later; and the WhatsApp
runner looks at its socket and then waits for news of it, which may have come already.  `PROJECT.json` lists these hazards with their lines.

**What makes each part correct.**

* Outbox and delivery loop: no request is made twice; the operations on a message are carried out in the order of
  planning; what is put back or superseded was never sent; a success means that everything was sent; an
  outcome stays; every row ends somewhere.
* Inbox and planners: an event is planned once, whoever holds its lease; a message moves only to later versions of itself; what
  waits is the latest intent; a buried message stays buried; a row that can be handled is handled in the end.
* Admission and polling: no update is skipped or admitted twice over crashes; the poller survives a full inbox.
* Echo protection: the process that sent a message does not forward its echo.
* Chats: a chat has one topic, keeps it, and shares it with no other; topics and cards are not made without need; a message that opens
  a chat is not dropped.
* Timers: the parts of a message with a timer are deleted, each once, none left out, and only in the version the timer was set for.
* Connection: the runner hears of every loss, keeps to its budget of dials, ends after a block, and acknowledges to WhatsApp only
  what the inbox has.

## Plan

In this order; all modules are written.

1. `Outbox`, with `MCOutbox` and `OutboxProofs`: the table, the workers that drain it, the planners as far as they write it.
2. `Courier` and `OutboxRefinement`: what the outbox promises without leases, workers and retries, and that the
   outbox implements it, with `OutboxOutcomeProofs` and `OutboxRefinementProofs`.
3. `TelegramPolling`, with `MCTelegramPolling` and `TelegramPollingProofs`: poll, commit, crash, full inbox, the end of
   polling and of the process.
4. `Connection`, with `MCConnection` and `ConnectionProofs`: the runner of WhatsApp, its events, and the admission and
   acknowledgement of a message.
5. `Timers`, with `MCTimers` and `TimersProofs`: the setting of a chat, the timer of a message, its lease and its completion.
6. `Versions`: the comparison of versions and the two decisions taken by it, as operators.
7. `Topics`, with `MCTopics` and `TopicsProofs`: chats, their topics and cards, and the walk of a process from one call to the next.
8. `Inbox`, with `MCInbox` and `InboxProofs`: inbox rows with their leases, the handlers of whole events, echoes, and `applySource`.  It extends
   `Topics` and `Versions`, composes them, and implements `Topics`.

Every safety invariant, action property and refinement that a run checks has a theorem; the section Checked only says what has not.

## Modules

| Module | What it is |
| --- | --- |
| `Outbox` | the model |
| `Courier` | the abstract specification: entries tried at most once and in order, outcomes that stay |
| `OutboxRefinement` | the refinement mapping from `Outbox` to `Courier` |
| `MCOutbox` | small instances for TLC |
| `OutboxProofs` | the inductive invariant `IInv` and the theorems on order and repetition |
| `OutboxOutcomeProofs` | the invariants on what is still to be sent and on what became of a row, and their theorems |
| `OutboxRefinementProofs` | the theorem that `Outbox` implements `Courier` |
| `TelegramPolling` | the model of polling and admission |
| `MCTelegramPolling` | small instances for TLC |
| `TelegramPollingProofs` | its invariant and the theorems |
| `Connection` | the model of the connection to WhatsApp |
| `MCConnection` | for TLC; the instances are in the configurations |
| `ConnectionProofs` | its invariant and the theorems |
| `Timers` | the model of disappearing messages |
| `MCTimers` | small instances for TLC |
| `TimersProofs` | its invariant and the theorems |
| `Versions` | the order of source versions, as operators |
| `Topics` | the model of chats, topics and cards |
| `MCTopics` | a small instance for TLC |
| `TopicsProofs` | its invariant and the theorems |
| `Inbox` | the model of the inbox and its handlers, over `Topics` and `Versions` |
| `MCInbox` | small instances for TLC: the events there are |
| `InboxProofs` | its invariant, the theorems, and that `Inbox` implements `Topics` |

### `Outbox`: state

| Variable | Code |
| --- | --- |
| `lastId`, `row` | ids and payload columns of `bridge_outbox`; `mine` is whether the target part is the bridge's own (`is_bridge_owned`), `calls` the number of requests the operation takes |
| `state`, `owner`, `expired`, `ready`, `started` | `state`, `lease_token`, `lease_until_ms` in the past, `available_at_ms` in the past, `send_started_at_ms` set |
| `message` | `bridge_message` and the copy in `bridge_part`: version, tombstone, live or deleted, number of parts, pending timer |
| `reading` | the local variables of a handler between `FindParts` and `PlanEvent` |
| `pc`, `job`, `at`, `verdict` | where a worker is in `StepDelivery`, its row, the chunk it is at, the outcome it is about to record |
| `issued`, `flight`, `applied` | requests handed to a platform, not yet decided there, carried out (kept for the properties) |
| `faults` | how many faults have happened |

A lease token is random and a worker holds one lease at a time, so the token is the worker.  Time is the pair of
flags `expired` and `ready`.  Messages carry a number as version; only the order in which versions took
effect is used.  The inbox loop is one goroutine, so there is one `reading`.

### `Outbox`: actions

* Planning: `PlanCreate`; `ReadParts` and then `PlanEdit`, `PlanReaction` or `PlanRevoke` (`applySource` with
  `insertDelivery`, including the superseding of rows and the limit of the outbox), or `GiveUpReading`;
  `TimerExpire` (`CompleteTimer`); `AdminDelete` (`TombstoneMessage`, from `/del`; the command's own calls to
  the platforms go around the outbox and are not modelled).  `Aim` says where an event can go: the bridge's copy, or, for
  events of WhatsApp, the original on Telegram.
* Store: `ClaimDelivery`, `BeginSend`, `CompleteDelivery`, `FailDelivery`, `RecoverExpiredLeases`, each one
  transaction with its fences (`Holds`).  The checks of `BeginSend` are `Valid`.
* Delivery loop: `NotConnected` and `BeginSendFails` before the send; `Issue`, `Refuse` (no request is
  made), `Answered`, `Rejected`, `Lost` during it; `FallsBack` is the notice in place of a refused edit or
  revoke on Telegram, and the last request number, `Notice`, is that notice.  `OutcomeNotRecorded` is a store error at the
  end.
* Environment: `Crash` (a worker loses its local state, the table stays), `ExpireLease`, `BecomeReady`, and `Land`
  and `Vanish`: a request whose answer nobody awaits takes effect later, or never.

Rate-limited takes the branches of transient, and conflict those of permanent, so the model has one class for each pair.

A lease that runs out under a worker that still works is a fault (the worker is slower than the lease of 30 seconds).
So are crashes, lost and negative answers, a busy database.  `MaxFaults` bounds them, and properties about the program without
faults say `faults = 0`.

### Left out of `Outbox`

Topic operations (`CompleteTopicDelivery` and `SetChatState` have no caller outside the tests), `depends_on_id` (never written after
the topic is bound), echo reservations, byte limits (the count limit stands for both), single parts of a message and their
captions and retirement, the contents.  These are data the properties do not tell apart, or belong to a later module.

### `TelegramPolling`: state and actions

| Variable | Code |
| --- | --- |
| `arrived`, `kind`, `kept`, `lapsed` | what Telegram received, holds and dropped after 24 hours (external) |
| `cursor`, `inbox`, `drawn` | `bridge_cursor`, `bridge_inbox` by update and epoch, the random epochs |
| `pc`, `own`, `batch`, `next` | where a process is in `RunPolling`, its cursor in memory, the events of a poll and the offset behind them |
| `silent`, `idle` | whether seven days have passed since `lastContact` in a process, and in truth |
| `reason` | the class of the error `RunPolling` returned |

A process boots (`main`), reads the cursor or founds the stream with an epoch of its own (`ReadCursor`, `DrawEpoch`,
`FoundStream`), asks who it is (`Initialize`) and loops: `Poll` or `PollNothing`, then `Commit`, which is
`AcceptTelegramBatch` with its three outcomes.  Every error that `RunPolling` returns stops the process (`Ends`), and
`docker-compose` starts it again.  `PollFails` keeps the loop going for the two classes that are tried again.  `Crash`,
`StoreFails`, `Lapse` and `Week` are the other faults.  Nothing excludes a second process on the database, so there are two.

At a request Telegram forgets what lies below the offset (`Forgets`), and answers with some of the oldest updates that are
left; that is how `poll` and its callers use it.  What happens to an admitted row until its end, with its lease, is one step here,
`Settle`, and is taken apart in `Inbox`.

### `Connection`: state and actions

| Variable | Code |
| --- | --- |
| `socket`, `events`, `paired` | the socket of whatsmeow, the events it is dispatching, the device (external, but for `Disconnect`, dials and pairing) |
| `stopped` | the context of `main` is cancelled |
| `pc`, `attempts`, `result` | where `main` and `Run` are, the local counter of `Run`, what it returned |
| `registered`, `signal`, `terminal`, `notifying` | the handler is registered, the token in the channel, `Client.terminal`, a handler between setting it and `notify` |
| `offered`, `at`, `admitted`, `acked` | a message on its way through `handle`: handed over at this login, the event it is at, the events in the inbox, acknowledged |
| `unseen`, `late`, `faults` | dials since the last login, dials since the block, faults |

`New` and `IsPaired` are `main` up to the call of `Run`; a number of attempts above 20 ends there.  `CheckTerminal`, `LookAtSocket`, the
three cases of the backoff, `Dialled` and `DialFails`, `Wait` and the two cases of the select, `Recheck`, `Disconnect` and `Unregister` are
`Run`, split wherever another goroutine can act.  `HandleEvent` and `Notify` are `handle` for events of the connection: the token is put in unless it is there.
`HandleMessage`, `Admit` and `AdmitFails` are `handle` for a message, which may become several events of the bridge (a history sync).

The library is modelled by how the code uses it: its socket changes first and the event comes later (`Login`, `Drop`, `Block`); an event finds the
handlers that are registered when it is dispatched; a message is handed over once for each login until it is acknowledged, and with no handler
registered the library acknowledges it itself (`client.go:76-77`, `SynchronousAck`).  Pairing (`PairingConnects`, `Pair`) makes a socket before `Run` begins.

### `Timers`: state and actions

| Variable | Code |
| --- | --- |
| `stored`, `cached`, `commands` | the chat's timer in `bridge_cursor`, in `chatTimers` of each process, and the number of commands |
| `planned`, `version`, `tombstone` | the message: planned, its edits, its burial |
| `create`, `part`, `revokes` | the outbox row of its create, the parts in `bridge_part`, the deletions planned by the timer |
| `timer`, `target`, `due`, `owner`, `expired` | the row in `bridge_timer`, with its deadline and its lease |
| `found`, `busy`, `held` | a handler between `FindParts` and `PlanEvent`; the timer loop between `ClaimTimer` and `CompleteTimer`, and the parts it read |

`SetChatTimer` is `/timer`, whose store may fail unseen.  `PlanMessage` plans a create with or without a timer.  `FindParts`, `PlanEdit` and
`PlanRevoke` are handlers, `BeginSend`, `CompleteCreate` and `CreateFails` the delivery of the create.  `CancelStale`, `ClaimTimer`,
`CompleteTimer` and `CompleteTimerFails` are `StepTimer`; `CompleteTimer` is one transaction with all its checks.  `RecoverExpiredLeases`, `Deadline`, `ExpireLease` and
`Restart` are the rest.  A part that is recorded after the burial is an `orphan`: marked as deleted, never deleted.

`Outbox` has the same timer as one step, `TimerExpire`, and looks at its rows; here the rows are left out and the timer is taken apart.

### `Versions`

`Compare` is `SourceVersion.Compare`; `Judge` is what `applySource` makes of one version it has, and `JudgeBoth` asks first the
version of the part and then the version in effect.  The order of a version is in the unit of its source, which the instances keep:
seconds from Telegram, milliseconds from WhatsApp.

### `Topics`: state and actions

| Variable | Code |
| --- | --- |
| `chat` | the row of `bridge_chat`: known, its topic, its generation |
| `forum` | the topics of the Telegram group, with whom each was made for (external) |
| `walk` | where a process is in `EnsureTopic`, `/bind` or `UpdateMetaCard`, and the local variables it has |
| `card` | how many cards a topic shows (external), and whether `bridge_cursor` has the number of one |

`EnsureTopic`, `Bind`, `UpdateCard` and `Sync` begin a walk; `DiscoverChat`, `CreateTopic` (or `CreateTopicFails`), `ReadGeneration`,
`BindTopic`, `EditCard`, `PostPhoto`, `PostText` and `RecordCard` are its steps, one for each transaction or call to Telegram; `Return` takes its result and
`Stop` is a crash.  `MayBind` and `SameBinding` are the checks of `BindTopic` together with the unique index of the table.  Only the inbox loop
of a process walks, so a process has one walk; a second process, or an operator with `/bind`, may do anything in between.

### `Inbox`: state and actions

| Variable | Code |
| --- | --- |
| `row`, `state`, `owner`, `expired`, `ready` | `bridge_inbox`: event, state, lease, its deadline, `available_at_ms` |
| `message` | `bridge_message` and `bridge_source_state`: known, tombstone, the versions of the two parts and of the message; the delivery of its create and the copy in `bridge_part` |
| `sender` | the set of sent ids in the memory of each process |
| `pc`, `job` | where a process is in `StepInbox`, and with which row |
| `fate`, `plans` | what became of an event and how often it was planned (kept for the properties) |

`Accept` admits an event (one from Telegram names a topic that is there, or an operator's command does: `MayCome`); `ClaimInbox` gives out the lowest row that nothing holds back (`HeldBack`).  A handler then finds its way to the chat
(`RouteTelegram`, `RouteWhatsApp`, the walk of `Topics`, `Reached`) or does a command (`Command`, `Commanded`), looks the message up
(`LookCreate`, `LookMutation`, `TooLate`), may go aside for the topic of an author or the card of a chat (`ToPlan`, `BackFromAside`), and ends
in one transaction: `PlanCreate`, `PlanEcho`, `PlanKnown`, `PlanStale` are `PlanEvent`, and `PlanRefused` its errors; `Finish` and `DeferInbox` are the
other ends.  `ExpireLease`, `RecoverExpiredLeases`, `BecomeReady` and `Crash` are the rest, and `BeginSend`, `LoseCreate` and
`CompleteCreate` what the handlers can see of the outbox.

`IsBridgeDispatched` has two of the three ways of the code to know an echo.  The third, `MatchEcho`, asks for the actor and
the digest of the event, while `BeginSend` reserves the JID of the chat and the digest of the Telegram message, so it never finds any.
An echo that is not known becomes a message of its own (`PlanEcho`), and takes the part that the copy of the first was to have.

The events left out are those that no adapter makes (`chat.title`, `chat.timer`, ...), and commands that write nothing that is followed here.

## Runs

| Run | Instance | Shows |
| --- | --- | --- |
| `outbox_delivery` | 2 workers, 1 message, 3 rows, 2 chunks, limit 2, 2 faults, hooks; 0.5 million states | the type invariant, `AtMostOnce`, `NoOvertaking`, `UnsentMeansUnsent`, `DeliveredInFull`, `LostIsNotForgotten`, `LatestIntentOnly`, `LastRevokeIsValid`, `SettledForGood`, `ImplementsCourier` |
| `outbox_live` | 1 worker, 2 messages, 3 rows, 1 chunk, limit 2, 1 fault, hooks; 0.8 million states | `Progress` |
| `uncertain_is_recorded` | 1 worker, 1 message, 2 rows, 2 faults | a violation, see below |
| `revokes_reach_telegram` | the same without faults | a violation |
| `polling` | 2 processes, 3 updates, batches of 2, inbox of 2, 1 fault; 1.2 million states | the type invariant, `NothingLost`, `CursorMatchesInbox`, `AdmittedOnce`, `CursorOnlyAdvances`, `EventuallyAdmitted` |
| `connection` | 2 attempts, a message of 2 events, 3 faults; 0.6 million states | the type invariant, `NoLostWakeup`, `DialsAreBounded`, `OneDialAfterTerminal`, `AckedIsAdmitted`, `TerminalEndsRun`, `Recovers` |
| `timers` | 2 processes, 2 parts, 2 edits, 2 commands, 3 faults; 0.07 million states | the type invariant, `RevokedOnce`, `DeletionsArePlanned`, `OnlyItsVersion`, `DueIsSettled` |
| `messages_disappear` | 1 process, 1 edit, no faults | a violation |
| `topics` | 2 processes, 2 chats, 1 topic made by hand, 4 topics, 1 fault; 2.7 million states | the type invariant, `ActiveStaysPut`, `TopicsAreAccountedFor`, `CardsAreAccountedFor` |
| `inbox` | 2 processes, 2 chats, 9 kinds of events, 3 rows, 1 fault; 2.6 million states | the type invariant, `PlannedOnce`, `VersionsAdvance`, `EchoStopsHere`, `MessagesFindTheirTopic`, `WalksAsTopics` |
| `inbox_live` | 1 process, 12 kinds of events, 3 rows, 1 fault; 0.3 million states | `EventsSettle` |
| `every_row_ends` | 1 process, 3 rows, no faults | a violation |

**Why the bounds are enough.**  Rows of different messages do not meet except in the limit of the outbox and in the order of
claiming, so one message holds the interesting cases of order.  What concerns planning needs
a create, an edit or a revoke that supersedes, and a row planned while an earlier one is being sent, which are three rows.  What concerns sending
needs two faults, which give each pair of a crash, a lapsed lease and a lost answer: that is what it takes for a late
worker to meet a recovered row, and three rows are enough to be overtaken.  Two chunks make a create
that can fail half way, and a revoke of several parts.  A limit of two makes planning fail and blocks the timer's revokes.
Two workers are what a row and its lease can tell apart.  Workers are interchangeable, so the safety run
uses symmetry; the run with liveness does not.  Larger instances are the business of the theorems.

For polling, two processes found the stream twice and commit one batch in both orders, and the fault makes one of them crash at any point;
three updates in batches of two make a batch that overlaps another, and an inbox of two rows is full before the last one.
Three epochs are enough for every one that two processes can draw with one fault before the first is durable.

For the connection, three faults give any three of a loss, a failed dial, a refused admission and a block, in every order, and two attempts tell a budget that is
renewed from one that is not.  Two events tell a message admitted in part from one admitted in full.  For timers, two processes are a worker that comes late and
the one that took over; three faults let it lose its lease, fail once and crash; two parts can be read one before and one after the create.

For topics, two processes and an operator are all who can be between the reading of a chat and its binding, and one fault leaves a topic half made.  Four topics are the one made
by hand and all that one chat can be given by two processes and a fault; in the runs of the inbox `MaxTopics` is never reached.  For the inbox,
three rows are a message, what is said of it, and a row of another chat or a command that comes between; two processes are a
handler whose lease has lapsed and the one that was given its row.  An edit on the phone comes
once with its time and once without.  What larger instances would show of safety is proved.

The runs of the inbox and of topics do not look for deadlocks: once every event is handled, or the topics and faults of the instance are used up, there is nothing left to do.

The runs of the outbox do not look for deadlocks: with the messages of the instance planned and settled, the loops only poll an empty table, which the
model leaves out.  `Progress` is what says that nothing gets stuck before.

**Fairness.**  `FairSpec` assumes that the delivery loop goes on (`RunDeliveryLoop` returns only with its context and
swallows errors, `delivery.go:17-43`), that the recovery loop ticks (`coordinator.go:191-203`, every 30
seconds), and that time passes.  A call to a platform returns: the HTTP client of the Telegram adapter has a timeout
(`telegram/client.go:63-70`), and the WhatsApp library has one of its own.  Nothing is assumed of planners, of faults, or of the platform.  The
limit on faults means that from some point on there are none.

The `FairSpec` of `TelegramPolling` assumes that a stopped process is started again (`docker-compose.yml:8`, `restart: unless-stopped`)
and that a poller goes on: each of its requests has a timeout (`polling.go:189`).  It does not assume that the inbox is ever drained;
`EventuallyAdmitted` says what happens while there is room.

The `FairSpec` of `Connection` assumes that `Run` goes on (its backoff is a timer, its dials have timeouts in the library) and that the goroutines that dispatch
events do; nothing of WhatsApp, so `Recovers` takes a connection that never logs in as settled.  That of `Timers` assumes the timer loop
(`coordinator.go:224-244`) and the recovery loop, and that time passes; nothing of handlers and deliveries.

The `FairSpec` of `Inbox` assumes that handlers go on (every call of theirs has a timeout), that a lease that nobody ends lapses, that the recovery
loop ticks, and that a deferred row becomes available again.  Its one strong assumption is that a row that can be claimed over and over is claimed: `ClaimInbox` takes
the lowest id, and a row that is put off makes room for `RetryBase` (a second by default), in which the loop comes round many times.  Where two rows come back for ever and a round takes longer than that,
they may keep the loop from a third; `EventsSettle` leaves that case out.  Nothing is assumed of admission or of the delivery of creates.

No run of `Connection` and `Timers` looks for deadlocks: a process that is over, or a message that is settled, does nothing more.

### Findings

* `UncertainIsRecorded`.  When the answer to a Telegram edit or deletion is lost, `sendTelegram` sends a notice instead, and the row is
  recorded with the notice's outcome, although the edit may still take effect (`delivery.go:264-292`).
  `docs/COORDINATOR.md:70` says such outcomes become `uncertain`.  For creates and reactions the promise holds: that
  is `LostIsNotForgotten`.
* `RevokesReachTelegram`.  Planning a revoke marks the parts deleted (`work.go:336-346`), and the client that should
  delete them refuses parts marked deleted (`lifecycle.go:42`).  Only the notice is posted; the README lists
  native deletion.
* `MessagesDisappear`.  An edit makes the timer stale (`timers.go:98`) and plans none, so an edited message stays.  `docs/STORAGE.md:242-244` asks that
  the deadline be carried over.

* `EveryRowEnds`.  The order of a Telegram version is its edit date in seconds (`contracts.go:60-85`), so an edit in the second in which the message was written is a
  conflict in `applySource`.  `PlanEvent` fails, the loop takes no notice, and the row stays leased until the recovery loop makes it
  pending again, for ever.  `docs/SUPPORT_MATRIX.md:171` orders such edits by update id, and puts aside what cannot be ordered.

Other things seen while modelling, which no run states; most are in the hazards of `PROJECT.json`, each at its line:

* A full inbox or a busy database is called transient (`polling.go:134-147`), and ends polling and the
  process; `docs/TELEGRAM.md:9` promises a backoff.
* The guard at `polling.go:88` is given the present as the time of the last contact (`main.go:127`), so a
  restart passes it after any absence.  `polling_test.go:98-99` calls that offset unsafe.
* `handleWhatsAppEvent` makes a topic for a chat that has none (`inbox.go:384`); `docs/COORDINATOR.md:35` says that such an event is completed
  without being forwarded.
* A topic that was made and could not be bound is made again by the next event (`meta.go:59`), though `docs/DECISIONS.md:15` and `docs/SUPPORT_MATRIX.md:165` say
  that the making of topics is never blindly repeated.
* `MatchEcho` never matches (`inbox.go:655`), so an echo that comes before its create is recorded, after a restart, is forwarded; `docs/COORDINATOR.md:38` names it as one
  of three protections.
* An edit on the phone has an order in milliseconds, after which every edit on Telegram, in seconds, is stale (`work.go:298`).
* The offer and the end of a call have one key, and the second is refused (`normalize.go:505` and `582`).

* `main.go:157-162` leaves `LookupMessage` and `OperationTime` unset, without which the WhatsApp client refuses edits, revokes and
  reactions: every edit of a WhatsApp message ends dead, though `README.md:247` lists edits as native.
* Reactions of the driver get the kind `telegram.reaction`, which is not known, and are put aside at admission.
* `whatsapp.New` refuses more than 20 attempts (`client.go:94`); the configuration allows 100.
* A refused event of WhatsApp is not tried again while the connection holds (`connection.go:131-134`).
* `setChatTimer` ignores the error of the store (`coordinator.go:207`), and the user is told that the timer is on.
* A row is recorded as dead because the database was busy at `BeginSend`; events are dropped for want of a counterpart.

## Proofs

`OutboxProofs` proves, for every number of workers, messages, rows, chunks and faults, with or without the hooks:

| Theorem | States |
| --- | --- |
| `TypeCorrect` | `Spec => []TypeOK` |
| `NeverTwice` | `Spec => []AtMostOnce` |
| `InOrder` | `Spec => []NoOvertaking` |
| `UnsentIsUnsent` | `Spec => []UnsentMeansUnsent` |
| `OutcomesStay` | `Spec => SettledForGood` |

The assumptions are those on the constants in `Outbox`: `Nobody` is not a worker, the bounds are natural numbers, a create has at least
one request.

**The argument.**  None of these is inductive alone.  `AtMostOnce` needs to know that a worker that makes a request has a row
that has begun (`Calling`), that it has not made this request nor a later one before (`Calling`), that no other worker makes requests for
the same row (`Apart`), and that a row that has not begun has no request (`Untouched`), so that a row that is begun anew starts
from nothing.  `Apart` needs `Begun`: a row that has begun never returns to the queue, so nobody can claim it.  This
is why the code may skip the lease check while it is sending: a worker that has lost its lease goes on, but its row can only be
`uncertain`.  `NoOvertaking` needs `Numbered`: ids are handed out in order, so a new row has no later ones.  `IInv` is
the conjunction, checked with TLC before it was proved.

**The layout.**  Three groups of lemmas, one for each part of `IInv`: types; the table (`TableStep` sums up what any action may do to the
rows, so that the three invariants of the table are shown for `TableStep` once); and the workers with their requests.  Each has
one lemma per kind of action, and `NextInvariant` puts them together.

### What waits, and what became of it

`OutboxOutcomeProofs` goes on from there, with the same assumptions.  Its invariants are inductive together with `IInv`.

| Theorem | States |
| --- | --- |
| `OnlyLatestIntent` | `Spec => []LatestIntentOnly` |
| `RevokeStaysValid` | `Spec => []LastRevokeIsValid` |
| `SuccessIsDelivery` | `Spec => []DeliveredInFull` |
| `NothingLostIsForgotten` | `Spec => []LostIsNotForgotten` |

The first two are the planners' part, `IntentInv`.  A handler plans from parts that it read in an earlier transaction, so what keeps the queue current is what every planner does
at its end, whatever it had read.  The operator `Plans` sums that up for all six of them: the new version, the rows that it inserts and the kinds that it supersedes.  Beside the two properties the invariant says
that no row is newer than its message (`Known`), that a row of a revoke has its tombstone (`Buried`), which is why an event after a revoke
can no longer change the version that `BeginSend` compares with, and that a row that is being sent is marked so (`Marked`).

The other two are the workers' part, `OutcomeInv`.  `DeliveredInFull` needs that a worker at chunk *k* has had all before it carried out (`Chunks`), and that the row is still its own, or was put
aside (`Hold`), when it comes to record a success.  `LostIsNotForgotten` needs for every request that is out, where the worker stands that may report on its row: it waits for that very answer, or
is about to record that it got none (`Out`).

### The outbox implements the courier

`OutboxRefinementProofs` proves `Implementation`: `Spec => ImplementsCourier`.  Planning is the courier's entry and its withdrawals (`PutAccepts`, `PlanRefines`), `BeginSend` its
attempt, which is in turn because of `NoOvertaking` (`BeginSendTries`); `CompleteDelivery` and `FailDelivery` are its conclusions, `RecoverExpiredLeases` the loss of
track of an attempt (`RecoverLosesTrack`), and everything else a stutter.  `FailDelivery` needs both halves of what was proved before: that an outcome other than "not tried" belongs to a row that has
begun (`Grounded`, `Marked`), and that a row that has begun is not queued again (`Begun`), because the courier has no second attempt.

### Polling

`TelegramPollingProofs` proves, for every number of processes, updates and faults, and every limit:

| Theorem | States |
| --- | --- |
| `PollingTypeCorrect` | `Spec => []TypeOK` |
| `NoUpdateLost` | `Spec => []NothingLost` |
| `CursorAndInboxAgree` | `Spec => []CursorMatchesInbox` |
| `NoUpdateTwice` | `Spec => []AdmittedOnce` |
| `CursorNeverBack` | `Spec => CursorOnlyAdvances` |

From the assumptions that `NoEpoch` is not an epoch and that the bounds are natural numbers.  `NothingLost` alone is not inductive: a poll makes
Telegram forget what lies below the poller's offset, so all of that must be in the inbox already.  `Follows` says that a
poller's offset is not ahead of the durable one, `Filled` that what lies below the durable one is in the inbox, and `Covers` that a
batch in memory spans the gap between the two offsets it was polled with, so that `Commit` keeps `Filled`.  `Below` says that rows are of
the one epoch of the cursor: a process that draws another one finds the conflict before it admits anything.

### Connection

`ConnectionProofs` proves, for every budget, every number of events in a message and every number of faults:

| Theorem | States |
| --- | --- |
| `ConnectionTypeCorrect` | `Spec => []TypeOK` |
| `RunIsWoken` | `Spec => []NoLostWakeup` |
| `DialsWithinBudget` | `Spec => []DialsAreBounded` |
| `BlockEndsDialling` | `Spec => []OneDialAfterTerminal` |
| `AcknowledgedIsAdmitted` | `Spec => []AckedIsAdmitted` |

From the assumption that the number of attempts is one the configuration allows.  The wake-up needs `Attended` (while `Run` is at work its handler is registered, so no
event of a socket goes unheard), `HearsLoss`, and `HearsEnd`: the block may come after the check of `Client.terminal`, and then its news must survive until the wait.
The budget needs that each dial since the last login is counted (`Counted`), the single dial after a block that `Run` has looked since (`Stopping`), and the acknowledgement that
the events of a message are admitted in turn (`InTurn`) and that the socket is gone before the handler is (`Attended`).

### Timers

`TimersProofs` proves, for every number of processes, parts, edits, commands and faults:

| Theorem | States |
| --- | --- |
| `TimersTypeCorrect` | `Spec => []TypeOK` |
| `NoPartTwice` | `Spec => []RevokedOnce` |
| `NoPartLeftOut` | `Spec => []DeletionsArePlanned` |
| `NoOtherVersion` | `Spec => []OnlyItsVersion` |

From the assumptions that `Nobody` is not a process and that the bounds are natural numbers.  The invariant has a half for the time before the timer is done
(`Before`: it has planned nothing, and no part is marked while the message is not buried) and one for the time after (`After`).  `CompleteTimer` leads from one to the other
because the parts it deletes are exactly those that are live in its own transaction (`Covers`), whatever was read before.

### Topics

`TopicsProofs` proves, for every finite number of processes, and every number of chats, topics and faults:

| Theorem | States |
| --- | --- |
| `TopicsTypeCorrect` | `TopicsSpec => []TopicsTypeOK` |
| `TopicsStayPut` | `TopicsSpec => ActiveStaysPut` |
| `CardsBound` | `TopicsSpec => []CardsAreAccountedFor` |
| `TopicsBound` | `TopicsSpec => []TopicsAreAccountedFor` |

From the assumptions in `Topics`: there are processes, finitely many; the topics there are at first belong to different chats; the bounds are natural numbers.  (That the set of processes
is finite and not empty is needed because the bounds count processes.)

`Shape` says where each walk can be and what it has in hand (`OnItsWay`), that a topic belongs to one chat, and that a chat without a topic never had one.  The two bounds are
not inductive: a topic becomes empty at one time because of something that happened at another.  So the invariant counts what is already lost together with what is about to be.  For cards, as long as the store
knows of none, those shown are covered by faults and by the processes that hold one in hand; from the moment one is recorded, those who are on their way to post (`Posting`) are
the only ones who still can, and the recorder is no longer among them.  For topics, as long as the chat has none, those that stand empty, and the walks that cannot be
written (`Unwritten`), have had their faults; from the moment of the binding, those who are still making one (`Making`) will each leave theirs empty.

### Inbox

`InboxProofs` proves, for every finite number of processes, and every number of chats, messages, events, rows and faults:

| Theorem | States |
| --- | --- |
| `InboxTypeCorrect` | `Spec => []InboxTypeOK` |
| `InboxPlansOnce` | `Spec => []PlannedOnce` |
| `InboxWalksAsTopics` | `Spec => WalksAsTopics` |
| `InboxTopicsStayPut`, `InboxTopicsBound` | `Spec => ActiveStaysPut`, `Spec => [](TopicsAreAccountedFor /\ CardsAreAccountedFor)` |
| `InboxStopsEchoes` | `Spec => EchoStopsHere` |
| `InboxVersionsAdvance` | `Spec => VersionsAdvance` |
| `InboxMessagesFindTheirTopic` | `Spec => []MessagesFindTheirTopic` |

From the assumptions of `Topics` and those of `InboxAssumption` on the events there may be, which are what the adapters make: an event is of a message just when its kind is; only WhatsApp
tells of a message of the other side; Telegram sends no revokes; a command names a chat.

`WalksAsTopics` is the refinement: each action of a handler is, on the variables of `Topics`, one action there or none (`NextWalks`).  Together with the theorems about `Topics` it gives the two corollaries
for the whole program.  `PlannedOnce` needs that a row that is done has no lease, and that ids are handed out in order (`RowsInOrder`).  `EchoStopsHere` is about a gap: a handler lets
an event pass and plans it later, having perhaps made a topic or a card in between; `EchoPassed` says that it cannot become the sender of that message on the way.  `VersionsAdvance` rests on one
fact about versions, `AppliedIsLater`: what `Judge` lets through is later than what it was compared with.

`MessagesFindTheirTopic` counts like the bounds of `Topics`, one layer up.  A message is passed over because its handler comes back from its walk without a topic, and
that is decided earlier: by a fault, by another process that bound its own topic first, or by an operator who gave the topic that was just made to another chat.  `MessageCount` adds up the
messages that were passed over, the handlers on their way back (`Failing`), and those that will fail (`Doomed`), against these causes.  It needs that no two handlers have the same topic in hand (`OneHandEach`).

**What the proofs corrected.**  Two attempts failed because the statement was wrong, and TLC then showed why once the instance had the case.

* An edit on the phone may come without its time, and then has the order 0 (`normalize.go:290`), which `applySource` does not compare across kinds (`work.go:298`): such an edit can replace a later version.
  `VersionsAdvance` leaves out versions without a time, and the instance has one.
* The bound on the messages that are passed over had left out the operator: he may bind the very topic that a handler has made and not yet bound.  `TakenFrom` counts those.

A third failed at a `CASE` whose arms overlapped: TLC takes the first, but the language leaves the choice open.  `Judgement`, `PlanKnown` and `CompleteCreate` are now written with
`IF`, in the order of the code.

## Checked only

Liveness: `Progress`, `EventuallyAdmitted`, `TerminalEndsRun`, `Recovers`, `DueIsSettled` and `EventsSettle`.  They rest on fairness, and so on `ENABLED`, which the prover does not handle.
The runs check them on the instances above.  The four runs that expect a violation are counterexamples, and say nothing beyond their instances.

## Not modelled

* The media pipeline: a call converts one file with an external program in a directory of its own; calls share no state, and a failure is the refusal of a send.
* Configuration, migrations, the notices of pairing: read or written once at start, or exchanges with a library that leave no bridge state.
* Normalization of events, beyond their kinds and versions: decoding of library structures.
* The rate limiter of the Telegram client: it delays a call under a mutex, and time is not measured in the models.
* Titles, the text of cards, quotes, mentions and captions: contents that no property tells apart.
