# Formal model of omacalendar

omacalendar is a calendar for the desktop. A daemon keeps all events in a
SQLite database, applies the user's edits to it at once, and synchronises them
in the background with Google, CalDAV servers and subscribed ICS feeds. What is
hard about it is what happens between the edit on the screen and the server:
edits that go on while a synchronisation runs, replies that never come, a
daemon that dies half-way, another client that changes the same event.

This directory holds TLA+ modules of that part of the program, the TLC
configurations that check them and the TLAPS proofs about them. Paths below are
relative to the repository.

    tlc -workers 2 -config DrainAll.cfg MCGoogleDrain.tla     one run
    tlc -workers 2 -config RangeSlide.cfg GoogleRangeSync.tla a counterexample
    tlapm OutboxProofs.tla                                    the proofs of a module

## 1. The system

### Components

| Component | Source | State | Operations |
|---|---|---|---|
| Event store, outbox, conflicts | `src/core/database.cpp` | tables `events`, `outbox`, `conflicts`, `calendars.sync_token` | `saveLocalEvent`, `discardOutbox`, `updateOutboxState`, `completeOutbox`, `readyOutbox`, `recoverExpiredOutbox`, `applyRemoteSyncBatch`, `removeRemoteEvents`, `resolveConflict`, `resolveNewestConflicts`, moves |
| Daemon handlers | `src/daemon/daemon.cpp` | undo token, scheduler flags | IPC methods `events.*`, `conflicts.resolve`, `outbox.retry`, `operations.discard`, start-up recovery, conflict pass after a sync |
| Google sync job | `src/providers/google/googlesync.cpp` | one `SyncJob` per account: calendars, staged changes, snapshot of the outbox, index, tokens | `syncAccount`, list and stage pages, apply, `drainOutbox`, `dispatchNextOutbox`, `handleMutationResult`, `finish`, reauthorization |
| Chunked application | `src/sync/chunkedsyncapply.cpp` | request, position | one transaction per chunk and per turn of the event loop |
| Google client and mapper | `googleclient.cpp`, `googlemapper.cpp` | requests in flight | If-Match, deterministic event ids, JSON |
| Google authorization | `googleauth.cpp` | sessions, pending refreshes, tokens | connect, refresh, cancel, forget |
| Keyring | `secretstore.cpp` | helper processes under way | store, look up, remove, each asynchronous, cancelled by a successor or killed by a timeout |
| CalDAV sync and client | `src/providers/caldav/` | one job per account, the password in use, ranges asked for | connect, discovery, sync-collection or ctag listing, hydration, PUT, DELETE, MOVE, ambiguous creates, the this-and-future probe |
| ICS feeds | `src/providers/ics/` | subscriptions, validators, requests under way, back-off | subscribe, fetch, replace, credentials, disconnect |
| Task sync | `googletasksync.cpp`, `caldavtasksync.cpp`, `databasetasks.cpp` | task rows, their base and owed operation, tombstones | push, merge, pull |
| Retry policy | `src/sync/retrypolicy.cpp` | none | classify an error, delay, attempt limit |
| Sync coordinator and activity | `synccoordinator.cpp`, `syncactivity.cpp` | requests under way; due, suspended, online | route and merge requests; decide when to sync |
| Local provider | `localprovider.cpp` | none | acknowledge rows of local calendars |
| Reminders | `reminderscheduler.cpp`, delivery tables | claims, leases, notifications | plan, claim, deliver, snooze, recover |
| IPC | `src/ipc/` | subscriptions, revision | snapshot, broadcast, catch up |
| Application | `src/app/` | undo and redo stacks, view models | commands, presentation |
| Recurrence, quick add, free/busy, PDF, paths | `src/core/`, `src/app/` | none | pure functions, formatting, files |

`PROJECT.json` lists them with their status.

### How they interact

The daemon has one thread and one event loop. A command from the application
or the CLI arrives over a local socket, a handler writes the event and its
outbox row in one transaction, answers, and asks the coordinator to sync. The
provider's job is a chain of callbacks on the same loop: request, reply, one or
more transactions, next request. So a handler never runs in the middle of a
transaction or of another handler, but runs between any two replies of a job.
Everything that has to survive a crash is in the database or the keyring; the
job, the sessions and the ranges asked for are not. The keyring is reached
through helper processes that do their work and report at different times.

An edit takes this way: `events.update` -> `saveLocalEvent` (event dirty, row
`pending`) -> `readyOutbox` -> snapshot in the job -> row `sending` -> request
-> `completeOutbox` (row `done`, event replaced by the server's copy, clean) or
`retry_wait` or `blocked`. A pull meets the same event in `applyRemoteSyncBatch`:
a clean row is refreshed, a dirty one is kept and a conflict is recorded;
after the job `resolveNewestConflicts` decides it by the timestamps, or the user
does.

### What is hard

* The job works on copies of rows the user's commands go on changing.
* Rows are folded into each other, cancel each other and depend on each other.
* The server may have done what the client believes failed.
* Identity (remote id) and revision (etag) of an event become known only with
  the acknowledgement, while further mutations are already queued.
* A pull is applied in many transactions; its token must come last.
* Three parties decide a conflict: the pull, the timestamps and the user.
* What the record of a calendar claims (a token, a tag, covered ranges) must
  be true of its contents, however the pull that wrote it was composed.
* A move between accounts is carried out by two engines that do not know of
  each other.
* Passwords and refresh tokens are in three places (memory, keyring, server) and
  change by callbacks that may come late or never.
* A reminder is claimed, sent and recorded in three steps, while its event is
  stored again, moved, removed and restored underneath it.

Each concrete place is a hazard of `PROJECT.json`, with its line and the
property that watches it, or a note saying why none does.

### What makes each component correct

* Store: rows well-formed and owned by events; the queue never waits for
  itself; one event per remote id.
* Drain: an event is created once; a remote version is replaced only by an
  edit based on it; a local edit is neither overwritten nor forgotten; a clean
  event is what the server has; every mutation comes to an end; a quiet account
  equals the remote calendar.
* Chunked application: the token never covers a change that was not applied.
* Reminders: each is delivered or dismissed in the end, once unless there is a
  reason, and what the user asked of it (later, never, not this calendar) stands.
* Range synchronisation: the covered days are exactly those read, and the local
  copy of a covered day is what the server had when its token was issued.
* CalDAV: a mutation is settled under the server's conditions, a move never
  leaves the event nowhere, a stored token or tag is true of the cache.
* Tasks: an edit is never lost to an answer or a list that was read before it,
  other fields are left to other clients, a removal reaches the server.
* Accounts: what is in use can be restored after a restart; a disconnected
  account is not revived by anything but the user.
* Feeds: a validator stands for the events that are cached.
* Moves between accounts: the source outlives the move until its copy arrived.

## 2. Modules

| Module | Models | Builds on |
|---|---|---|
| `OutboxStore` | events, outbox and conflicts, one action per transaction | |
| `GoogleDrain` | one Google account's job, the server, other clients, faults | `OutboxStore`; implements its `StoreSpec` |
| `AccountMove` | a move between two accounts, drained by two engines | `OutboxStore` |
| `DayCoverage` | what covered ranges promise: a set of days | |
| `GoogleRangeSync` | listings, hydration, tokens and covered ranges of a Google calendar | implements `DayCoverage` |
| `GoogleAccount` | authorization, tokens, keyring and job of a Google account | |
| `CalDavPull` | discovery and the three kinds of pull of a CalDAV account | |
| `CalDavDrain` | the CalDAV outbox: conditional writes, ambiguous creates, moves, the probe | |
| `CalDavAccount` | the password of a CalDAV account, from entry to removal | |
| `TaskStore` | the tasks table, the user, the list at the server, other clients | |
| `CalDavTasks`, `GoogleTasks` | the jobs of the two kinds of account | `TaskStore` |
| `TaskSync` | the composition; properties of tasks | both jobs |
| `IcsFeed` | one subscribed feed with its credentials | |
| `ReminderDelivery` | the reminders of an event and their notifications | |
| `OutboxProofs` | theorems about the store | `OutboxStore` |
| `DrainProofs` | theorems about the engine, its refinement of the store | `GoogleDrain`, `OutboxProofs` |
| `AccountMoveProofs` | theorems about moves between accounts | `AccountMove`, `OutboxProofs` |
| `GoogleProofs` | theorems about covered ranges, their refinement, and about a Google account | `GoogleRangeSync`, `GoogleAccount` |
| `CalDavProofs` | theorems about a CalDAV account and its pull | `CalDavPull`, `CalDavAccount` |
| `TaskProofs` | theorems about tasks | `TaskSync` |
| `IcsFeedProofs` | theorems about a feed | `IcsFeed` |
| `ReminderProofs` | theorems about reminders | `ReminderDelivery` |

### OutboxStore: the database, one action per transaction

| TLA+ | Code |
|---|---|
| `events[e]` = rid, etag, content, dirty, deleted | a row of `events`; the title, times and so on are one `content` |
| `outbox[o]` = event, op, state, dep, expected, rid, content, deleted, grace, backoff | a row of `outbox`; rid, content, deleted are the payload; `grace` and `backoff` say that `not_before` and `next_attempt_at` lie ahead |
| `conflicts[e]` | the unresolved row of `conflicts`, with both snapshots and the order of their timestamps |
| `CancelUnsynced`, `Coalesce`, `Enqueue` | the three outcomes of `saveLocalEvent` |
| `CreateEvent`, `UpdateEvent`, `RemoveEvent`, `UndoRemove`, `DiscardOperation`, `RetryOperation`, `ResolveByUser` | the IPC handlers |
| `ApplyRemote`, `RemoveRemote` | `applyRemoteEventInternal`, `removeRemoteEventInternal` |
| `SetState`, `Acknowledge`, `AcknowledgeRemoval` | `updateOutboxState`, `completeOutbox` with and without a remote event |
| `KeepLocal`, `KeepRemote` | `resolveConflict` |
| `GraceOver`, `BackoffOver`, `Recover` | time; `recoverExpiredOutbox` |

`StoreSpec` lets any provider call these transactions in any order. It is the
abstract specification: what the store promises to whatever engine drives it.

A create's provider id is computed from the idempotency key of its outbox row
(`eventIdForClientMutation`), so the model uses the row's number for it. The
`updated_at` timestamps appear only through their order, chosen freely when a
conflict is recorded ("unknown" also for a missing timestamp or a tie).

### GoogleDrain: the engine, the server and the other clients

`GoogleDrain` extends the store with the job of one account (`job`, by phase),
the sync token, the authorization status, the remote calendar with its version
counter, the other clients' changes, and the faults: a failed request, a lost
reply to an update or removal (`lost_reply`), a create carried out unheard
(`unheard_create`: its reply is lost, or the daemon dies before it), a 401, a crash.
The phases of `Busy` lie inside one handler, where
control does not return to the event loop: only a crash can fall between their
transactions. In all other phases the user's commands run.

A request and its reply are one step. Between the server's decision and the
delivery of the reply only the user (who does not touch the server) and other
clients (who do not touch the store) can act, so each order of them is also an
order around the joint step; the snapshot the request was made from is fixed
before. A reply that is lost, and a crash between the two, are separate actions.

One chunk of a pull is one change: the program takes up to 32 events and up
to 32 deletions in a transaction, in the order of two separate lists, so any
order of single changes over-approximates it. The windows, pages and pruning of a
pull are `GoogleRangeSync`'s.

`StoreRefinement` (run `drain_all`) says that each step of this engine is a step
of `StoreSpec`, so what is proved of the store holds under this engine.

What the engine promises about contents fails once a command meets the job
(section 5). Two specifications therefore follow the engine up to such a command:

* `CalmSpec`, up to the first undo, discard or retry, and the first command that
  changes a row which the job has copied and not settled, or queues something behind
  a copied create. Every other edit, removal or conflict decision may come at any
  moment of a job.
* `OrderlySpec`, up to the first retry of a finished row, and the first decision about
  a conflict of an event of which the job has copied a row. Everything else, also on
  the very rows being sent, may come at any moment of a job.

### ReminderDelivery: the rows of an event's reminders and the scheduler

| TLA+ | Code |
|---|---|
| `jobs[k]` = state, snooze, token | a row of `reminder_jobs`; a key stands for a fingerprint (occurrence, alarm, time) |
| `event`, `instances`, `muted` | the event, its `event_instances`, `calendars.ignore_alerts` |
| `calls`, `pending`, `active` | the Notify calls on D-Bus, `m_pending`, `m_active` |
| `RebuildReminderJobs` | `rebuildReminderJobs` and `rebuildEventInstances`, run whenever an event is stored (`EditEvent`, `RefreshEvent`, `RemoveEvent`) |
| `UndoRemove`, `DeleteEvent`, `HoldEvent`, `SetMuted` | `discardOutbox`, the deletion of the row, `hasPendingSeriesRemoval`, `updateCalendarPreferences` |
| `CheckNow` | `checkNow` up to its loop: recovery, sweep, `dueReminders` |
| `DeliverDismisses`, `DeliverWaits`, `Deliver` | the outcomes of `deliver` for one due row |
| `ResultShown`, `ResultRefused`, `ResultTimesOut` | `onNotificationResult` with an id, and after an error the service reported or D-Bus did |
| `OnRemindersSnooze`, `OnRemindersDismiss`, `OnActionInvoked` | the IPC handlers and the buttons of a notification |
| `PrepareForSleep`, `Crash` | logind's signal; the death of the daemon and `start` |

Dates appear only through what the code compares them with: a fire time is
early, due or past the grace of two hours, an occurrence has started or not, a
snooze and a lease have run out or not. The clock moves these flags in any
order, and never back. A check runs to its end within one handler: in the phase
`deliver` only the clock, the notification service and a crash act.

A lease (two minutes) outlives the timeout of a D-Bus call (25 seconds), so
it passes under a call the daemon still waits for only when the daemon did not
run; that is the fault "stall". After a crash, a timeout or a failed write it
passes by itself. A call D-Bus gives up on may or may not have been shown.

It keeps its own small picture of the event, not the store's: which handler
stored the event does not matter to its reminders.

### GoogleRangeSync and DayCoverage

`sync_coverage` is a set of intervals `<<first, past>>`; `Merged` is
`mergeSyncCoverageInternal`. A listing is incremental only if its window is
covered and there is a token; otherwise it shows the window, prunes what it did
not show, and covers it. The ranges `wanted` are hydrated one after the other. An
event is its day and revision, a page is a choice of the events it shows, and
between two pages, and between two steps of the apply, the server and the user
go on. `DayCoverage` says in four actions what all this may do to the days
covered: the refinement mapping takes the union of the intervals.

### CalDavPull

A server offers a collection's sync token, a ctag, or neither. `DiscoverCollections`
reads the tags; a calendar is then skipped (`Unchanged`), asked for its changes
(`ChangesAnswered`), its ETags (`EtagsAnswered`, `MultigetAnswered`) or listed
(`QueryAnswered`, also for a hydration); `Committed` is the last step of `ChunkedSyncApply`, which takes
the preferences of the row as it finds it. A multiget may answer without a
body. Two ranges stand for time: the default window and what is older. `NewYear`
moves the window between two jobs, so that it is no longer covered as a whole.
The history `outrun` names the calendars for which a listing of the window stored
a token while the older range was covered too: that token says nothing of it.

### CalDavDrain

The row of one event, its outbox rows, and the resource it has in each of two
collections. The phases of `job` are the requests of `caldavsync.cpp`: `put`,
`delete`, `readBack` (a PUT answered without ETag), `lookupCreate` and
`lookupConflict`, `move`, and for the fallback `putTarget`, `readTarget`,
`readSource`, `deleteSource`; `probe...` is the this-and-future probe, which
shares the job's slot. `job.outbox` holds the copies of the rows that were ready when
the drain began (`DrainOutbox`); it is they that are sent, whatever was folded into the
rows since, and a copy whose row was deleted ends the job (`Vanished`). Servers differ in ETags, MOVE and recurrence ranges:
`Init` chooses.

### Tasks

`TaskStore` has the row of a task (title, notes, base, owed operation, revision)
and the server's list. The user edits titles and other clients edit notes,
so that "the other field" of a merge is visible; both writing one field is
decided for the later write by design. The histories `unheard`, `edited`, `altered` and
`recreated` name the tasks whose create was carried out unheard, and those of them that the
user edited or another client changed since, or that had a resource before which was gone.
`CalDavTasks` has If-Match,
If-None-Match, the merge after 412 and the ctag; `GoogleTasks` matches an
unconfirmed create against the list before repeating it.

### Accounts

`GoogleAccount` and `CalDavAccount` separate what a keyring helper does from what
the daemon hears of it. A helper that is killed may have done its work. Signals
of a session run their observers synchronously, so what `GoogleSync` does to the
account and its job is part of the action that emits. `CancelAuthorization` takes any
account, as `google.oauthCancel` does: it ends the session, that of a connected account
too, and leaves a job that waits for the token where it is. Generations
(`m_credentialGeneration`, session and persist generations) appear as "the
helper that is not outdated".

### IcsFeed

The subscription, its account and events, the two keyring entries, requests
under way and the chunks of an apply. `m_refreshing` is emptied by an update of
the credentials or a disconnection while the request goes on, so up to two
requests are under way.

### AccountMove

Extends the store by the accounts of source and target (remote or local), what
is `held` at their servers and one request per engine. `MoveEventAcrossAccounts`
queues a create and a removal that depends on it in one transaction; `Send`,
`Execute` and `Answer` are a remote engine, `DrainLocal` is `LocalProvider`. The
commands are those the activity panel offers.

### The other modules

The modules named `...Proofs` are the subject of section 6; `MCGoogleDrain`
only adds the symmetry sets.

## 3. Runs

| Run | Question | Properties |
|---|---|---|
| `drain_all` | Every user command between any two replies, with a failure, a lost reply of any kind, a 401 or a crash | `TypeOK`, `NoDependencyDeadlock`, `RemoteIdentityUnique`, `NoDuplicateRemote`, `StoreRefinement` |
| `drain_sequential` | Edits, removals and conflict decisions that do not meet the rows of the job (`CalmSpec`), two faults of any kind | `Converged`, `CleanIsFaithful`, `LocalEditRemainsVisible` |
| `drain_settles` | Edits, undo and discard during the job, failures, lost replies of updates and removals, a crash, with fairness | `NoSilentOverwrite`, `EveryMutationSettles` |
| `account_move` | A move between accounts of either kind, with edits, undo, discard, retry, failures and crashes in both engines | `SourceOutlivesMove`, `HiddenHasOperation`, `MoveSettles` |
| `range_sync` | Listings and hydrations under changes, edits, an expired token, a failure or a crash | `CoverageSeparated`, `CoveredIsFresh`, `CoverageRefinement`, `HydratedBeforeForgotten` |
| `google_account` | One account under every command, two faults of any kind | `TokenSavedBeforeConnected`, `DisconnectedStaysForgotten`, `ConnectedAccountSyncs` |
| `caldav_pull` | Two collections of different kinds, other clients, preferences, a fault or a new year | `ClaimIsTrue`, `PullConverges`, `PreferencesSurviveApply` |
| `caldav_drain` | Every mutation of an event against every kind of server, another client, a fault of every kind | `Converged`, `MoveKeepsTheEvent`, `EveryMutationSettles` |
| `caldav_account` | Passwords, keyring answers, jobs, disconnection, two faults | `UsedIsStored`, `DisconnectedStays` |
| `task_sync` | Both providers: two commands, a write of another client, a fault | `OneResourcePerTask`, `EditKept`, `OtherFieldKept`, `RemovalReachesServer`, `Converges` |
| `ics_feed` | Subscribing, fetching, credentials, disconnecting, a fault | `NotModifiedIsTrue`, `RemovedLeavesNothing`, `FeedConverges` |
| `reminders` | A reminder under two changes of its event and calendar, a fault of any kind, the user, sleep | `NoSpuriousRepeat`, `SnoozeKept`, `MutedStaysSilent`, `EveryReminderEnds` |

The modules state further properties, which the runs leave out for time: they
too were checked, and their mutants are next to them. Adding a name to the cfg
of the run checks it.

| Run | Also holds |
|---|---|
| `drain_all` | `DrainTypeOK` |
| `drain_sequential` | `NoMissedChange`, `OpenConflictIsDirty`, `QueuedEditIsDirty`, `IdentityResolved`, `NoSilentOverwrite`, `DoneNeverSentAgain` |
| `drain_settles` | `OneRowPerCreate`, `StoreRefinement` |
| `account_move` | `MoveTypeOK` |
| `range_sync` | `TypeOK`, `HydrationCompletes` |
| `google_account` | `TypeOK`, `JobOnlyWhenAccepted`, `WaitingJobIsWoken` |
| `caldav_pull` | `TypeOK`, `HydrationCompletes` |
| `caldav_drain` | `TypeOK`, `ProofIsTrue` |
| `caldav_account` | `AccountTypeOK`, `JobHasPassword`, `DisconnectForgets`, `StoragePendingEnds` |
| `task_sync` | `TypeOK` |
| `ics_feed` | `TypeOK`, `DisconnectForgets`, `StoragePendingEnds` |
| `reminders` | `TypeOK`, `DismissedIsFinal` |

Operators whose comment starts with "Mutant of" are plausible bugs in the
definition they name. They are not used by the specifications; substituting one
must break the property `PROJECT.json` pairs it with, which shows that the
property depends on that piece of code.

### Bounds

| Constant | Bounds | Why it is enough |
|---|---|---|
| `EventIds`, `Contents`, `Events` | events, what they say | one content where a property compares identities or states, two where it compares contents; two events where half an apply must differ from a whole one. With as many event ids as local creates and foreign events together nothing waits for a free id; `drain_all` has fewer, which only cuts behaviours |
| `MaxOps` | outbox rows ever inserted | two rows are a dependency, a coalescing and a removal behind a create; `drain_sequential` takes three, `drain_settles` four, `account_move` four: the two halves of a move and two edits of the copy |
| `NumForeign`, `MaxForeign`, `MaxChanges` | events, or writes, of other clients | one is enough for a conflict, a deletion or a pull; with the user's own writes a pull has several changes. CalDAV pulls take two: one before and one after a read. Tasks take one, besides the one that may be there at first: the theorems cover every number for the safety properties, and `Converges` also holds with two, which takes four minutes |
| `MaxEtag`, `MaxVersion`, `MaxTokens`, `MaxPasswords` | versions, tokens, passwords | old, new, and one that overtakes. `ForeignAllowed` keeps an etag in reserve per mutation not accepted yet, so that the bound never makes the server refuse |
| `MaxEdits`, `MaxCommands`, `MaxRequests`, `MaxEntered` | commands of the user | one before, during and after a job, or a command and its undoing |
| `MaxFaults`, `MaxAccountFaults` | faults | one loses a reply or ends a job in each of its phases; the runs about conflicts, accounts and account moves take two, for a fault during the recovery from another and for a second engine |
| `MaxAttempts` | attempts of a mutation | the code's own six |
| `MaxDay`, `Width`, `MaxSpan`, `MaxSlides` | days of the calendar, of the window, of a request; moves of the window | three days let two intervals lie apart, touch, overlap and be bridged; the window moves once |
| `MaxFetches` | feed requests under way | an overtaken one and the new one |
| `Commands`, `Faults`, `AccountFaults` | which of the commands and faults exist | the drain's runs share them out: `outbox.retry` may bring a finished row back, which then carries a later edit, so the runs about conflicts and liveness leave it out; only `drain_settles` has no `unheard_create`, since it refutes its liveness (`CreateReplyLost`) |
| `Keys` | reminders of the event | one meets every change and fault; reminders meet only in the order in which one check delivers them, and no row is shared |
| `MaxClaims`, `MaxSnoozes` | deliveries attempted, snoozes | the first, and one for each change, snooze and fault besides: with fewer a reminder would be seen not to end |

`CHECK_DEADLOCK FALSE` is used where a bounded instance really ends: when
the edits and versions are used up and everything is synchronised, only empty
jobs of a timer are left, or nothing.

Event ids and contents are interchangeable, so `drain_all` and
`drain_sequential`, which check no liveness, use symmetry.

### Fairness

Everywhere: replies arrive or time out, Qt delivers every queued callback,
timers fire and deadlines pass. Nothing is assumed about the user, the other
clients, the reconnection of an account or the absence of faults. The number of
faults is bounded by `MaxFaults`, as a transport that fails for ever settles
nothing. In particular:

* `GoogleDrain`: weak fairness of the job's steps, of starting a job (the poll
  timer, `scheduleRetryWake`) and of each deadline; strong fairness of giving up,
  as `RetryPolicy` allows six attempts. Liveness is not claimed under
  `auth`: an account that must be reauthorized waits for the user.
* `CalDavDrain`: the same, with the six attempts counted in the model.
* `AccountMove`: both engines are woken again and again.
* `GoogleAccount`, `CalDavAccount`, `IcsFeed`: the helpers of the keyring end or
  are killed by their timeout. The start of a CalDAV job is strongly fair, since
  the user's check for support, which takes the same slot, can come again and
  again but the timer fires also between two of them.
* `GoogleRangeSync`, `CalDavPull`, `TaskSync`: the poll timer, requests and
  steps from the event loop.
* `ReminderDelivery`: the check (every 30 seconds), the steps inside a handler,
  the reply to each call (D-Bus answers with an error after its timeout), each
  deadline, and waking up: a system asleep for ever reminds nobody.

## 4. What the properties say

Store and Google drain:

* `NoSilentOverwrite` is the "silent remote overwrite" of `docs/THREAT_MODEL.md`:
  when this client replaces a live version at the server, some local row was
  based on that very version. It depends on the If-Match header, on
  the revision the acknowledgement passes on to the queued successors, and on
  no pull refreshing a dirty row's etag. It holds for commands at any moment, also on
  the rows being sent, until one of two kinds comes (`OrderlySpec`): a finished row is
  sent again, or a conflict is decided about an event whose row the job has copied.
* `NoDuplicateRemote` is its "mutation replay/duplication": through lost
  replies, crashes, retries, coalescing and conflict decisions the creates of one
  local event leave at most one live event at the server.
* `CleanIsFaithful`: what is shown as synchronised is what the server has at that
  version, or an older one, until a command meets the job (`CalmSpec`). Discarding is
  such a command at any time: a discarded removal that was folded into an unsent update
  leaves the event clean with content never sent (listed as a hazard).
* `LocalEditRemainsVisible`: nothing but the user, or a decision about a conflict,
  replaces what the user wrote before it was sent, in `CalmSpec`.
* `Converged`: with no job, no open conflict, no unfinished row and nothing left
  to pull, both calendars are the same: in the drain until a command meets the job
  (`CalmSpec`), in `CalDavDrain`, as one clean row for each resource and no other, unless
  a removal overtook its create.
* `EveryMutationSettles`: each row is finished, cancelled with its event, or some
  row of its event is blocked, which the user is shown.
* `StoreRefinement`: each step of the engine is a step of `StoreSpec`, so what is
  proved of the store holds under it.

Moves:

* `SourceOutlivesMove` relates two engines through the outbox alone: whatever
  fails on either side, the source is deleted only after its copy arrived, or
  the user gave the copy up.
* `HiddenHasOperation`: an event the user cannot see has an operation that ends
  it or that the user can decide about.
* `MoveSettles`: the halves of a move do not wait for each other for ever.
* `MoveKeepsTheEvent` is the same within a CalDAV account, where the fallback is
  a PUT, two reads and a DELETE: no step but a removal takes the last copy away.

Pulls and ranges:

* `CoverageSeparated`, `CoverageRefinement`: the intervals are apart, so a covered
  request lies in one of them, and stand for exactly the days read.
* `CoveredIsFresh`, `ClaimIsTrue`: what the record of a calendar claims is so.
  Pages read while others write, tags taken before the contents, refused tokens,
  bodies that are missing, hydrations between two incremental listings and
  crashes between two transactions are what could make it lie. For a CalDAV
  calendar the claim is about the window, and about the older range unless a token
  passed over it (`NewYearSkips` of section 5).
* `HydratedBeforeForgotten`: a request that grew while it was read is not dropped.
* `PullConverges`: each enabled calendar becomes what the server has.
* `PreferencesSurviveApply` (`docs/ARCHITECTURE.md`: "Calendar preference changes
  made during apply are preserved").

Tasks:

* `EditKept`, `OtherFieldKept`: neither side of a merge loses what the other does
  not touch; an answer that comes after a further edit leaves it alone. `EditKept` excepts
  CalDAV tasks edited after their create was carried out unheard (`EditAfterLostCreate`
  of section 5), and no Google task.
* `OneResourcePerTask`: unconfirmed creates are recognised. At CalDAV it holds of every
  task. At Google a create carried out unheard is looked for by its content, so it excepts
  such a task if the user or another client changed it since; and a task created a
  second time because its first resource was gone, which is not looked for at all and
  doubles unchanged (`RecreateRepeated` of section 5).
* `RemovalReachesServer`: tombstones outlive the upload they overtook. At CalDAV it excepts
  tasks whose create was carried out unheard and has not been recognised, edited or not:
  their tombstone has no remote id and is dropped, and the task comes back
  (`TombstoneDropped` of section 5). At Google it excepts those `OneResourcePerTask` does.
* `Converges`: both ends become equal for good; no ctag keeps a job from reading.

Accounts and feeds:

* `TokenSavedBeforeConnected`, `UsedIsStored`: what is in use survives a restart.
* `DisconnectedStaysForgotten`, `DisconnectedStays`: no late reply of a helper or a
  server revives an account the user disconnected.
* `ConnectedAccountSyncs`: an account shown as connected goes on synchronising,
  or the user is shown why not. It excepts a session that has reported a failure before
  and a job whose refresh the user cancelled (`RefreshFailsAgain` and `RefreshCancelled`
  of section 5), and a user who cancels again and again.
* `NotModifiedIsTrue`: a 304 leaves the cache alone, so a saved validator must
  stand for the whole cache. `RemovedLeavesNothing`, `FeedConverges`.

Reminders:

* `NoSpuriousRepeat`: a notification for one reminder appears a second time only
  after a snooze, or after a claim had to be given up. The comment in
  `onNotificationResult` concedes exactly the latter.
* `SnoozeKept`: the late reply to the notification the user pressed a button on,
  an expired lease or a restart does not undo a snooze. It rests on the token
  each claim carries.
* `MutedStaysSilent`: a reminder that came due in a muted calendar is not
  delivered when the calendar is unmuted, whether a check ran in between or not.
* `EveryReminderEnds`: each reminder is delivered, dismissed or deleted with its
  event. A snoozed one waits as long as its calendar is muted or the removal of
  its series is queued.

## 5. Where the program and its documents disagree

Modelling met behaviour that a document, a comment or the purpose of the code
excludes. A property states what is expected, its comment says "Violated" or
"does not hold", and a configuration of its own reaches a shortest
counterexample. These configurations are kept beside the runs; they end
with an error on purpose.

| Configuration, module | Property | What happens |
|---|---|---|
| `CreateReplyLost`, `MCGoogleDrain` | `EveryMutationSettles` | A create reached Google, its reply was lost. The next job pulls before it drains and inserts the event a second time (no uid or remote id matches). The retried create gets 409, is found, and `completeOutbox` breaks `events_remote_id_unique`; the row stays `sending` until a restart, and then again. `docs/ARCHITECTURE.md:132` |
| `DeleteInFlight`, `MCGoogleDrain` | `NoOrphanRemote` | A removal queued while the create is in flight has no remote id and is completed without a request (`googlesync.cpp:1907`). The event stays at the server. An update in that window is sent with an empty id (`:1654`). `docs/GOOGLE_TESTING.md:150` |
| `EditDuringDrain`, `MCGoogleDrain` | `LocalEditRemainsVisible` | An edit folded into a row a running job has copied is not sent; the acknowledgement of the copy finishes the row and overwrites the event. `docs/GOOGLE_TESTING.md:154` |
| `DiscardDuringDrain`, `MCGoogleDrain` | `DoneNeverSentAgain` | A row discarded or undone after the snapshot is set to `sending` and sent (`googlesync.cpp:1586`). |
| `RetryFinished`, `MCGoogleDrain` | `NoSilentOverwrite` | `operations.retry` puts a row back into the queue whatever its state (`daemon.cpp:3297`, `database.cpp:4419`). A finished create put back while an update is in flight is taken for one never sent: a removal cancels it and deletes the event, and the update in flight still replaces the server's version. `docs/THREAT_MODEL.md:34` |
| `ConflictDuringDrain`, `MCGoogleDrain` | `NoSilentOverwrite` | A conflict about a removal stays open when the removal is undone; the event is pulled to a newer revision and edited again. Deciding the old conflict for the remote side while the update is in flight sets the event back to the older revision (`database.cpp:5925`), and the update is accepted. `docs/THREAT_MODEL.md:34` |
| `EditAfterConflict`, `MCGoogleDrain` | `KeepLocalKeepsEdits` | Keeping the local side restores the snapshot from the moment the conflict was found; an edit made after that is lost (`database.cpp:5938`). |
| `TargetDisconnected`, `AccountMove` | `SourceNeedsArrival` | Removing the destination account before the copy is sent cascades the create away; a prerequisite that does not exist counts as done (`database.cpp:4362`), so the removal of the source is sent and the event is lost in both places. `docs/IPC.md:230` |
| `RangeSlide`, `GoogleRangeSync` | `CoveredStaysFresh` | When the default window has moved, the next listing shows the window only, and its token skips what changed elsewhere in covered ranges (`googlesync.cpp:1288`). `docs/IPC.md:156` |
| `FalseDeletion`, `GoogleRangeSync` | `ConflictHasCause` | An event edited out of the window is pruned as deleted although the server has it; a deletion conflict is recorded (`googlesync.cpp:1449`). `docs/ARCHITECTURE.md:109` |
| `RefreshFailsAgain`, `GoogleAccount` | `ReconnectedAccountSyncs` | A session reports its first failure only (`googleauth.cpp:720`). A second refresh that fails leaves the job waiting for ever, and the account never synchronises again until a restart. `docs/GOOGLE_TESTING.md:154` |
| `RefreshCancelled`, `GoogleAccount` | `ReconnectedAccountSyncs` | `google.oauthCancel` during a token refresh of a connected account ends the session without a signal (`googlesync.cpp:676`, `daemon.cpp:3525`). The job that waits for the token stays, and the account never synchronises again until a restart. `docs/GOOGLE_TESTING.md:154` |
| `PreferenceLost`, `CalDavPull` | `PreferencesKept` | Every discovery builds the calendar anew and drops `ignoreAlerts`, `colorOverride` and `position` (`caldavsync.cpp:1141`). `docs/releases/1.1.0.md:29` |
| `CollectionDeleted`, `CalDavPull` | `OthersConverge` | A collection deleted at the server keeps its row; every request about it fails, and with it the job, before the calendars behind it (`caldavsync.cpp:1648`). |
| `NewYearSkips`, `CalDavPull` | `CoveredClaimIsTrue` | When the default window is not covered as a whole, after a new year or when another range was hydrated first, the window alone is listed, and the token of the discovery is stored with it (`caldavsync.cpp:1234`, `:1850`). What changed meanwhile in the other covered ranges is never asked for, although "changes outside its range still require a collection-wide pass" (`:1856`). `docs/IPC.md:157` |
| `CreateThenCrash`, `CalDavDrain` | `QueueMovesOn` | A create reached the server and the daemon died. The pull meets its uid without a remote id, breaks `UNIQUE(calendar_id, uid, recurrence_id)` (`database.cpp:591`) and the calendar is never synchronised again. `docs/ARCHITECTURE.md:132` |
| `MoveThenEdit`, `CalDavDrain` | `MovedIsMoved` | An edit folded into an unsent move turns it into an update: the event stays where it was at the server (`database.cpp:3281`). `docs/IPC.md:179` |
| `EditAfterLostCreate`, `TaskSync` | `EditSurvives` | A task's create was carried out unheard and the task edited; the retry gets 412, takes it for done, and the edit is forgotten (`caldavtasksync.cpp:241`). `docs/IPC.md:266` |
| `RecreateRepeated`, `TaskSync` | `TaskNotDoubled` | An update finds its Google task gone and creates it again in the same step (`googletasksync.cpp:301`); the reply is lost. The row still has its old remote id, so the next job does not look for the task, gets 404 again and creates it a second time, although nobody edited it. `googletasksync.h:22` |
| `TombstoneDropped`, `TaskSync` | `RemovalSurvives` | A CalDAV task is removed whose create was carried out unheard. Its tombstone has no remote id, and the next job drops it as "removed before it was ever uploaded" (`caldavtasksync.cpp:199`); the resource stays and the task comes back with the pull. `databasetasks.cpp:476` |
| `PasswordDropped`, `CalDavAccount` | `LastPasswordUsed` | A synchronisation that starts while a new password is being stored looks up the old one and kills the helper (`caldavsync.cpp:521`). `docs/CALDAV_TESTING.md:9` |
| `UndoReminders`, `ReminderDelivery` | `RemindersScheduled` | Undoing a removal resets the event's columns and rebuilds neither its reminders nor its instances (`database.cpp:4745`). `database.h:271` |

Five properties are checked both ways. `LocalEditRemainsVisible` and
`DoneNeverSentAgain` hold until a command meets the job (`CalmSpec`) and fail when one
does; `NoSilentOverwrite` holds until one of the two commands of `OrderlySpec` comes and
fails after either; `EveryMutationSettles` holds with failures, crashes and lost replies
of updates and removals and fails when a create is carried out unheard; and
`ConnectedAccountSyncs` is `ReconnectedAccountSyncs` with the exceptions that
`RefreshFailsAgain` and `RefreshCancelled` reach.

Smaller observations, seen in the code while it was modelled; the
properties are stated so that they do not speak of them:

* Storing an event again, even unchanged, replaces its snoozed reminders by
  pending ones (`database.cpp:1616`): `SnoozeKept` speaks of the time between.
* Keeping the local side after a remote deletion while the removal is in flight,
  then a failure and a 401, can leave an event clean with a content the server
  never saw.
* Google: a conflict decided for the provider brings back an old snapshot, which
  may lie outside the window after a reset; deletion conflicts and ties stay
  unresolved; the back-fill of older history stops at the first calendar without
  coverage.
* CalDAV: a row is left `sending` until a restart when the job is told to stop
  during its request; a PUT answered without ETag whose read-back fails is
  followed by an unconditional one; a lost reply of an update or removal ends in
  a conflict with the own edit, or blocked; on a server with ctags only, a
  changed tag has the window read again while hydrated older ranges keep
  counting as covered.
* Tasks: enabling a list during a job is undone by the job's copy of the list; an
  edit while the ETag is unknown is sent unconditionally; after 412 and a further
  edit the other client's field can be overwritten.
* Accounts: a keyring helper that is cancelled, or a daemon that dies during a
  disconnection, can leave a secret in the keyring.
* Feeds: new credentials do not abort the request under way; its answer may be
  applied beside the new one (`icsservice.cpp:484`; the history `lateWrote`).

## 6. Proofs

What TLC checks on small instances is proved here for all values of the constants
that satisfy the named `ASSUME` of the module (`StoreAssumption`,
`DrainAssumption`, `MoveAssumption`, `RangeAssumption`, ...). They say that the
bounds are natural numbers, that sets of model values have the elements the
initial state needs, and nothing about how large anything is: the bounds cut
behaviours off, so a theorem for all of them speaks of every finite
behaviour of the code. Five theorems about the Google engine speak of `CalmSpec`, two
of `OrderlySpec`: these are restrictions of the behaviours, not of the constants,
explained in section 2 and refuted beyond by the counterexamples named there. Each module has one inductive invariant, found with TLC,
one lemma per action or kind of transaction that keeps it, and short theorems that
read the properties off it.

| Module | Theorems | Property of a run |
|---|---|---|
| `OutboxProofs` | `TypeCorrect`, `NeverDeadlocked`, `IdentityCorrect`, `OrderCorrect` | `TypeOK`, `NoDependencyDeadlock`, `RemoteIdentityUnique` |
| `DrainProofs` | `EngineRefinesStore`, `NoDuplicateCorrect`, `EngineNeverDeadlocked`, `EngineIdentityCorrect`, `DrainTypeCorrect` | `StoreRefinement`, `NoDuplicateRemote`, `NoDependencyDeadlock`, `RemoteIdentityUnique` |
| `DrainProofs`, of `CalmSpec` | `CleanIsFaithfulCorrect`, `ConvergedCorrect`, `LocalEditCorrect`, `QueuedIsDirtyCorrect`, `CalmCorrect` | `CleanIsFaithful`, `Converged`, `LocalEditRemainsVisible` |
| `DrainProofs`, of `OrderlySpec` | `NoSilentOverwriteCorrect`, `BaseCorrect` | `NoSilentOverwrite` |
| `AccountMoveProofs` | `SourceOutlivesCorrect`, `HiddenCorrect`, `MoveNeverDeadlocked`, `MoveTypeCorrect` | `SourceOutlivesMove`, `HiddenHasOperation` |
| `GoogleProofs`, the ranges | `CoverageRefined`, `SeparatedCorrect`, `FreshCorrect`, `HydrationKept`, `SyncTypeCorrect` | `CoverageRefinement`, `CoverageSeparated`, `CoveredIsFresh`, `HydratedBeforeForgotten` |
| `GoogleProofs`, the account | `TokenSavedCorrect`, `ForgottenCorrect`, `JobAcceptedCorrect`, `AuthTypeCorrect` | `TokenSavedBeforeConnected`, `DisconnectedStaysForgotten` |
| `CalDavProofs`, the pull | `ClaimCorrect`, `PreferencesSurviveCorrect`, `PullTypeCorrect` | `ClaimIsTrue`, `PreferencesSurviveApply` |
| `CalDavProofs`, the account | `UsedIsStoredCorrect`, `DisconnectedCorrect`, `JobHasPasswordCorrect`, `AccountTypeCorrect` | `UsedIsStored`, `DisconnectedStays` |
| `TaskProofs` | `OneResourcePerTaskCorrect`, `EditKeptCorrect`, `OtherFieldKeptCorrect`, `RemovalReachesServerCorrect`, `TaskTypeCorrect`, `TaskInvCorrect` | `OneResourcePerTask`, `EditKept`, `OtherFieldKept`, `RemovalReachesServer` |
| `IcsFeedProofs` | `NotModifiedCorrect`, `RemovedCorrect`, `FeedTypeCorrect` | `NotModifiedIsTrue`, `RemovedLeavesNothing` |
| `ReminderProofs` | `NoSpuriousRepeatCorrect`, `SnoozeKeptCorrect`, `MutedStaysSilentCorrect`, `DismissedIsFinalCorrect`, `DeliveryTypeCorrect` | `NoSpuriousRepeat`, `SnoozeKept`, `MutedStaysSilent` |

### The store

* `TypeCorrect` is inductive by itself. It includes that every row and conflict
  belongs to an existing event, so each action that deletes an event must delete
  what hangs on it.
* `OrderCorrect`: a row depends only on rows with a smaller number. A new row
  depends on the newest existing one, a coalesced row keeps its dependency,
  nothing else writes it.
* `NeverDeadlocked`: the property is not inductive: two rows waiting for each
  other next to a ready row satisfy it until that row is done. It follows from
  `DependencyOrder`: among the unfinished rows there is a least one
  (`LeastNatural`, from the well-foundedness of the naturals), and what it
  waits for is smaller, hence finished or deleted.
* `IdentityCorrect`: a pull inserts a remote id only when no row has it,
  everything else keeps ids or clears them; the acknowledgement alone needs
  `AckCollides`, the unique index.

### The engine on the store

`EngineInv` is the types of tables, server and job, and what the job's phase says
of its other fields: a row that is being dispatched is in the snapshot, a staged
change has a version, the refusal that is looked into names an event of the
server. With it each step of the engine is one of `StoreNext` or leaves the store
alone, action by action; this is `EngineRefinesStore`, and the store's
theorems hold of the engine by it (`EngineNeverDeadlocked`,
`EngineIdentityCorrect`).

`NoDuplicateRemote` speaks of two creates of one event that are both live at the
server, and is not inductive. `HomeInv` adds where an event's identity comes
from: a create is gone at the server or is the one its event is named after;
of two creates of one event one is gone; any other row, its copy in the snapshot
and a conflict "deleted" speak of the event's own resource or of one that is gone.
The proof states once what a step may do to identities, rows and conflicts
(`HomesKept`), shows that this keeps each part of `HomeInv`, and then that each
action does no more.

### The engine until a command meets the job

`CleanIsFaithful`, `Converged` and `LocalEditRemainsVisible` are about contents and
versions, and are false of the whole engine: section 5 lists the counterexamples, and
in all of them a command changes a row under the job that sends a copy of it, or a
row was discarded, undone or retried. The theorems are about `CalmSpec`, the behaviours
up to the first such command. `CalmNext` is `Next` but for the user's commands, which are
those that `ApartFromJob` allows:

    CalmSpec == Init /\ [][CalmNext]_drainVars

So they say what the user may rely on, and `ApartFromJob` says exactly which command
ends it. Nothing is assumed of the constants. The user creates, edits and deletes
events and decides conflicts at any moment of a job, also events whose queue the job
has settled already or has not copied; other clients write at any moment; failures,
lost replies, refused tokens and crashes come between any two replies. The run
`drain_sequential` has the same specification.

`CalmInv` is inductive given `EngineInv`, `RemoteIdentityUnique`, `DependencyOrder` and
`HomeInv`. It has two halves.

* `RowsAgree`: an event is dirty exactly while a row of it is unfinished; each
  unfinished row carries the identity and the revision of its event, the newest
  one its content, and only the oldest one was ever started (`QueuesFine`). What a
  job has copied still says what the row says, and the row is the oldest
  (`SnapFine`, `PhaseFine`). A create left marked as sending, or with an edit behind
  it, has arrived at the server, or was given up (`CreatesHeard`).
* `VersionsAgree`: no revision in the tables is ahead of the server, and the
  server's own revision comes with the server's content (`TablesTrue`,
  `ClocksFine`); a staged change lies between the token and the cursor and is no
  older than the store (`StagedFine`); what the token or the applied pages cover
  is in the store, as a revision, as a conflict or as a deletion
  (`TokenCovers`); an event that a row of this client created is in the store
  before the rows are sent again (`CreateSeen`).

The last conjunct settles the case that looks worst. A create whose reply was lost
is pulled before it is retried, so the store has its remote id under another
event; the retried create is refused, looked up and found, and its
acknowledgement always breaks the unique index (`ReconcileCollides`). The
duplicate of section 5 stays, but nothing is overwritten by it. The rest
of the argument: a row with a conflict is refused by the server, since its
revision is older; a row with an edit behind it is acknowledged without touching
the event's content; and the newest row's acknowledgement writes what that row
and the event both say.

A command during the job is the case that `ApartFromJob` was made for
(`UserEditApart`, `ResolveApart`): what it changes is the queue of an event of which the
job has no unsettled copy, or adds behind a copied update, whose acknowledgement then
leaves the content of the event alone.

The lemmas say per transaction of the store what it does to the queues
(`...Queues`) and to the versions (`...Versions`), per kind of step of the job what
it needs of them (`RowsBeside`, `VersionsOutside`), and per action that it is
such a step (`...Calm`). `LocalEditCorrect` is about steps and follows from `CalmInv`
before the step.

### What a request is based on

`NoSilentOverwrite` needs less, and holds far beyond `CalmSpec`: edits, removals, undo,
discard and retry may strike the very rows being sent. `If-Match` compares the revision
that the copy in flight names, so the question is whether that is also the revision
the event has at that moment. `BaseInv` is inductive given `EngineInv`,
`DependencyOrder` and `HomeInv`:

* `RowsBased`, `CopiesBased`: a row that may still be sent, and a copy of an existing row,
  names the revision of its event or one the server no longer has. A copy in flight
  whose row was deleted names none the server has.
* `CreatesWait`: an event with a create that may still be sent has no identity, and
  one such create only. This is what a retried finished create destroys
  (`RetryFinished`).
* `RevisionsNamed`, `RevisionsBehind`: an event has a revision with its identity, and
  no revision in the store or staged is ahead of the server's. So a pull, or the
  acknowledgement, moves an event's revision only to the newest one, whereupon the older
  ones that requests name are not at the server any more. Deciding an old conflict for
  the remote side is the one step that moves it back (`ConflictDuringDrain`).

`BaseMoves` states what a step may do to revisions, rows and copies, `BaseInvKept`
that it then keeps each conjunct, and one lemma per transaction and action
(`...Based`) that it does no more.

### A move between accounts

`SourceOutlivesMove` is lost by a removal that is sent too early, so `MoveInv` says
what holds it back (`SourceOK`). That it waits for the create of the copy is not
enough: a discarded create counts as done. It is the "blocked" which the
discard gives to the removal in the same transaction that keeps it back until
the user decides. The rows of the copy meanwhile are its create and, at a
provider, edits; so the first request that is carried out makes the copy.

For `HiddenHasOperation` the shape of the queue is needed (`ChainOK`): a row
behind an unfinished one of its event was not sent and waits for that very one.
So a row that is acknowledged, refused or retried is the first one, the
newest row of a hidden event is its removal, and that one is finished last.
`SetState` to a state outside the queue keeps `ChainOK` only for a first row; the
engines respect that because `readyOutbox` asks for `DependencyMet`.

### Covered ranges

A lemma on `Merged` (`mergeSyncCoverageInternal`), for any set of separated
intervals and any new one: the result is separated, and stands for exactly the
old days and the new ones. `CoverageSeparated` and the refinement of `DayCoverage`
follow step by step. `FreshInv` relates the rows, the conflicts and what
a listing has read, staged or removed to the server's revisions: what the token
of the listing stands for is staged, applied or removed, page by page. It holds
while the window stands where it first stood, as `CoveredIsFresh` does; that it
stops there is the counterexample `RangeSlide`. `HydrationKept` is about the list of
ranges asked for.

### What a CalDAV token or tag claims

`ClaimIsTrue` speaks of the tables only; a job breaks it if what it applies does
not belong to what it commits. `PullInv` follows the claim from the discovery to the
last transaction.

* `ListOK`, `RowOK`: the rows a job carries, taken at its start, claim what the table
  claims, unless the token was refused; the user changes only preferences meanwhile.
* `NewClaim` and `Promised` say what the table will claim, and of which ranges, if
  the answer is applied. An answer to a token promises what was promised before,
  a hydration adds its range and keeps the claim, a listing of the window
  promises the window alone.
* `StagedOK`: what is staged is what the server has, or the server has a later
  change, beyond the claim to be made. So it may be written over the local copy.
* `RemovedOK`: what is to be removed lies in nothing that is claimed, before and
  after. For an event that a hydration does not show, this needs `ClaimIsTrue`
  itself: were its new place covered and claimed, the local copy would have
  followed.
* `ProgressOK`: all that will be claimed is in the local copy, or staged, missing or
  to be removed. For a ctag server it rests on the comparison of ETags
  (`CacheOK`: a shared version says the same), for a token on the claim it was
  asked with; both hold although the tag was taken before the contents.

The proof attempt found that the claim is false of older ranges once a listing of
the window stores the discovery's token beside them, which happens on larger
instances than the run's and whenever a new year moves the window: the
counterexample `NewYearSkips`. `PreferencesSurviveApply` follows from what the
transactions write.

### Tasks

The four theorems hold for both providers, for any number of commands, of writes of
other clients and of faults. None of the four properties is inductive: a job carries
copies of rows through several requests, and a create that was not heard of leaves a
resource which no row knows. `TaskInv` says what the four places have to do with each
other. Its part `World` takes the server, a table, a set of copies and the histories as
arguments: a command and the job it starts are one step, so the lemma about the
command speaks of the table which the lemma about the start of the job takes up.

* Rows and copies (`CopiesFollow`, `CopiesHaveRows`, `CopiesDistinct`): a row of which a
  job holds a copy still owes a write; with the revision of the copy it is what was
  copied, with a later one it was edited or removed. So `completeTaskWrite` tells by the
  revision alone whether an answer may write the row. No two copies speak of one
  resource.
* Rows and resources (`RowKnows`, `Unclaimed`, `Attended`, `CopyKnows`): the resource
  made for a row is known to it by its remote id, or the row can recognise it, or the
  task is one of the exceptions below; and what is about to be uploaded as a new task has none. Before a
  Google job has looked for unconfirmed creates this is weaker (`CopyRecognises`).
  The look takes any unclaimed task of the same content. That it is the right one
  rests on `TitlesOwned`: a title of a task without a remote id is in that task, its
  copies and the resources made for it only, since each command has a stamp of its
  own. At CalDAV the name of the resource is that of the row (`OwnName`).
* `SameTitle`: a task that owes nothing has the title of its resource. A pull
  changes no title for that reason, and may be applied whenever it arrives.
* The notes (`RowNotes`, `CopyNotes`, `OvertakenSeen`): the notes of a row are those of
  the copy it is based on, whose ETag is the condition of the upload. An upload that is
  accepted therefore repeats the server's notes, and after a 412 the merge takes them
  over. `OvertakenSeen` marks what an edit during an upload does to this.
* `TagsOK`: tags that are stored or carried are not ahead of the collection's.

`OneResourcePerTask` is one conjunct of `World`; the other three are about steps, and
every lemma about an action gives the invariant after the step together with what
the step promises (`StepOK`). The exceptions are stated in the properties, in terms of
the histories of the model: for a create carried out unheard `edited` (CalDAV,
`EditKept`), no remote id in the row yet (CalDAV, `RemovalReachesServer`), `edited`,
`altered` and `recreated` (Google), and `overtaken` for the notes. Section 5 has what
happens to such tasks, so that none of the exceptions can be dropped.

### Accounts and the feed

`AccountInv`, `AuthInv` and `FeedInv` name what is under way and what it may assume.

* CalDAV: there is one helper, and whoever starts one forgets the loaded
  password or has none, so the password in use and the one in the keyring
  cannot part.
* Google: a session that knows of no stored token belongs to an account that is
  not connected, and nothing else goes on while an account is being
  disconnected.
* Feed: `NotModifiedIsTrue` is about the saved validator, but a request carries a
  copy of it, and a 304 repeats the copy. `TrustedOK` therefore speaks of all the
  validators somebody relies on (`Relied`). An answer that is being applied
  breaks it in between unless nobody relies on the present version meanwhile
  (`OvertakenOK`), and must leave the cache as the feed (`ProgressOK`). Only
  the newest request is as good as that, and there is at most one (`OneNewest`).

### Reminders

`DeliveryInv` ties together what the three steps of a delivery leave in different
places. `BudgetOK` keeps an account for each reminder: the calls that were or may
be shown, plus one if it can be sent again without a cause, are at most one plus
its causes. A claim spends that one; a refusal gives it back together with the
call; a snooze, a timeout and a recovered lease pay for the next; a rebuild replaces
only rows that could be sent anyway. The account needs that a claimed row's
token names a call made for this row (`TypeOK`), that the next token is
new (`TokensOK`), and that a row which `deliver` reaches is still as `dueReminders`
found it (`DueOK`): in a handler only the clock, the service and a crash act.
The action properties follow from `DueOK`, from `MissedOK`, which says where a
reminder missed in a muted calendar can be, and from one lemma (`RowStepNext`)
on what any step may do to a row.

The theorems assume that an event has finitely many reminders
(`ReminderAssumption`): instances are expanded for a bounded window.

### What stays with TLC

* Liveness (`EveryMutationSettles`, `MoveSettles`, `PullConverges`, ...) and ENABLED:
  out of the prover's reach.
* The properties of `CalDavDrain`: not yet proved.

## 7. Not modelled

In the modelled components: recurrence (masters, exceptions, scopes),
`local_revision`, the mirror tables, attendee replies; native moves between the
calendars of a Google account, its calendar list and the lookup of occurrences;
several CalDAV components in one resource; task lists that come and go, subtasks
and order; import and export of ICS files; the limits of 100 or 500 ready rows
over all accounts; invitations and their digest; failing database reads, and
clocks that move back.

Other components, and why: sync activity (suspend, network, foreground) decides
only when a job starts, which the modules leave open under fairness; the IPC
layer and the application's undo stacks are the next candidates of the plan.
Left out for good are formatting and parsing (iCalendar, XML, JSON, PDF, quick
add), recurrence expansion (a pure function whose reference definition would be
the RFC again), presentation, packaging.

## 8. Plan

Next proofs, the most important first:

1. `Converged` of `CalDavDrain`, along the lines of `CalmInv`.
2. `MoveKeepsTheEvent` of `CalDavDrain`.

Next modules, should a question deserve a run: `InvitationDelivery` (baselines
and digests across a restart during a first synchronisation), `IpcSubscription`
(snapshot, subscription and revision), `UndoRedo` (tokens of coalesced
removals), `LocalRevision` (the ABA of expected revisions), `SyncActivity`.
