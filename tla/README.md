# Formal models of beaver-nest

`apps/bnest-app` is a small family web application: a Phoenix/LiveView server with one SQLite file
(and, before its migration, one JSON file per record), a browser client for the family chat room,
and JavaScript tools that release it in two slots of one host. This directory holds TLA+ models of
the parts of it whose correctness depends on order, overlap, failure and time, the TLC
configurations that check them on small instances, and proofs that TLAPS checks. The repository also
carries the scripts by which an agent watches its CI, which are modelled too.

Paths below are relative to `apps/bnest-app` unless they begin with `plans/` or `.agents/`.

## 1. Inventory

| component | state it keeps | operations | hard behaviours |
|---|---|---|---|
| **Scheduler** `lib/bnest_app/scheduler*` | schedules (revision, next slot, expiry), the run ledger (state, attempt, lease, retry time), coordinator per node, task processes | tick: claim due slots, recover leases and retries, start tasks; complete, skip, fail, renew; operator edit, setup run, run now; release convergence | two slots tick on one database; tasks die, outlive their lease, answer late; missed days coalesce; edits race claims |
| **Push notifications** `lib/bnest_app/push_notifications*` | subscriptions (owner, active), deliveries (state, attempt, lease, next), dispatchers | upsert, disable; post with deliveries; claim due, send, finalize, retry, retire, disable gone; retention | overlapping drains, an HTTP request between claim and outcome, dispatchers that die or stall past their lease, ceiling arithmetic, two-pass retention |
| **Storage** `lib/bnest_app/storage*` | pointer (phase), flat files, `bnest_records`, migration runs and items, lease directories | get/put/delete with revisions, dry run, migrate, parity, switch, retire, admin page move | migration beside writers, processes killed anywhere, a lock kept in directories, compare and write in two statements |
| **Backups** `lib/bnest_app/backup*` | configured destination, artifacts and receipts, the run's row | claim, snapshot, promote, receipt, complete, fail, retain, reconcile, save destination | a task overtaken while it promotes, dying between receipt and ledger, retention of a stale list, the operator switching directories |
| **Family chat outbox** `assets/js/family_chat/outbox*.js`, `persistence_indexeddb.js`, `logout.js` | queue per page, request per attempt, timers, IndexedDB rows | send, retry, discard, resume, pause, go online/offline, hydrate, log out | several tabs and several requests of one message, unknown outcomes, delayed writes, closing pages |
| **Family chat room, server** `lib/bnest_app/family_chat*` | rooms, messages | post (idempotent), page of messages before or after an ID, publish | find-then-insert, publication after the commit, to one slot only |
| **Family chat room, browser** `reconnect.js`, `history.js`, `real_store*.js`, `read_marker.js`, `graphql.js`, `mount_browser*.js` | window of rendered rows, read position, highest committed ID, generation, subscription | first load, subscribe, push, reconnect and catch up, own send and its answer, load older or newer, jump to the newest | four sources of messages that nothing orders, requests for history that overlap everything else, dropped connections, promotions that overtake one another |
| **Release tools** `tools/release.mjs`, `deployment*.mjs`, `service-adapter.mjs`, `launch-agent.mjs`, `systemd.mjs` | lock directory, Caddyfile and running Caddy, `state.json`, two slots, artifacts, preparation metadata, convergence | take or take over the lock, preflight, gates, build, migrate, prepare, verify, promote, prove, drain, retire, retain, converge; recover, roll back, discard | a failure or a kill at any stage, also between the three steps of a switch, takeovers of a dead owner's lock by several releases, stops that fail unnoticed, commands without a deadline, slots that crash, a host that reboots, main that moves |
| **CI monitor** `.agents/skills/monitor-ci` | tracking state of the agent: mode, counters, tracked url or commit, budgets | poll and decide, gate, cycle check, post-action | CI moves between a poll and the action; budgets counted late; polling that must end |
| **Codex chat** `lib/bnest_app/codex_chat*`, `live/chat_live.ex` | transcript, pending turn, port session, checkpoint timer | send a turn, stream, checkpoint, clear, restore | two pages of one user, a session that ends mid-turn, a save that is stale |
| **Identity and sessions** `lib/bnest_app/identity*` | accounts, bootstrap journal, sessions | setup, recovery, log in, revoke | setup that stops between journal and accounts, log-out in two steps |
| **Sifat Allah quiz**, **Preferences** | one record each per user | answer, restart; set theme | two tabs on one record (modelled generically in storage) |
| **Operations, GraphQL, pages, service worker** | none between requests (the service worker: a static cache) | probes, parsing, rendering | start order, polled by the release tools |

How they interact. The scheduler's tick calls the push drain and starts backup tasks; a backup run
is a row of the scheduler's ledger. Posting a room message writes the message and its push
deliveries in one transaction. All contexts keep records through storage; only the identity context
may resolve a store once and use it without the lease while files are primary. The browser's outbox
talks to the server's post operation over HTTP, and its reconnect module pauses and resumes it; what
it posts comes back to every open page by publication, to its own also as an answer. Releases boot a
second node beside the first, on the same database, and converge the schedules.

What makes each correct is listed with its properties in section 3, and what may go wrong in
`PROJECT.json` under `hazards`, each at the line where it bites.

## 2. Modules

    Scheduler ──────── MCScheduler,  SchedulerProofs
    PushDelivery ───── MCPushDelivery,  PushDeliveryProofs
    LeaseContract (abstract)
       ↑ implemented by
    StorageLease ──┐
                   └ RecordStorage (EXTENDS StorageLease) ── MCRecordStorage,  StorageProofs
    Backup ─────────── MCBackup,  BackupProofs
    Outbox ─────────── MCOutbox,  OutboxProofs
    RoomSync ───────── MCRoomSync,  RoomSyncProofs
    ReleaseContract (abstract)
       ↑ implemented by
    Release ────────── MCRelease,  ReleaseProofs
    CIMonitor ──────── MCCIMonitor,  CIMonitorProofs

Conventions. One action is what runs without anybody else being able to look in between: one
SQLite transaction, one file-system call, one JavaScript callback up to its next `await`, one
provider answer. An operator commented `Fault:` is a plausible wrong version of the operator that
follows it, kept so that a property can be seen to fail when the code is wrong; no action uses it.
Every bound is a CONSTANT called `Max...`, or a finite set (`Tasks`, `Slots`).

### Scheduler

State: `schedules` = `bnest_schedules`; `runs` = `bnest_schedule_runs` by primary key; `started` =
claims a node holds and has not yet handed to the task supervisor; `tasks` = task processes; `forms`
= what an admin page last read. Actions follow `SqliteScheduleStore`: `Tick` is the one
transaction of a tick, which claims every due slot and recovers every lost or waiting run;
`StartTask`, `Complete`, `Skip`, `HandlerFails`, `RecordFailure`, `Renew` are the steps of one
`Run.execute`; a lost task, a crashed node, a lost start, an operator's save, a setup run (also a
repeated one) and a release's convergence are actions of their own. The WIB calendar is an arithmetic day of
`Day` instants. Not modelled: what a task does (module `Backup` does), paging of the ledger.

### PushDelivery

State: `subscriptions`, `deliveries` in the order of their IDs, and what each dispatcher holds
between its claim and its answer. `Post` writes the rows of every other active subscription, with
the message. `Claim` is `claim_due/3` (oldest due row first, expired leases included, the table's
CHECKs enforced); `Answered`, `Gone`, `DisableGone`, `Retry`, `Retire` are the transitions of
`Dispatcher`; `Lose` is a dispatcher that dies; `Retain` is the two-pass retention.

Nothing ends a dispatcher when its lease passes, and `finalize!` and `retry!` update by ID alone, so
an answer that comes late (a stalled host; the sender's timeouts add up to 15 s, the lease is 120 s)
is written over whatever a dispatcher that recovered the row has recorded. The model does the same at
any delay. `overrun` is a history variable: the deliveries an answer was written to past the lease of
its writer. The properties about senders and outcomes say what holds of the others; what the
contract document says of all of them, `FinalStays`, is in section 4.

### LeaseContract, StorageLease, RecordStorage

`LeaseContract` is what the lease promises: sharers together, or one holder alone who waits for them
and keeps new ones out. `StorageLease` is `FileLock`, one action per directory call, with processes
that are killed and leave their directory behind. `RecordStorage` adds the records under it: pages
that fetch and upsert by revision, the identity service's store resolved without the lease,
migration passes with dry runs, blocked items and resumption, parity, the switch of the pointer,
retirement of files, and the storage page, which moves data without the lease. `truth` is a history
variable: the record as the last acknowledged operation left it.

### Backup

State: the configured destination, the rows of setup and daily runs, what each task process is
doing, and the artifacts that have a receipt. Every step of `ScheduledBackupTask.execute/2` that
another process could come between is an action: read the destination, match it, snapshot, the check
before promotion, promote with receipt, complete, list what is owned, remove one pair, finish. A
task may fail or die at each, and a run recovered in between is given to a second task while the
first one lives on. The attempt counts where the code counts it: a recorded failure increments it
(`Fail`, by `AfterFailure`), the recovery of a lost run too (`Recover`, by `Rerun`), that of a run
that waits for its retry does not.

### Outbox

State: per tab its page, whether the outbox drains (`draining`) and is online, and how many
reconnects are under way (`promotions`); per tab and message its copy (`items`): listed in the
namespace, status, the timer in `timerHandle`, timers that a later `scheduleRetry` displaced
(`strays`), a deletion timer, and the writes to IndexedDB not yet complete, in order; per tab,
message and slot a request; `device` = the rows in IndexedDB; `rows` = committed messages.

| code | actions |
|---|---|
| `createOutbox` after `hydrateNamespace` | `Open` (includes `resumeOnOpen`) |
| `send`, `retryFailed`, `discardFailed` | `Send`, `RetryFailed`, `DiscardFailed` |
| `attemptSend` to its `await`, and after it | `AttemptSend` in every action that calls it; `Answer`, `GiveUp` |
| `scheduleRetry` and `scheduleDeletion` timers | `RetryTimer`, `Delete` |
| `reportOnline`, `offline`, `pauseDrain`, `resumeDrain` | `GoOnline`, `GoOffline`, `PauseDrain`, `ResumeDrain` |
| IndexedDB write-through | `Flush` |
| `send_message` → `commit_message` at the server | `FindMessage`, `Refuse`, `InsertMessage` |
| `logout.js` | `LogOut`, `Leave` |
| the browser, network and session | `Close`, `Reload`, `Fade`, `ExpireSession`, `SignIn` |

`resumeOnOpen` walks every unsettled message in one callback, so it is one action that changes all
of them; expiry after seven days is a choice of which are past it. A request a tab gave up on, or
whose page is gone, goes on at the server (`heard = FALSE`). Not modelled: backoff lengths (a retry
timer may fire at any time), drawing, two namespaces in one page.

### RoomSync

One open page of the room and the server behind it. State: `committed` (the IDs 1 .. committed
exist), the member's one own message and its ID; `window` = `RealStoreState` with the rendered rows;
`marker` = the stored read position; `highest`, `generation`, `promotions`, `paused` = the catch-up
of `mount_browser_sync.js` and `reconnect.js`; `live`, `pushes` = the subscription; `asked` = the
requests for history under way.

| code | actions |
|---|---|
| `mountBrowser`, `createInitialLoad`, `attemptInitialSubscribe` | `Open`, `OpenFails`, `Join` |
| `commit_message` and its publication | `Commit`, `CommitOwn` |
| `handleSubscriptionData` | `Push`, and `Drop` for a connection that dies or hears nothing more |
| `onReconnect`, `promoteSlot` and its steps | `Reconnect`, `Subscribe`, `FetchMissed`, `Merge`, `Overtaken`, `GiveUp` |
| `submitComposer`, `resumeDrain`, `watchPendingMessage` | `Compose`, `Send`, `Answer` |
| `history.js`, up to its `await` | `LoadOlder`, `ScrollToBottom`, `JumpToLatest` |
| `history.js`, after it | `OlderArrives`, `NewerArrives`, `LatestArrives`, `RequestFails` |

One action is one browser task. A gesture asks with the cursor of its moment whatever is asked
already, and the page is rendered when it comes, into the window as it then is, with no look at what
is rendered: two gestures may add one page twice, and pushes, catch-ups, sends and other pages come
in between. The server reads a page at any instant of the request. The retries of a load are one
outcome; the pages of one catch-up are one read, that of the last page; whether the reader is near
the bottom is a choice each time. Publication goes to the subscribers of the slot that committed
(`absinthe_message_publisher.ex`), so `Drop` also stands for a page left on the other slot. `owed` is
a history variable: the IDs that the subscription or the catch-up still has to bring. `over` of a
promotion remembers that it started over one still catching up.

### ReleaseContract, Release

`ReleaseContract` is what is promised of the host's record: some revision is served at every instant,
beside it at most one stands by, and the two only ever change places. `Release` is
`release.mjs` with the commands of `deployment.mjs` and both service adapters, one process per
release. What a process knows: its stage `pc`, `mode` (compatibility or experience), the revision it
read, the prior slot, gates passed and what they ran on (`tested`), whether the route was tried
(`late`), and the result it will report (`verdict`). The host: the Caddyfile (`disk`) and the
configuration Caddy runs (`caddy`), which differ between reload and rename; `state.json` (`route`);
per slot what starts with the host, what is kept running, which of these were told to stop and go on
running (`unstopped`), what answers, which revision it starts and which its preparation metadata
name; artifacts; convergence.

An action is one file-system call, service command or probe. `CompatibilityOrder`,
`ExperienceOrder`, `CompatibilityRecovery` and `ExperienceRecovery` are the sequence of
`executeRelease` and `executeExperienceRelease` and of their `catch`, as tables; one action per stage
does what the stage does and `Fail`, `BreaksOff`, `FailCleanup`, `FailRecovery` are its error paths.
Caddy's reload, the rename and `state.json` are three actions, each of which may fail, and between
any two the release may die or the host reboot. Both adapters ignore the result of the command that
stops a slot, so `retireSlot` may also succeed with the slot still running. A command of a release may
never return (`Hang`). Around the releases main moves, slots crash and restart if their artifact is
there, a release is killed (its lock stays), the host reboots, and an operator retires a leftover
slot.

The lock may be there from the start, of a release killed before (`Leftover`), so that two releases
may both judge it stale. The check and the removal are two steps, as in the code, and nothing keeps
the second from removing a lock that was taken meanwhile. `raced` is a history variable that records
it: from there on two releases may own the host, and all properties but `TestedIsBuilt` and
`ReleaseEnds` are excused. That this can happen is in section 4.

### CIMonitor

The agent of `.agents/skills/monitor-ci` with its two scripts. `classify`, `classifyWait`,
`classifyFix`, `noProgressCount` and `FetchAndDecide` are `ci-poll-decide.mjs`; `gate`, `postAction`,
`cycleCount` and `limitReached` are `ci-state-update.mjs`; `Responses` is what `fix-flows.md` lets the
agent do about each code. A poll reads any status of the latest attempt, and attempts and pushes
(`NewAttempt`, `SomebodyPushes`) come at any time, also between a poll and the action it leads to.
Elapsed time and polls without progress are kept up to the limit they are compared with.

## 3. Runs

| run | instance | asks | result |
|---|---|---|---|
| `Scheduler_ledger` | 1 schedule, 2 nodes, 2 task processes, 10 instants (2.5 days), lease 2 | `TypeOK`, `AttemptBudget`, `OneExecutionPerAttempt`, `Recoverability`, `SettledRunsStay` | holds |
| `Scheduler_calendar` | 2 schedules, one limited to two occurrences, an admin page, two daily times, 6 instants | `OccurrencesAccounted`, `RevisionNamesContent`, `DueSlotNotLost`, `ClaimIsNewest` | holds |
| `Scheduler_settle` | 1 schedule and a setup run, fairness | `RunsSettle`, `DueSchedulesMove` | holds |
| `PushDelivery_queue` | 2 dispatchers, 2 deliveries, one loss, lease 2, ceiling 2, 4 instants, fairness | `OneSender`, `RetriesFit`, `KeptForRetention`, `OutcomeStays`, `DeliveriesSettle` | holds |
| `PushDelivery_lost` | 1 dispatcher, 1 delivery, one loss, ceiling 6, fairness | `DeliveriesSettle` | **violated** |
| `RecordStorage_migrate` | chat and setup journal, page, identity, operator, 1 crash | `RunsAlone`, `RoutedKept`, `LeaseKeepsPromise` (refinement) | holds |
| `Backup_retention` | 2 destinations, 1 daily slot, 3 task processes, 2 dates, window 1 | `EveryDateKept`, `SetupVerifiesDestination`, `VerifiedStays` | holds |
| `Outbox_settle` | 2 tabs, 1 message, 2 requests each, 2 faults, fairness | `CommittedOnce`, `SentIsCommitted`, `ForgetsOnlySettled`, `MessagesSettle` | holds |
| `RoomSync_window` | 3 messages, pages of 1, context 1, 2 reconnects, 2 requests, two of these in all | `NothingMissed`, `NoSecondRow`, `NeverLeftPaused`, `SendsAfterCatchUp`, `MarkerForward` | holds |
| `RoomSync_reply` | 5 messages, pages of 2, no reconnect, no request | `AppendsContiguous` | **violated** |
| `Release_transaction` | 2 releases, a free or a left-over lock, 2 merges, 2 kills or reboots, darwin, fairness | `OneOwner`, `TestedIsBuilt`, `WayBack`, `VerdictTrue`, `ServesContract` (refinement), `ReleaseEnds` | holds |
| `CIMonitor_attempts` | 19 statuses, 3 attempts, 3 commits, 2 cycles, fairness | `OncePerAttempt`, `WithinBudget`, `MonitorEnds` | holds |

What the properties say:

- **Scheduler.** One attempt of a daily run is in one pair of hands, and no run gets a fourth
  attempt, whatever mix of recorded failures, lost leases and crashes used the first three. A run
  that has to end carries exactly the time the recovery scan looks for. A settled run is never
  touched again. Occurrences are numbered in time order, without gap or reuse, up to the limit. A
  revision names one content, so a stale page cannot overwrite an edit it never saw. A due slot is
  passed over only by claiming the newest one, by expiry or by an edit. Under fairness claimed runs
  end and due schedules move.
- **Push.** One dispatcher in its lease sends a delivery at a time and a recorded outcome stays, both
  until an answer is written past its lease. However late answers are, a delivery waits for an
  attempt within its ceiling only, rows are kept for both retention periods, no row becomes
  unfinished after it was deleted, and every delivery ends.
- **Storage.** A process under the exclusive lease is alone, and the directories implement
  `LeaseContract`. A record kept through the leased repository always answers its last acknowledged
  write, across every interruption of a migration.
- **Backups.** The date of every verified run keeps a backup at least as new as that run's until
  `Window` later dates have one; a setup run verifies the directory it was claimed for; what was
  verified is never taken back.
- **Outbox.** One row per client message ID, `Sent` only for committed messages, a row leaves the
  device only when the message is committed or dropped, and every message that reached the device is
  in the end committed, stopped at "Couldn't send", or dropped.
- **Room.** Once a reconnect has merged, and while its subscription lives, every message after the
  one it started from has reached the page or is on its way. No push, catch-up, own send, first page
  or jump ever gives a message a second row; only the pages of older and newer history may, which are
  added unchecked. An own send waits for the catch-up, unless the reconnect started over one that
  still caught up; overlapping promotions never leave the queue stopped; the read position never
  moves back.
- **Release.** One release owns the host until a takeover removes a lock in use. The slot that
  `state.json` names is kept running with a revision whose artifact exists, whichever step of a switch
  fails or dies; so is the slot Caddy was switched to while a promotion is under way, and until the
  prior slot is retired the way back. The gates ran on the revision that is built and nothing else;
  convergence runs when every slot but the routed one was told to stop; what a release reports is what
  it left behind. The record exchanges the revision it names only with the one that runs beside it
  (`ServesContract`), and a release that took the lock ends, or waits for a command that never returns.
- **CI monitor.** It acts on one attempt at most once, asks for no more attempts than its budget, and
  stops.

The two violated runs are findings of `PROJECT.json`, with the quoted lines:

- `PushDelivery_lost`: a fifth attempt whose dispatcher dies is claimed as a sixth, which the
  table's CHECK refuses. The row never ends, and being the oldest due row it stops every later drain.
- `RoomSync_reply`: the answer to an own send is appended although the window stops short of the
  newest message; the messages between are hidden until the page is opened again, and the read
  position passes them.

### Bounds, and why they are enough

- *Scheduler.* Two nodes and two task processes give every overlap of claim, start, loss and late
  answer on one run; a third of either is symmetric. Three attempts, each with its lease, fit in the
  ten instants of the ledger run. The calendar needs two schedules (a due one must not starve
  another) and two missed days, which six instants at three a day allow. An expiry at an instant
  occurs in no instance: it is kept for the proofs.
- *Push.* Two dispatchers and two deliveries give a recovered row beside one that waits, and one that
  answers late while the other sends. With a lease of two and four instants a claim is recovered and
  answered late by its first owner, also after the row was deleted. The ceiling of the passing run
  ends a delivery before its fifth attempt; a lost fifth attempt is what `PushDelivery_lost` shows.
- *Storage.* Records do not interact except through a pass, so two records (one kept through the
  repository, one by the identity service) and two passes give an interrupted and a resumed
  migration; one crash covers a directory left behind. `MaxWrites` gives a write before, during and
  after a pass.
- *Backup.* Three task processes give a task, its recovered successor and one of another run; two
  dates and a window of one make retention choose.
- *Room.* Three messages in pages of one with a context of one give a window that stops short of
  the newest message on either side, a catch-up of several pages, and an own send among them. Two
  turns give two overlapping promotions, a promotion beside a request, or two overlapping requests of
  any kinds.
- *Release.* Two processes give every race for the lock and, with a left-over lock, two takeovers at
  once; two merges give a revision that is active, one that is new, and a main that moves during the
  gates; two crashes give a killed owner and a reboot in one behaviour. States after a takeover
  removed a lock in use are checked and not followed further (the constraint `NotRaced` of
  `MCRelease`): what two owners do to one host is nothing the properties speak of. The instance is
  darwin, where a retired slot's service comes back with the host; systemd's disable is an alternative
  of one line, and the same run passes with `Platform = "linux"`.
- *CI monitor.* Three attempts and three commits give a tracked attempt, one that comes between poll
  and action and one after it; the statuses are one of each kind that the decision table tells
  apart; both timeouts end within a few polls.
- *Outbox.* Messages of one room share nothing but the tab's flags and the queue limit, so one
  message with two tabs and two requests in each gives every pair of writers. `MaxWrites` is two
  IndexedDB writes of one message under way in one tab; they complete in order. `MaxFaults` counts
  lost requests, refusals, expiries, pauses, closed pages and log-outs together; retries and answers
  are not counted. The limit of 100 active messages (`outbox.js`) is a guard no instance reaches.

### Fairness

- *Scheduler.* The coordinator's timer ticks and time passes (weak fairness); a handler returns,
  since each of its steps has a timeout; a claimed task is started. Starting is strongly fair because
  the finite pool of task processes belongs to the model and not to the code. A run whose recovery
  lies beyond the bounded clock is excused (`BeyondHorizon`).
- *Push.* Time passes, the tick starts drains, and a dispatcher in the end records an answer or dies;
  how long that takes is bounded by nothing, its lease included.
- *Outbox.* One weak fairness of `Progress`: as long as something is due (a timer, a write, a
  response, coming back online, signing in and opening the page again) something due happens. What
  is due runs out, because faults are bounded, so this needs no fairness of any single step. The
  member coming back is an assumption on the environment: a queue on a device nobody opens again is
  sent by nobody.
- *Release.* Each process keeps taking steps (weak fairness of `Step(p)` for each): a stage passes or
  fails. A command that never returns is no step of it: `run()` starts commands without a timeout
  (`release.mjs:1124-1130`), so `Hang` may happen at every stage that waits for one, and
  `ReleaseEnds` counts it as one of its two ends. Only the probes have a deadline. Nothing is assumed
  of slots, operators or main.
- *CI monitor.* The agent goes on. Polling is strongly fair because a fetch that fails has no
  timeout: `ci-poll-decide.mjs:64` answers an error before it looks at one, and the agent polls
  again. `MonitorEnds` therefore needs that not every fetch fails.
- *Room.* Safety only. A page whose connection is never restored shows nothing more, so every
  liveness of the window is a property of the network.

Deadlock is not checked where the bounds stop the system (the clock ends, tasks are used up, faults
are spent); the liveness properties say what must not stop.

## 4. Known disagreements

Besides the two runs above, these properties are stated in the modules, say what the repository
promises or a reader would expect, and do not hold of the code. Each can be seen by checking it with
the instance given. Where that is a run's own instance, the run meets the behaviour and checks what
holds all the same; where it differs, the difference is what the run leaves out.

| property | instance that shows it | what happens |
|---|---|---|
| `Backup.ExpectedKept` | as `Backup_retention` | Retention groups receipts and reconciliation groups verified runs; a task that wrote its receipt and failed before the ledger makes the two choose different artifacts of a date. |
| `Outbox.DiscardedStaysUnsent` | `Spec`, one tab, one message, `MaxQueued = 1`, `MaxRequests = 2`, `MaxWrites = 2`, `MaxFaults = 3` | A message discarded at "Couldn't send" while another of its requests is under way is saved and sent again when that request fails. |
| `PushDelivery.FinalStays` | as `PushDelivery_queue`, checked in place of `OutcomeStays` | A dispatcher claims at 0 with a lease of 2 and stalls, another recovers the row at 2, the first writes `delivered`, the second `terminal`. `finalize!` updates by ID alone; the contract says "Completion compares delivery ID, attempt number, and `claimed` state so a stale task cannot overwrite a recovered attempt" (`plans/done/2026-09-20__family-chat-room/tech-docs/002-data-model-and-migration-contract.md:253-255`). |
| `RecordStorage.AnswersLastWrite` | `Records = Removable = {theme}`, `Operators = Managed = {task}`, one page, no service, two writes, two passes, no crash | Parity looks for a row of every file and not for a file of every row; a record removed after a dry run copied it comes back when SQLite takes over. |
| `RecordStorage.RevisionsAdvance` | two pages on one record, nothing removable, three writes | `SqliteRecordBackend.write/5` compares the revision and upserts in separate statements under a shared lease, so two tabs may both succeed on one revision. |
| `Release.OwnsAlone` | as `Release_transaction` without its constraint | Two releases judge a left-over lock stale (`release.mjs:1106-1112`); the slower one removes the lock the faster one has just taken, and both go on: 11 states. "One release owns the host lock" (`plans/done/2026-08-27__single-machine-release-simplification/tech-docs/release-contract.md:131`). `OneOwner` is what holds until then. |
| `Release.RetiredNotRouted` | as `Release_transaction` | A release that breaks off or is killed after Caddy's reload and before `state.json` leaves the state file at the prior slot; its recovery, or an operator's `deploy:retire`, believes it and retires the slot that Caddy proxies to, with no slot answering users: 14 states. "Refuse to retire the active slot." (`systemd.mjs:155`). |
| `Release.NoneLeftRunning` | as `Release_transaction` | The command that stops the prior slot fails, neither adapter looks at its result (`launchd.mjs:131`, `systemd.mjs:157`), and the schedules converge, and the release reports that it passed, with the prior slot running: 33 states. "every runnable slot supports the new Backup service" (`deployment.mjs:290`). |
| `RoomSync.NeverAheadOfCatchUp` | as `RoomSync_window` | The older of two overlapping promotions ends and its `finally` resumes the drain while the newer one still catches up (`reconnect.js:179-181`): 9 states. "Pausing/resuming the outbox's own drain [...] is what actually stops a send from racing ahead of the catch-up gap-fill" (`mount_browser_sync.js:118-120`). |
| `RoomSync.WindowIsRight` | as `RoomSync_window` | The shortest way: a message committed between the first page and the subscription is shown by nothing until the next reconnect. Others: pages asked for twice or answered after a push, a jump or an answer; pushes that overtake one another; asking for older messages when none is known; a catch-up after a jump. |

`RoomSync.WindowIsRight` fails in so many ways that the room's properties say what each source of
messages does give (`NothingMissed`, `NoSecondRow`), not that the window is right in the end. Two more
facts a reader should know: a join that is never answered leaves the promotion waiting (`graphql.js`
sets no handler for a timeout), and with it the drain paused, and `NeverLeftPaused` holds because that
promotion still counts as at work. A release killed between the lock's directory and its `owner.json`
leaves a lock that is never stale, and every later release is deferred until somebody removes it.

## 5. Proofs

The theorems hold for every value of the constants that satisfies the named ASSUMEs of the modules:
any number of nodes, tabs, tasks, deliveries, records, releases, reconnects or CI attempts.

| module | theorems | inductive invariant |
|---|---|---|
| `SchedulerProofs` | `TypeCorrect`, `OneExecution`, `AttemptsBounded`, `RunsRecoverable`, `SettledForGood`, `RevisionsName` | `LedgerInv`: types, `RowOK` of every row, every claim in somebody's hand is at the row's attempt or behind it and strictly behind a waiting one (`Behind`), one execution per attempt. Without `Behind` a stale claim could be handed the attempt a recovery creates. |
| `SchedulerProofs` | `OccurrencesCounted`, `NewestClaimed`, `DueSlotKept` | `SlotInv`: the next slot is one of the daily time (`Reached`: once it has passed, the latest slot is not before it), and every claimed slot has passed and lies before the next one, also after an edit moves it. So a claim is later than all before it. The rest is counting: the slots taken gain one element as the counter gains one. |
| `PushDeliveryProofs` | `PushTypeCorrect`, `OneSenderInLease`, `OutcomesStay`, `BindingsUnique` | `LeaseInv`: types and CHECKs, and every sender in its lease holds a claimed row with that lease and its attempt, unless an answer was written to the row past its lease; so the row is not due and nobody else claims it. A late answer is the one step that breaks this, for the row it writes. |
| `PushDeliveryProofs` | `RetriesFitPolicy`, `RowsKept` | `RowsInv`: a row that waits for a retry fits the ceiling, a soft-deleted row was kept its periods, and no row was changed, and no dispatcher claimed, before the row's commit. The last is what bounds a late answer: it counts from its claim, and the claim from after the commit. That an attempt is left needs `LeaseInv`, and so holds of answers in time. |
| `StorageProofs` | `LeaseInvariant`, `LeaseExcludes`, `LeaseImplements`, `StorageImplementsLease`, `StorageExcludes`, `StorageKeepsPromise` | types, the exclusive directory belongs to the process that is draining or alone, a sharer has its directory. `LeaseSpec` implements `LeaseContract`, and `RecordStorage` implements `LeaseSpec` step by step, so it inherits both results. |
| `StorageProofs` | `StorageTypes`, `LeasedRecordsKept` | `KeptInv`: before the switch SQLite holds no record that the files lack; after it every file left is as its item was accepted; a page that holds the lease uses the backend that is the authority; and what a task has established of each record at each point of its pass. Assumes that every operator is a task (`Managed = Operators`): the storage page's `move_data` takes no lease. |
| `BackupProofs` | `BackupTypes`, `SetupVerifies`, `VerifiedIsFinal` | `BackupInv`: types, a run never attempted is empty (`Counted`), and what a task knows at each stage (`TaskInv`): its run, its directory, that the one suits the other once it promotes, and the artifact it made there. |
| `BackupProofs` | `DatesKept` | `RetentionInv`: what a run was verified with, and what a task has made and not yet recorded, is kept; and whatever a task is about to remove is superseded, by a newer pair of its date or by `Window` later dates. The second is needed because the pairs change between the listing and the last removal: a task removes newest first, so what superseded a pair may itself be on another task's list, and removing that leaves standing in what supersedes it in turn. Any window, any number of dates, tasks and directories. |
| `OutboxProofs` | `OutboxTypes`, `OneRowPerMessage`, `SentMeansCommitted`, `QueueKeepsUnsettled` | `OutboxInv`: every `Sent`, deletion timer, pending write of `Sent` and answer `ok` is grounded in a committed row, and every pending removal in a committed or dropped message. The removal must be grounded when it is queued: by the time it completes the tab may be gone. |
| `RoomSyncProofs` | `DrainResumes`, `CatchUpFirst` | `PauseInv`: the drain is paused only while the newest promotion is at work, and all the while it is unless it started over one still catching up; an older promotion that still catches up means that it did. The last part is needed because the older one resumes the drain when it ends. |
| `RoomSyncProofs` | `ReadPosition` | `TypeInv`: types, the window's two IDs and the cursors of requests are committed ones, what is pushed and asked for exists. The proof is over the steps that write the marker. |
| `RoomSyncProofs` | `OneRowEach` | `PendingInv`: the own message has one pending row, and none before it is composed. The rest is about one step: each operation of the window keeps one row of every message that has at most one (`KeepsSingle`), be the others as they may. No order of arrival is excluded; pages of history are excepted in the property, and even they add no second pending row. |
| `RoomSyncProofs` | `NothingLost` | `OwedInv`: while the subscription lives, whatever the newest promotion is owed is pushed and not handled yet, or lies in what its catch-up has read or will read. It needs that the subscription stands before the catch-up asks: what is committed after the read is pushed, what is committed before it is read. |
| `ReleaseProofs` | `OneReleaseOwns` | `LockInv`, as long as no takeover removed a lock in use: a process in a stage is the one `owner.json` names, and one that still has to write it found the directory free. A takeover that removes a stale lock keeps both; one that does not sets `raced`. |
| `ReleaseProofs` | `ReleaseTypes` | `TypeInv`: a working process has read a revision, and the slots that Caddy proxies to and that the Caddyfile names have been prepared; otherwise `state.json` could record no revision. |
| `ReleaseProofs` | `GatesOnRevision` | `GateInv`: nothing is tested before preflight ends; between gates at most the release's revision is; every stage after that is reached from such a stage only, the way back of a rollback through `install` and `record` included. |
| `ReleaseProofs` | `RollbackHasWayBack`, `ReleaseServes` | `SafeInv`, as long as no takeover removed a lock in use: `LockInv`, `TypeInv` and `WayInv`. `HostInv`: the slot of `state.json` runs the revision of `state.json`, starts with the host, was not told to stop, and its artifact exists. It must hold of the record and not of Caddy, since a switch may break off or die between its three steps and the next release starts from the record. `Known`: what each stage knows besides (the route still names the prior slot and Caddy proxies to it, the candidate stands, in a switch both slots stand and Caddy is at the other one, the way back stands). Preflight gives the first: with the other slot silent and Caddy answered, Caddy is at the recorded slot. The refinement needs it at a reboot and when the record changes, which exchanges slots that both run. |
| `ReleaseProofs` | `ReportsTrue` | `ReportInv` on top of it: after the prior slot or the discarded candidate was told to stop every slot but the routed one has been, "passed" is reported in the last step only, a rollback ends with Caddy at the prior slot, and no report is about a route that preflight has not read. |
| `CIMonitorProofs` | `BudgetKept`, `ActsOnce` | `CIInv`: what was asked for is counted or will be when the next code is handled; in normal mode every attempt acted on lies before the one that is read; in wait mode the tracked url is at or after all of them, and the expected commit is none of an attempt acted on. |

Each step lemma has a step per action; temporal theorems end in one PTL step.

Every safety property of the passing runs, state or action, is stated by a theorem. Only
model-checked is the liveness (`RunsSettle`, `DueSchedulesMove`, `DeliveriesSettle`, `MessagesSettle`,
`ReleaseEnds`, `MonitorEnds`): fairness and ENABLED are beyond the prover.

One theorem has an assumption on a constant, and section 4 shows what the code does without it:
`Managed = Operators` in `LeasedRecordsKept`. `OneSenderInLease`, `OutcomesStay`, the theorems of the
lock, the way back, the contract and the reports, and `CatchUpFirst` each except, by a history
variable, what the code does after one event that section 4 names: an answer written past its lease,
a takeover that removes a lock in use, a promotion that starts over one still catching up. No module
declares a
RECURSIVE operator; what `SelectSeq` keeps of a sequence, a recursion of the library, is out of the
provers' reach, so the two filters of the room's rows are written without it: `RemovePending` drops
the one pending row by its place, `Ascending` lists a set of IDs in order.

## 6. Not modelled, and why

- Local-time conversion, paging, rendering, encryption of push payloads, capacity measurement,
  backoff lengths: data without influence on the order of states the properties are about.
- Identity setup, log-in and sessions, the turn of the Codex chat and the quiz: what they do to
  records is in `RecordStorage`; what they do in memory is left to the plan below.
- The release tools' capacity sampling, queue file and feature flags; children that outlive a killed
  release; deployment commands run by hand other than `deploy:retire`; a proxy restart between Caddy's
  reload and the rename; the host after two releases own it.
- In the room's page: quotes, the action menu, focus, announcements and scroll offsets. A jump to a
  quoted message is a sequence of requests for older pages.
- In the CI monitor: the five or ten further cycles that the user may grant when the budget nears its
  limit (`.agents/skills/monitor-ci/SKILL.md:277`).
- Restore of a backup into an isolated root, browser imports into the flat store, plug pipelines:
  sequential procedures run by hand or per request.
- The remaining scripts of the repository (policy router, governance checks): pure checks over files.
- Disk corruption, SQLite's own atomicity and IndexedDB's ordering of transactions: assumed.

## 7. Plan

What would come next, most important first:

1. `CodexTurn`: pages of one user, port session, checkpoints, clear; a turn is sent once.
2. `Bootstrap`: identity setup through journal, accounts and closed mark, with failure and restart
   between any two writes, by two slots; sessions and log-out.
3. The composition of `RoomSync` with `Outbox`, whose pause and resume it drives, with several own
   messages.
4. Extensions: several messages and the queue limit in `Outbox`; schedules that expire at an instant
   in an MC instance.
