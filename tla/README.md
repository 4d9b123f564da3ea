# bassfish in TLA+

bassfish lets several coding agents on one machine work in one repository. A daemon
(`src/src/daemon.ts`, `src/src/service.ts`) keeps threads, tickets and file locks; agents reach it
through adapters (MCP, hooks, an OpenCode plugin) over a local socket. Whoever wants to write a
thread or a ticket, or to edit a set of files, first gets a *turn* on it. This directory holds the
models of that program, the TLC runs that check them and the TLAPS proofs about them.

Paths below are relative to the repository: `service.ts` is `src/src/service.ts`.

## The system

| Part | State | Operations | Talks to |
|---|---|---|---|
| Turn state machine (`service/turn-state.ts`) | rows of `turnRequests`, `tasks` | finish, make available, materialize an offer, promote | called inside the service's transactions |
| Coordination service (`service.ts`) | instances, identities, host bindings, requests, resources (fence, queue sequence), `committingTurns` in memory | open, close, heartbeat, sweep, request, claim, commit, release, cancel, force release | control store, content store, wake signals |
| Turn tasks (`service.ts` 1223-1358, 2719-2859) | tasks | poll, cancel, wait | turn state machine |
| Keyed mutex (`runtime.ts`) | tails per key | run | commits, claims, captures, task polls |
| Clock (`runtime.ts`) | monotonic and wall offset | now, discontinuity | sweep, deadlines |
| File targets (`files.ts`) | none | resolve, overlap | file turns |
| Control and content store (`storage/*`) | SQLite tables under `BEGIN CONCURRENT`, a pool of connections | view, update, transaction, afterCommit | everything |
| Activity log (`storage/turso-activity.ts`) | outbox, published events | publish, page, prune | observers |
| Tickets (`ticket.ts`) | the dependency graph | validate, status, update | commits |
| Inbox (`service/inbox.ts`, `service/notifications.ts`) | notifications, batches, waiters | capture, acknowledge, transition, wait | commits, adapters |
| Codex queue (`agents/codex-queue.ts`) | one listener per session | wait, reserve, submit | inbox |
| Updates, reads (`service/updates.ts`, `service/reads.ts`) | cursors and checkpoints | page, acknowledge | adapters |
| IPC (`ipc.ts`) | connections, jobs | request, answer, abort, close | daemon, adapters |
| Daemon (`daemon.ts`, `lock.ts`, `maintenance.ts`) | ownership lock, socket, maintenance loop | start, stop, sweep every 250 ms | service |
| Host sessions (`daemon.ts`) | sessions per connection, their handles, idle marks | open, bind, beat, close, wake | service, adapters' hooks |
| Adapters (`mcp.ts`, `service/mcp-dispatch.ts`, `opencode-plugin.ts`, `notifications-cli.ts`) | the connection, the turn an agent holds, task subscriptions, batches to tell | translate calls, watch tasks, tell the host | IPC |
| Observers (`observer.ts`, `sonar/*`) | cursors, what is on the screen | wait, page, follow, select | IPC, activity log |
| Diagnostics (`runtime-diagnostics*.ts`, `diagnostic-log.ts`) | active operations, log files | begin, end, write, rotate | everything |

How they interact: an adapter's request travels over its connection to the daemon, which runs it as
a job; the job runs one or more *control transactions* on the database. Transactions of different
jobs interleave at will. What must not interleave is kept apart by unique indexes, by conflicts on
the rows that two transactions both write, and by keyed mutexes in the daemon. Some state is only in
the daemon's memory: the marks of commits in flight, waiters, mutexes. A daemon that dies loses it,
and the next one starts from the tables with `initialize`.

What is hard about it: turns are lost in five ways (deadline, lost socket, silence, operator, crash)
while their owner may be half-way through a commit; requests outlive the instance that made them and
are taken over by the next one of the same identity; time can jump; file sets overlap without being
equal; and nearly every handler both ends something and has to hand on what became free.

## Modules

| Module | What it is | Code |
|---|---|---|
| `TurnState` | request rows and tables, and the pure functions that rewrite them | `service/turn-state.ts`, the row loops of `disconnectIn`, `sweep`, `initialize` |
| `Turns` | the service around them: sessions, queues, claims, commits, sweeps, crashes, the clock | `service.ts` |
| `FencedWrites` | the abstract promise to writers: tokens, and writes under the newest | what `Turns` implements |
| `Snapshots` | the same tables under transactions that run side by side on snapshots | `storage/rows.ts`, `storage/coordination.ts`, the handlers of `service.ts` |
| `FileTargets` | which paths a target covers, when sets of targets overlap | `files.ts` |
| `Inbox` | notifications of one identity, and the batches in which they are handed out | `service/inbox.ts`, the batches of `sweep` and `initialize` |
| `CodexDelivery` | extends `Inbox`: listeners, hooks and faults around one Codex session | `agents/codex-queue.ts`, the hooks of `mcp.ts`, `takeHostDelivery` and its neighbours in `daemon.ts` |
| `Posts` | who is told of a message, and the rows that tell it | `commitTurn` and `finalize` of `service.ts` |
| `Wakeups` | wake signals and the loops that wait for them, work tasks | `service/notifications.ts`, `waitInbox`, `waitForWork`, `waitWorkTask` |
| `KeyedMutex`, `KeyedLock` | the chain of promises per key, and the fair lock it implements | `runtime.ts` |
| `TursoStore` | the pool of connections, attempts of a unit of work, the close | `storage/turso.ts` |
| `ActivityLog` | outbox, the one publisher, pruning, observers' waits | `storage/turso-activity.ts`, `observer.ts` |
| `ActivityEvents` | what the log says of who is there | `agentEvents` of `storage/rows.ts` |
| `Tickets` | the graph of dependencies under commits on snapshots; patches and outlines of bodies | `ticket.ts`, `markdown.ts`, `createTicket` and `commitTurn` |
| `ThreadContent` | revisions of a thread, and reads that take several pages | `storage/content.ts`, `service/reads.ts` |
| `TurnReads` | what an agent reads with a turn | the readers of `service.ts`, `service/reads.ts` |
| `Listings` | lists that an agent takes page by page | `listNotifications`, `findResources`, `projectHistoryList`, `resourceHistory` |
| `ObservedLists` | lists that observers page through | `observer.ts`, `observeContent`, `page` |
| `AgentUpdates` | checkpoints, deltas and pages of `getUpdates` | `service/updates.ts`, `bounded.ts` |
| `TurnTasks` | requests that an MCP client follows as tasks | `acquireMcpTurn`, `getTask`, `cancelTask` |
| `TaskWatch` | how an MCP client hears of its tasks | `mcp.ts` |
| `AdapterLink` | an adapter's connection, heartbeat and name | `runMcp` of `mcp.ts` |
| `Ipc` | requests, cancels, deadlines, ends of connections, the drain | `ipc.ts` |
| `DaemonConnections` | observers, and adapters without a host plugin | `daemon.ts`, `ipc.ts` |
| `HostSessions` | host sessions of one connection and their handles | `openSession` to `closeNativeHostSession` of `daemon.ts` |
| `NativeWake` | how an idle Claude session is woken | `daemon.ts`, `mcp.ts`, `notifications-cli.ts`, `agents/claude-native.ts` |
| `OpenCodePlugin` | the pump of batches into a session of OpenCode | `opencode-plugin.ts` |
| `DaemonOwnership` | who runs on a data directory: starts, stops, launchers, reset | `daemon.ts`, `lock.ts`, `maintenance.ts`, `data-reset.ts` |
| `Sonar` | the live monitor: connections, snapshots, the followed conversation | `sonar/client.ts`, `sonar/app.tsx` |
| `TicketGraph` | the dependency graph on the terminal | `observeGraph`, `sonar/graph.ts`, `sonar/app.tsx` |
| `Diagnostics` | operations between the daemon and the worker that shows them | `runtime-diagnostics.ts` and its worker |
| `DiagnosticLog` | processes that append to one log and rotate it | `diagnostic-log.ts`, `lock.ts` |
| `MCTurns`, `MCSnapshots`, `MCInbox`, `MCCodexDelivery` | constants, symmetry and constraints for TLC | |
| `MCDaemonParts` | twenty-five parts side by side, for TLC and for `DaemonProofs` | |
| `TurnStateProofs`, `TurnsProofs`, `SnapshotsProofs`, `CodexDeliveryProofs`, `StorageProofs`, `ContentProofs`, `HostsProofs`, `DaemonProofs` | theorems | |

### TurnState and Turns

An action of `Turns` is one committed control transaction. Every handler of the code starts with
`sweep()` in a transaction of its own; `Sweep` is an action that may always happen, which also lets
time pass between a handler's sweep and its own transaction, as it can in the code. Transactions are
serial here. The store runs them under snapshot isolation with conflict detection; what that may let
through (two transactions that read what the other inserts) is the subject of `Snapshots`.

| Code | Model |
|---|---|
| `turnRequests` and `tasks` rows | `requests[r]`, a record; the task row shares the id of its request and is folded in (`task`, `taskLeft`) |
| `queueUntil`, `claimBy`, `expiresAt`, retention | `left`, the time until the deadline the row's state waits for |
| `reconnectUntil` | `reconnect` (`NoDeadline` when undefined) |
| `now >= deadline` | the countdown is 0; `Tick` takes one unit off every countdown |
| a thread or ticket; a resolved file set | a set: a singleton; the files under its paths. Two requests compete when their sets intersect (`fileSetsOverlap`) |
| `resources.queueSequence`, `.fence` | `queueSeq`, `fence`; `fileSeq` for `controlMeta.fileQueueSequence` |
| content revision of a thread or ticket | `revision` |
| `instances` rows, `epoch` | `instances[i]`; `current` says that the handle is of the running daemon's epoch, `idle` is the time until the instance counts as silent |
| `hostSessionBindings` | `bound`, the identities a binding refers to |
| `committingTurns` | `committing`; `inflight` are the commits between their validation and their end, with the lock they hold |
| a call of `getTask` between its transactions | `polls`, pairs of an instance and the task it asks for |
| `discontinuity()` still to be read by a sweep | `jumped` |
| wall clock below `wallClockHighWaterMs` | `behind` |
| `COMMITTING` | not a state of the committed table: it is written and overwritten in one transaction |

`commitTurn` is the one handler that is not one step: `StartCommit` validates and marks, then
`FinishCommit` makes it durable (content, `finish`, `promote`) or `AbortCommit` ends it without
effect. A commit writes its own request row, so when another transaction has changed that row
meanwhile it conflicts, is run again and fails its validation: `FinishCommit` asks that the row is
still claimed with the same base. `RefuseCommit` is a call that throws before it set a mark; its
`finally` removes one all the same. Nor is `getTask` one step: `PollTask` makes the offer,
`ClaimContentTurn` claims it, `CompleteTask` finishes the task, and `FailTask` is the `catch` around
the last two, which may come after anybody claimed and committed the turn. A sweep deletes rows of
requests to which rows of tasks refer by a foreign key (`HeldUp`).

Not in these modules: the contents of messages and tickets (`ThreadContent`, `Tickets`), notifications
written by a commit (`Posts`), what a task tells its client (`TurnTasks`; here what the polls and
cancels write, and when rows of tasks go), creation and deletion of threads,
projects (one is enough: they share nothing but names), and handles and tokens as values: a handle is
an instance of this epoch, a turn token is known to its owner.

### Snapshots

The transactions of `Turns` without the clock, several at a time. Each begins with the tables as they
are (`BeginTx`), computes on them with the operators of `TurnState`, and commits the rows it changed
onto the tables as they are then. `stale` collects what others committed since; a commit that writes
a row others wrote is refused, as the driver does, which is external. The driver does not look at what
a transaction read. What keeps grants apart is then which rows they share: a request's own row, the
row of the resource, and for file sets the guard and the counter in `controlMeta`. Any deadline of a
turn that is not held may pass at any time.

### Inbox and CodexDelivery

An identity's notifications and batches are shared with no other identity, so `Inbox` has one inbox.

| Code | Model |
|---|---|
| `notifications` rows | `unread`: records of a row's id, its event (`eventId`) and its kind (`isWorkNotification`) |
| a row reused for newer activity of its thread | `Notify("activity")` may put its event into an unread activity row; that there is one row for each thread is left open by choosing any such row, and the bounds have one thread |
| `notificationBatches` rows | `batches[t]`; `"none"` is a row that is not there |
| `entries`, `acknowledged` (indices) | sets of versions |
| at most 20 entries, `pageBytes` | `BatchSize`; a page is any non-empty beginning of what is available, in its order, up to that size, since any byte length may end it sooner |
| `captures` (a mutex per identity) | `MayCapture`; a capture is two steps, its snapshot (`BeginCapture`) and its commit (`EndCapture`) |
| `finishedAt` | a batch that is handled or released may be discarded at any time |
| a caller that no longer waits | `Forsake`: the capture goes on without it |

Every other operation is one transaction. The capture is not, because it is the one that reads much
and writes only a row of its own: nothing another transaction writes makes it conflict.

`CodexDelivery` follows one host session. `listeners[l].at` is where a run of `CodexQueue.listen`
stands: `waiting` (in `wait`, or paused), `ready` (in the delay that collects updates), then one
place for each call to the daemon that is on its way, `launching` and `running` for the command.
`aborted` is its signal. `adapter` is what the daemon knows of the session (`bound`, `idle`) and
what the adapter does (`paused`; `controller`, that its listener is of this session; `hook`, which
hook was answered by the daemon and not yet acted upon by the adapter). A call is answered in the
step that carries it out; that its answer is lost is `LoseAnswer` before or after. Several listeners
exist when the adapter was bound elsewhere and back: `stop` only aborts a signal. An agent reads and
acknowledges through tools at any time (`Read`, `AcknowledgeBatch`), which includes the captures of
hooks. `launched` records for which versions a command was started; it is read by properties only.

A report of success that fails is handled by the same `catch` as a failure of the command itself
(`Failed`), and connecting to a daemon that is not there fails with `ENOENT` like a missing
executable does, so after a restart the listener may deny a launch that took place. It is the order
of batch states that then keeps the batch from being given back.

Left out: who is told of which write (`Posts`), `ackNotifications` of the admin API, `takeDelivery`
(called by tests only), texts, readiness, the version check, and work tasks. Waiting for a wake signal
is taken as looking at any time; the signals are in `Wakeups`.

### The other parts

Each of these has state of its own that no other module writes. Where one needs another part of the
system it takes what that part promises as an environment: any order of commits, any answer, any end
of a connection.

- `KeyedMutex`: `tails` is the map of `runtime.ts`, `previous` the promise a run awaits. It implements
  `KeyedLock` (`ImplementsLock`), in which the runs of a key get inside one at a time, in the order of
  their calls.
- `Wakeups`: each loop is a program counter over its awaits; a signal only settles promises that are
  in the map. Timers, aborts and errors of the look may come at any of them. `waitWorkTask` looks before
  it registers; `NoWakeLost` does not speak of it, and `WaitsEnd` holds of it by its timer.
- `TursoStore`: leases, attempts, the replacement of a worn connection and the close. What a unit of
  work reads and writes is `applied`, how often its effect became durable. The driver may commit, roll
  back or not tell.
- `ActivityLog`: a transaction leaves events in the outbox, the publisher numbers batches of them in any
  order of the batches, pruning takes the oldest. Observers look, register, look again and sleep.
- `ActivityEvents`: transactions that change the instances of agents, each on its snapshot, with the
  events it drafts by comparing before and after. `doubtful` notes whose events may not be relied on,
  until the next that may: two transactions about an agent crossed, two batches that say opposite
  things waited at once, or an identity was left without a word by `requestName`.
- `Tickets`: an agent's call sees a snapshot and judges the graph by it. The graph lock (`LockOf`) is
  the code's choice of key for `KeyedMutex`. `Applied` and `Outline` are the functions of `markdown.ts`.
- `ThreadContent`: rows of `threadContent`, `revisions` and `messageVisibility`; a read keeps what each
  page gave. Sequences and revisions are decimal strings that the queries compare by length, then by
  text: the order of numbers.
- `TurnReads`: look, page, look again (`Assures`), list the tickets, reply; each a transaction, so a
  turn may be lost before its reply. The result of a finished task (`claimedSnapshot` without
  `requireActive`) is read without any look. What does not fit stays in `ReplyPages` and is found again
  by its cursor.
- `Listings` and `ObservedLists`: an entry has a place in the order of its list; between pages entries
  come, go and move. `missed` is what was there all the time and was not listed. A cursor by key and
  one by number differ in what they survive, which is what the properties say.
- `AgentUpdates`: the agent's held view, the server's last checkpoints and the read under way; replies
  get lost, reads overlap, the daemon restarts.
- `Posts`: a commit picks recipients by its snapshot and starts over on a conflict; `mustKnow` is a
  history of who had to be told of what.
- `TurnTasks`: a poll offers, claims and completes in transactions of their own.
- `TaskWatch`: listens, pending and acknowledged, the map of watchers and their loops, each of which
  may break on an error at any of its awaits (`Break`). A watcher is told only of a stamp newer than the
  last, and two changes may have one stamp.
- `AdapterLink`: calls that share one attempt to connect, the heartbeat, a stop at any time, ends of
  sockets that the daemon notices later, changes of name beside each other, refused, or answered after
  their deadline (`NoAnswer`), when the daemon still carries them out. `doubt` is the history of that:
  "no" while every change of name since the connection, or since the last that was answered alone, was.
- `Ipc`: frames on their way in both directions, handlers that may have had their effect when they are
  stopped, and the drain of the server.
- `DaemonConnections`: requests of a connection side by side; the end of a connection cancels them and
  gives up its session once they are through.
- `HostSessions`: the same for adapters of native hosts, which have a session for each host session.
- `NativeWake`: hooks, idle marks, monitors, and the choice of the session a monitor asks for
  (`Score`), over given trees of processes.
- `OpenCodePlugin`: lives of a session, two queues, what the plugin believes and what is so.
- `DaemonOwnership`: daemons, launchers and a reset as processes over two locks and a socket.
- `Sonar`, `TicketGraph`: answers in any order, of the connection, filter, selection and focus they
  were asked with. Reads of the graph are made, and cancelled, by the effect of `app.tsx` 218-235
  whenever root, focus, pause or view change (`RereadIfChanged`); they may fail. Layouts are external
  (dagre): any places.
- `Diagnostics`, `DiagnosticLog`: messages that are deferred, dropped and acknowledged; flushes,
  rotations in single copies, failures and deaths between any two of them.

### MCDaemonParts

The initial state picks one of twenty-five parts (`part`), and only that part takes steps (`Only`); the
others stay where they begin. The parts share no state, so every behaviour of one of them is in it, and
none is checked in products with another. `View` tells states apart by the variables of the part that
runs, and where calls, reads, transactions or writers of the log are alike, by how many of them are in each
state (`Alike`): nothing names one of them, and no property tells them apart. Of a part that does not run one initial state is enough (`tickets`, `wants`, `routed`, `subject`,
`listed`);
and two parts begin with one of their initial states when they run: no run of the mutex has a key
before its call, and the graph on the screen is over one relation of dependencies, while what a graph
contains is checked over all of them. `DaemonProofs` is about this composition, the theorems it cites
about each part with all its initial states.
A property of one part holds trivially while another runs: what it says is what it says of
its own part.

## Properties

Of turns and deliveries:

| Property | Says | Hazard |
|---|---|---|
| `Exclusive` | requests for overlapping targets are not both READY, OFFERED or CLAIMED | double grant by promotion |
| `NoOvertaking`, `FencesFollowQueue` | turns are given, and fences handed out, in queue order through disconnects, demotions and reconnects | lost place in the queue |
| `WorkConserving` | after every transaction nothing that could be promoted is left waiting (clock not jumping) | a handler that frees and forgets to hand on |
| `OwnersKeepIdentity` | a request stays with an instance of its identity, and only host sessions have two live instances | renaming, reconnecting |
| `DeadHoldNothing` | no offer, ready turn or file request of a dead instance; a queued one has a reconnect deadline exactly while its instance is dead | lost sockets, double close, restart |
| `OnlyLateFailuresHoldUp` | a finished request's row is not due before its task's, unless a poll failed the task of a turn that was claimed past it and committed | a poll in three transactions beside commits; a foreign key |
| `ClaimIsCurrent` | a claimed turn has the newest fence and the current revision | a write behind its back |
| `CommitsAreProtected` | the turn of a commit in flight ends by a commit, by its owner's release or failed poll, or by a crash | sweep, disconnect, operator |
| `WritesAreFenced` | `Turns` implements `FencedWrites` | all of the above, for content |
| `TurnsEnd`, `QueuesDrain` | every content turn ends, every queued request leaves the queue | silence |
| `InboxTypeOK`, `TypeOK` | types; no batch outgrows a page | page boundary |
| `DeliveredOnce` | no version of a notification is in two unfinished batches | captures that race |
| `UnreadIsReachable` | what is unread can be captured, or awaits its acknowledgement in an unfinished batch | partial and late acknowledgements |
| `NothingLostUnseen` | a notification goes only by an acknowledgement of this version or for a newer event | coalescing behind an old acknowledgement |
| `LaunchedOnce` | no event is put into the host's queue twice | lost answers, restarts, overlapping listeners |
| `ReservationsAreTended` | a batch reserved or in submission has a listener at a place from which it settles it | restarts |
| `AmbiguityIsKept` | a submission whose listener is gone is not left in submission | rebinding |
| `IdleSessionsWake` | an idle session with work and a listener is woken, or stops being idle | unsettled batches |

`OneRequestPerInstance` (that an instance has one request for content and one for files) is proved of
`Turns` (`OneRequestEach`), and part of `GrantsAreSound`, which runs check of `Snapshots`.

Of transactions side by side:

| Property | Says | Hazard |
|---|---|---|
| `GrantsAreSound` | nothing that overlaps is granted twice, and an instance has one request of a kind, by transactions that do not see each other's writes | overlapping file sets are different rows |
| `SweepsCatchUp` | a sweep that nothing was committed beside leaves nothing that could be promoted | a release and a request that missed each other |

Of the parts; several are conjunctions, of which each conjunct is about one part:

| Property | Says | Parts |
|---|---|---|
| `NobodySleepsThroughNews` | `NoWakeLost`, `SleepersAreRegistered`: waits for notifications do not sleep through a commit; `NoSleepPastNews`: nor observers of the log; `SleepersAreMarked`: nor idle sessions, unless a mark or news were lost in one of the ways listed below | `Wakeups`, `ActivityLog`, `NativeWake` |
| `AnswersAreTrue` | "ok" is told of what was done once and published, "unknown" of what was done at most once, everything else of what was not done | `TursoStore` |
| `PoolIsSound` | no connection is leased with a transaction left open or worn, none idles while a call waits, one to spare is open at most, the close is final | `TursoStore` |
| `LinksAreSound` | `EndsAgree`: calls and connections end as the other end is told; `LinkIsSound`: an adapter has one session, and knows its name unless a change of it got no answer or overlapped another; `ConnectionsAreClean`: observers only read, and the end of a connection leaves nothing but a session whose disconnect failed; `DaemonIsAlone`: one process has the storage; `EventsAreTrue`: the log's last word on an agent is true, unless it is doubtful | `Ipc`, `AdapterLink`, `DaemonConnections`, `DaemonOwnership`, `ActivityEvents` |
| `AgentsLearn` | `AgentsKeepUp`: an agent that merges deltas is up to date; `PostsReach`: who had to be told of a message has a row about it until it is acknowledged | `AgentUpdates`, `Posts` |
| `ReadsAreWhole` | `ThreadsAreWhole`: no edit is lost, no read mixes revisions; `ListsAreComplete`, `ListsAreShown`: what stays in its place between the pages is listed, once; `GraphIsAsked`: to a reader who looks at it, the graph shown is the one asked for last, unless it is being read or that read failed | `ThreadContent`, `Listings`, `ObservedLists`, `TicketGraph` |
| `VerdictsAreTrue` | what a task says is so of its turn | `TurnTasks` |
| `EndsAreTold` | who listens to a task is told its end, or a watcher with that still to hear is at work, but in the four ways of `Missed` | `TaskWatch` |
| `LogIsKept` | the log and its older files hold the latest records without a gap, in order, and what waits will be tried again | `DiagnosticLog` |
| `BatchesReachSession` | no batch is passed over, and none is stuck | `OpenCodePlugin` |
| `ImplementsLock` | the mutex is a fair lock per key | `KeyedMutex` |
| `CursorsAreHonest` | an observer gets every event past its cursor or is told of a gap | `ActivityLog` |
| `GraphIsJudged` | no cycle, and whoever finishes what a ticket waited for tells its owner | `Tickets` |
| `SessionsAreKept` | handles are of their sessions, requests run as their sessions, an instance is abandoned only by requests that overlap | `HostSessions` |
| `ShownIsTrue` | `PagesAreCommittable`: a page goes on to the reply only under a turn that is held and in time, and as long as the agent has that turn what it was shown is what its commit would find; `ScreenIsHonest`: a screen never goes back, hides no gap and follows what is selected | `TurnReads`, `Sonar` |
| `WorkedOutRight` | operations shown as active are, or will be taken off; a monitor finds its own session; graphs, highlighting, edges and arrows; after an arrow the selected ticket is in view; patches do what they say and can be taken back; sections nest | `Diagnostics`, `NativeWake`, `TicketGraph`, `Tickets` |
| `CallersAreServed` | every run gets inside, every wait ends, an observer hears the news | `KeyedMutex`, `Wakeups`, `ActivityLog` |
| `StoreSettles`, `ConnectionSettles` | every unit of work and every IPC call is answered, and the closes of the store and of the server end | `TursoStore`, `Ipc` |

## Runs

Turns, on `MCTurns`. Limits are 1 or 2 units: what matters is which of two deadlines comes first,
and with every countdown 1 all orders of lapsing and acting occur, since a `Tick` may fall between
any two steps. Request ids are reused after retention, so three ids are not three requests but three
at a time; `MaxSequence` bounds how many are ever made of one target.

| Run | Instance | Shows |
|---|---|---|
| `queue` | 3 requests, 3 instances of one bound identity, one thread, no commits, no jumps | `NoOvertaking`, `FencesFollowQueue`, `WorkConserving`: three requests are needed for one to overtake a second behind a first |
| `files` | 3 requests and instances, for `{A}`, `{B}`, `{A,B}` (constraint `DistinctTargets`) | `Exclusive`, for sets that overlap without being equal |
| `sessions` | 2 requests, 2 instances, a bound and an unbound identity, both delivery modes, turn locks only, a jumping clock | `TypeOK`, `DeadHoldNothing`, `OnlyLateFailuresHoldUp`, `ClaimIsCurrent`, `OwnersKeepIdentity`, `CommitsAreProtected`, `WritesAreFenced`. The action constraint `NamesAlone` lets the second identity act only where there are no commits, jumps or second requests, to keep names and commits from multiplying each other |
| `live` | 2 requests, weak fairness | `TurnsEnd`, `QueuesDrain` |
| `commits_unprotected` | with both kinds of locks | `CommitsAreProtected` fails: see below |
| `snapshots` | 2 instances, identities, requests and transactions, 2 threads, 1 file | `GrantsAreSound`, `SweepsCatchUp`; each hazard is of two transactions |
| `inbox` | 3 batches, 2 callers, 3 events of both kinds, pages of 2 | `DeliveredOnce`, `UnreadIsReachable`, `NothingLostUnseen`; three events fill a page and leave one over, and an event can replace another that is in a batch |
| `delivery_faults` | 2 listeners, 2 batches, 2 events, every fault | `LaunchedOnce`; a second launch needs two batches with one event, or two listeners with one batch |
| `delivery_live` | 1 listener, 3 batches, restarts, fairness | `ReservationsAreTended` and `IdleSessionsWake`. The first does not hold when answers are lost or the session is bound elsewhere, and nothing promises it then: the batch stays for the agent to inspect. Names of batches are reused once swept, and three are enough for one in the queue, one shown and one new |
| `submissions_forgotten` | 2 listeners, rebinding only | `AmbiguityIsKept` fails: see below |
| `parts` | `MCDaemonParts`, one to three actors of each kind and every fault of each part | the safety of the parts |
| `parts_live` | `MCDaemonParts`, smaller, fairness | `CallersAreServed`, `StoreSettles`, `ConnectionSettles` |

Bounds of `parts`, where they are not just two of everything: three runs of a key and two keys (one run
must find a tail that is a third's); two attempts and one statement per connection, so that a retry
and a replacement meet; three tickets, for a cycle of three by two writers; four revisions and pages of
one, so that a commit falls between any two pages; two lives of a session; two runs of a watcher's loop,
for one that stops late while its successor is at work, over a stdout that may make them wait, clocks
that stand still or move between two changes, and tasks with and without a route; two turns of a reader,
so that one is lost and another got while a page is on its way, over two revisions; two dates of what is
listed, so that entries tie and rise; two conversations of Sonar and two
reads of one at a time, so that the selection moves while answers, older pages among them, are awaited;
two records for a file of one, which rotate it. What a graph contains is checked over all acyclic
relations of four tickets, with at most three in a graph; reads of it over one of three. The viewport is moved by
arrivals, picks and arrows there; the moves by shift and an arrow, which depend on nothing but the screen,
occur in `parts_live` only. Arrows are checked over given columns and lines, edges over a grid. Patches have one or two hunks whose header may be
wrong, over bodies of up to three lines; documents have up to five.

The deadlock check is off for `parts`, `parts_live`, since a store that is closed and a server that
has drained do stop, and where a bound stops a model.

Fairness of `live`: the maintenance loop sweeps every 250 ms (`maintenance.ts`), time passes, and a
commit's transaction ends one way or the other. Nothing is assumed of clients.
Fairness of `delivery_live`: a listener goes on and its calls are carried out; a store that keeps
being asked to reserve, or to commit a reservation, does so in the end (strong fairness, because other
captures may hold the mutex in between and a restart may cut a call short); captures end, and the
maintenance loop sweeps. Nothing is assumed of host or agent: without an acknowledgement or a hook
the property still holds, because then the session is no longer to be woken.
Fairness of `parts_live`: promises that are settled run their continuations, timers go off, a
transaction and its hooks end, the driver answers, a call's deadline passes, a handler that was told to
stop ends, and so does the release of a session. The action
constraint `OneWaiter` allows one wait at a time; what others do to it are commits, captures and
batches given back.

### What the failing runs show

`commits_unprotected`: `commitTurn` ends with `.finally(() => this.committingTurns.delete(turnId))`,
whether or not this call set the mark. `updateTicket` commits hold the project's graph lock and all
others the turn's lock, so two commit calls of one ticket turn can overlap, and the first to end,
also by being refused, unmarks the other. A sweep, a disconnect or `forceRelease` then ends the turn
of a commit in flight, which `forceRelease` says it does not: "committing writes are protected". The
commit itself is still all or nothing (`WritesAreFenced` does not depend on the mark).

`submissions_forgotten`: a prompt of another session in the same adapter, while the queue command
runs, makes the daemon refuse whatever the listener reports of its batch (`HOST_SESSION_REQUIRED`),
and aborts the listener. The command's result is then as ambiguous as can be, but the batch is not
marked uncertain: it stays `submitting`, which `presented` does not resolve and which keeps
`hasActionable` false for the identity until the daemon restarts or the agent acknowledges the batch.

### Disagreements found without a run

Formulas marked "Does not hold" in the modules were found violated by TLC; no run lists them, since
a run that expects a violation is kept for the two above. In brief:

Coordination and storage
- `OneInstancePerName`, `FileLocksEndWithSession` (`Snapshots`): two opens with the name of an existing
  identity write different rows, see no live instance and both commit (`service.ts:254` asserts
  otherwise). A close whose snapshot is older than its session's file request leaves a claimed file lock
  with a closed instance; README.md:242 says it ends on disconnect.
- A transaction retried after a conflict sees the mutation its first attempt rewrote
  (`service.ts:2350`; `OwnersAreFound` of `Tickets`): an owner's name has become its id.
- `LastWordsAreTrue` (`ActivityEvents`): two closes at once of an agent's last two attachments record no
  `agent.disconnected`; an open beside a close may end with "disconnected" of an agent that is there;
  two opens of a free name say "connected" twice; batches that wait together are published in the
  order of random ids (`turso-activity.ts:32`); `requestName` to another identity leaves the old one
  without a word (`service.ts` 1121-1165).
- `AdditionsFollow`, `OneFileIsAccepted` (`Tickets`): a hunk that only adds goes before the line its
  header names, where a unified diff has it behind, and `@@ -0,0` is rejected; a patch with a header
  that removes a line beginning "-- " is refused as naming several files.
- `listNotifications` refuses its own cursors: it asks for an integer `createdAt` (`service.ts` 797-808),
  and the clock's time is fractional. The cursor of `resourceHistory` counts, so a commit makes a
  revision come twice; the observers' offset pages may skip an entry when one in front of it leaves.
- `ackNotifications` removes rows by id, whatever event they are about by then (`service.ts:993`).

Waits and tasks
- `WaitsAreAnswered` (`Wakeups`): a request aborted between the creation of its waiter and the await of
  its promise rejects a promise nobody handles (`service/notifications.ts:80`), which ends the process.
- `WorkEnds`, `ClaimsSurvivePolls` (`TurnTasks`): a turn claimed directly and committed leaves its task
  working; a poll that finds the offer claimed, or comes from another attachment, marks the request
  FAILED (`service.ts:1283`; README.md:136).
- `NothingHoldsUp` (`Turns`): a poll makes an offer, the agent claims it directly and commits, then the
  poll's claim fails, finds the task working, and gives its row a time later than the request's
  (`service.ts` 1283-1296). When the request's has come its row cannot be deleted (`tasks.requestId` is a
  foreign key, and `turso.ts` 146 enforces them), every sweep fails, and with it every handler that
  begins with one; the maintenance loop takes that for fatal. It lasts for as long as lay between the end
  of the commit and that of the poll.
- `OneWatcherPerTask` (`TaskWatch`; `mcp.ts:414`): a watcher that stops removes the entry of its
  successor. An end is missed in four ways (`Missed`): the loop breaks on an error that is not the
  daemon's, or on `TASK_NOT_FOUND` (`mcp.ts` 404-411); the last two changes of a task have one stamp; a
  listener is acknowledged while stdout makes the watcher's last words wait; or the host session of a
  task's route has gone.
- `RepliesAreInTime` (`TurnReads`): the tickets are listed after the last look at the turn
  (`service.ts` 1656-1659, 2702-2705), and a reply may leave under a turn that is lost by then.
- `FollowsAreFresh` (`AgentUpdates`): follows record no activity, so an update that is spared its
  reading does not see them (docs/coordination-efficiency.md:13).

Daemon and sessions
- `EarlyEndsAreTrue`, `RecordIsOfTheServer` (`DaemonOwnership`; `daemon.ts` 772-805, 143-178): a stop
  between socket and ready ends as failed; `fatal` writes over a successor's record. `daemon stop`
  returns when the socket is gone, before the owner's lock is free.
- `NoneIsAbandoned` (`HostSessions`; `daemon.ts` 281-307): two calls open an instance each for one
  session, and one is left to the sweep.
- Two closes of a session at once, followed by an open, can take the new session out of the map (clients
  send one); a disconnect that fails at the end of a connection leaves its session where monitors look.
- `NamesStay`, `NameStaysKnown` (`AdapterLink`): the lost reply of a change of name brings the adapter
  back under the old name, which may be another identity. A reply after its deadline is dropped
  (`ipc.ts` 284-302), and the adapter goes on with a name it no longer has, over a socket that lives.
- `NewsComeHome` (`NativeWake`): while its own adapter is not connected a monitor takes the news of
  another session and prints them in the wrong host (README.md:148). An idle session is not woken after
  a lost reply, a late hook that removes the mark, or a new connection of its adapter.
- `readOrCreateClientId` (`agents/claude-native.ts` 39-71): who reads between the creation and the
  write finds an empty file and calls it corrupt; a crash there leaves it so.
- A batch captured while the Codex queue was off is dropped by the adapter if the queue becomes available
  meanwhile (`mcp.ts` 604-627, `daemon.ts` 520-530). Concurrent binds of a Codex adapter with different
  workspaces can leave `adapterWorkspace` other than the connected one.

Hosts and screens
- `ActivityWaitsForIdle`, `SleepersAreWoken` (`OpenCodePlugin`): the user may begin a turn after the host
  answered "idle"; while the event of its idling is on its way, a session is told without a turn.
- `SentIsActive` (`Diagnostics`): the id of an operation whose end was dropped counts against the limit
  for good. The worker's 'error' handler does not look at `stopped`: a worker that fails during `close()`
  is recorded as failed.
- `EndStays` (`Sonar`; docs/sonar.md:45): an older page that arrives after End takes the reader back. 's'
  and Enter of a filter keep a pinned page of the filter before; `more` drops the owner of the filter;
  `older` uses the revision of the conversation shown, also when another is selected.
- `PickedIsSeen`, `EdgesAreApart` (`TicketGraph`): a ticket picked from the list is selected where it
  stands, possibly off the screen; edges without a common end meet at drawn junctions unless they cross
  at a right angle. After a read that failed the graph of another ticket stays on the screen, and its
  error with it only until another read succeeds (`app.tsx` 203, 225). An arrow before the graph has arrived selects nothing that exists. There are layouts
  in which arrows do not reach every ticket.
- Of the diagnostic log: counts of suppressed repetitions vanish when `rates` evicts at 256 keys;
  without a driver for the lock `bestEffortLock` returns nothing, and writers interleave; retries of a
  rotation that failed push old files out early.

## Proofs

What follows is proved with TLAPS for all values of the constants: any number of requests, instances,
targets, transactions, connections, readers, pages and so on, from the named assumptions of the modules
(limits are positive, sets of names are disjoint, "no one" is nobody). Every safety invariant and
action property that a run checks is stated by a theorem, but for `WorkedOutRight` and
`ReservationsAreTended` (see below). Two theorems have hypotheses beyond the assumptions, in their
statements: `NothingWaitsForASweep` asks for a clock that does not jump, and `CenteredIsSeen` for a
screen a box fits on. `CommitsAreProtected`, which fails with locks of two kinds, is proved as far as it
is true of any: `CommitsKeepTheirTurns` says what the mark of a commit keeps away, and what takes the
mark away.

A theorem has an inductive invariant behind it. An invariant was first checked with TLC on the run of
its module, where that was within reach, and each of its steps has a proof per action.

### Turns (`TurnsProofs`, `TurnStateProofs`)

`TypeCorrect`, `TurnsAreExclusive`, `ClaimsAreCurrent`, `QueueIsFair`, `FencesAreOrdered`,
`TurnsImplementFencedWrites`, `SessionsInvariant`, `DeadAreNotWaitedFor`, `RowsOutliveTasks`, `OwnersStay`,
`OneRequestEach`, `NothingWaitsForASweep`, `CommitsKeepTheirTurns`; `OverlapIsASharedFile`,
`OutermostCoverAll`.

`Exclusive` is not inductive: two queued requests with the same sequence number would be promoted
together, since neither was queued before the other. Nor is `NoOvertaking`: a ready turn that goes
back into its queue is in front of everybody only because nothing that overlaps it was reserved.
The invariant `Inv` joins exclusion (`Alone`), order (`Ordered`), currency of claims (`Current`), that
overlapping requests have different numbers, none above the counter of their target (`Numbered`),
and that fences are traces of claims in queue order: nothing unclaimed has one, none is above its
target's, and whoever has one was queued before whoever has not claimed yet (`Fenced`).

The argument has two lemmas. `CalmSound`: whatever changes rows without newly reserving, claiming or
un-ending one keeps a table sound; ends, disconnects, sweeps, aging, restarts and takeovers are
*calm*. `PromoteSound`: promotion keeps it sound, because of two overlapping requests with different
numbers the later is not promotable, and none is beside a reserved one. Every action is then a calm
change followed by a promotion, except for the insertion of a request (`InsertSound`), a claim
(`ClaimSound`), which moves the fence of a target nobody else has claimed, and the end of a commit
(`FinishCommitSound`), which moves its revision.

For the refinement, `HeldIs` says that `held` is the fence of each target on which a turn is
claimed, whichever row it picks. A step that neither claims nor commits claims nothing new (`Loses`,
carried through the same step lemmas) and is a `Lose` of the abstract specification; a claim is a
`Take`, because nothing else on its target is claimed; a commit is a `Write`, because its own turn
is the one that is held.

What concerns sessions has a second invariant, `SessionInv`, over the first: a row is tended by its
instance (an offer or a file lock by a live one; a queued request of a dead one has a reconnect
deadline), a row outlives its task, an instance has one request of each kind, and only bound identities
have two live instances. A task's row is due with its request's at the latest, and what may set it later
is the failure of a poll: which finds the request committed, or ends it itself (`RowsOutliveTasks`).
`WorkConserving` is kept because every transaction
that frees a target, brings a session back or inserts at the head of a queue ends in a promotion, after
which nothing can be promoted. With the clock behind, promotion expires what it makes available and the
next request waits for the sweep: hence the hypothesis. `CommitsKeepTheirTurns` is an action property
that follows action by action from the guards on `committing`, with `Inv` for the rows they look at.

`TurnStateProofs` has what both `Turns` and `Snapshots` need of the operators of `TurnState`: what a
promotion, an end or an aging does to any table. And that the overlap of file sets, which the models
take as sharing a file, is what `fileSetsOverlap` decides path by path, for resolved paths of any
length: one target is a beginning of the other exactly when a file lies under both.

### Snapshots (`SnapshotsProofs`)

`SnapshotsInvariant`, `GrantsStaySound`, `SweepsLeaveNothing`. A transaction under way knows which rows
of its snapshot are stale; a row that is not stale is as the snapshot has it. So a commit that is not
refused writes rows it saw as they are, and the table after it is the one a transaction alone would
have made, for these rows. What keeps two grants apart is where numbers are drawn from: of two requests
that overlap one counter has both, `queueSequence` of the resource or `fileQueueSequence`
(`OneCounter`), and what is granted comes before what waits. So two transactions that grant what
overlaps would each have put its own request before the other's. The guard row of file sets is not
needed for this.

### Inbox and CodexDelivery (`CodexDeliveryProofs`)

`InboxInvariant`, `InboxTypeCorrect`, `EventsAreDeliveredOnce`, `UnreadStaysReachable`,
`NothingIsLostUnseen`; `DeliveryInvariant`, `DeliveryTypeCorrect`, `DeliveryImplementsInbox` and with it
`SessionsAreToldOnce`, `SessionsMissNothing`; `EventsAreLaunchedOnce`, `OnlyFaultsLeaveAlone`.

`DeliveredOnce` needs that a capture between its steps is alone and holds nothing that an unfinished
batch holds (`Captures`). `UnreadIsReachable` needs that what is acknowledged is not unread and that a
handled batch is acknowledged altogether (`Settled`); `NothingLostUnseen` that no version is newer
than the last event (`Numbered`). `LaunchedOnce` rests on four more: listeners have batches of their
own that share no version (`HeldApart`), which nobody else gives back or captures (`HeldAreKept`); a
batch that may still be launched or given back was not launched (`HeldAreNew`), where a listener that
denies a launch that took place is harmless because its batch has left `reserved` and `submitting`;
and what was launched is acknowledged or in a batch that is not given back, and in no capture
(`LaunchedAreOut`). Steps that only move listeners (`PlacesKeep`) or only change states of batches
(`BatchesKeep`) disturb none of them; launching, reporting, a new batch and a restart have a proof each.

`OnlyFaultsLeaveAlone` is of all faults: a step after which a batch is reserved or in submission with
no listener to settle it, and was not so before, is a lost answer, an exit of the host, a report that is
refused because the adapter turned to another session, or an end of a capture nobody waits for, which
a lost answer left behind (`Strands`). Two more facts carry it: a capture that is asked for is awaited by
its listener (`CapturesAreAwaited`), and captures take turns, so the one that ends is that listener's. No
overlap of listeners, no hook, reader or sweep and no restart is among these steps. That a listener
settles its batch wherever only restarts happen (`ReservationsAreTended`) is what the run checks.

### Storage (`StorageProofs`)

- `ChainStaysWhole`, `MutexImplementsLock`: a run awaits the last unfinished one before it
  (`Awaits`), and the map has the newest of each key (`Newest`); whoever is inside awaits nobody.
- `TicketsAreJudged`: all writers of the graph use one key, so there is one (`OneWriterOfTheGraph`), its
  snapshot is what it writes to (`SnapshotsAreCurrent`), and a graph without cycles stays so if the
  commit's judgement says so. A retry begins with a new snapshot.
- `CallersAreToldTheTruth`, `PoolStaysSound`: slots are free, leased, to be replaced or out of use, never
  two of these (`SlotsSorted`); in each phase of the close only some of it is left (`PhasesKept`).
- `DaemonStaysAlone`: storage is opened by the holder of the owner's lock and given up before the lock
  (`StorageIsOwned`), and a socket is bound by whoever serves (`Reachable`).
- `LogStaysKept`: flushes are alone by the lock (`FlushesAlone`); a file holds records in a row
  (`FilesHoldRows`), whatever is in no newer file is in the next older one or was pushed out
  (`NewerHoldTheRest`), and a copy that is cut short leaves a file whose rest is still in its source
  (`CopiesAreSafe`), so that the rotation can be tried again.

### Content and observers (`ContentProofs`)

- `CursorsStayHonest`: the outbox has all that was committed and not published (`OutboxIsWhole`), numbers
  are below the head and cursors behind it.
- `ThreadsStayWhole`: history is kept (`HistoryIsKept`), heads count appends, visibility is that of the
  mutations; a page read at a revision is then a function of the history before it, which is never
  rewritten (`ReadIsOfPast`). A row is written only where it still has the revision the edit was
  prepared on, and the table of revisions has each once.
- `ListsStayComplete`: a lister's cursor is a place in an order, and what it has not yet come to stands
  behind it (`OnItsWay`); places in a finite order are counted by what precedes them.
- `ListsStayShown`: with an offset instead of a place, all that was shown stands in front of the offset
  and what is owed behind it, since as long as nothing came to be in front, an entry's number is how
  many precede it (`PagesCount`, `FrontsMove`). Events have places of their own (`EventsApart`), and
  are paged by place.
- `AgentsAlwaysKeepUp`: tokens are unique, checkpoints are what was held, and a head that has not moved
  says that nothing with activity was committed since (`HeadsTell`).
- `PostsAlwaysReach`: rows are identified by agent, topic and event; a commit's snapshot has the thread
  as it is, because writers of it conflict on it; reasons follow from the follows of the snapshot.
- `PagesStayCommittable`: a call reads at the base its token had when it began, bases are never
  rewritten, and while a turn is held nobody else commits (`PagesInv`). So what was found in time is
  current when it is found, and stays so for whoever still has the turn when the reply leaves.
- `ScreenStaysHonest`: the last answer kept is the newest, and what is awaited is selected.
- `GraphStaysAsked`: while the reader looks, a read that still counts is for what is asked, and one that
  does not was cancelled (`CountedAreAsked`); without one, what is asked is there or its read failed
  (`AnsweredAreShown`), since whatever changes root, focus, pause or view reads again. `CenteredIsSeen`: the arithmetic of the viewport.

### Hosts (`HostsProofs`)

- `TasksAreJudged`: a task's row follows its request in each of a poll's transactions (`AsksSound`).
- `ListenersHearEnds`: the loop of an entry of the map is at work (`EntriesAreAtWork`), no loop has heard
  of a stamp that is not there (`HeardIsPast`), and who listens was told, or has a loop at work, or the
  last loop left without a word and none has begun since (`ListenersAreServed`).
- `PluginLosesNothing`: queues have no gaps, and what is being told is the batch before its queue
  (`LifeIsSound`); an opened life that could be told something is at a step (`Unstuck`).
- `EndsStayInAgreement`: frames are of the requests they name, and what was refused was never sent.
- `LinkStaysSound`: one attempt to connect at a time, apart from the link in use (`AttemptIsApart`); calls
  are on the socket in use (`CallsAreCurrent`), and a change of name that is alone and answered leaves
  adapter and session with one name (`ChangesAreSettled`).
- `SessionsStayKept`: a request keeps the handle of its session, or notes that it met another
  (`MeetingsAreNoted`).
- `ConnectionsStayClean`: requests are of a kind their connection may have (`KindsAreServed`), openings
  are alone, closes and uses are of the connection's own session.
- `EventsStayTrue`: a transaction about an agent whom nobody else changed since its snapshot sees the
  agent's instances as they are (`SeesRight`), so what it says is true, and true it stays until the next
  one (`SaysTrue`). Whoever changes an agent beside another transaction makes it doubtful.
- Marks of idle sessions (`MarksInv`), for `NewsWakesEverybody`.

### The daemon (`DaemonProofs`)

`SleepersCanBeWoken` proves of `Wakeups` that who sleeps is on the map (`OnTheMap`) and was not passed
by. The rest is about `MCDaemonParts`: a step is a step of one part and leaves the others alone
(`PartsTakeSteps`), so a behaviour of all of them is a behaviour of each (`PartsBehave`), and what was
proved of the parts holds of the whole: `NewsWakesEverybody`, `LinksStaySound`, `AgentsAlwaysLearn`,
`ReadsStayWhole`, `CursorsStayHonestInTheDaemon`, `ShownStaysTrue`, `PartsKeepTheirPromises`. These
theorems state the properties of the run `parts` as they are checked there.

### Only model-checked

- Everything under fairness: `TurnsEnd`, `QueuesDrain`, `IdleSessionsWake`, `CallersAreServed`,
  `StoreSettles`, `ConnectionSettles`. The prover has no rules for ENABLED. What of them is safety is
  proved: `SweepsLeaveNothing`, `NothingWaitsForASweep`, `OnlyFaultsLeaveAlone`.
- `ReservationsAreTended`, which holds where only restarts go wrong: that none of the steps that
  `OnlyFaultsLeaveAlone` names is taken there.
- `WorkedOutRight`: folds and recursive functions over data (graphs, arrows, edges, patches, outlines,
  the flush of deferred messages), which need induction over data. `SelectionIsSeen` is among them since
  the domain of a layout is the result of such a function; `CenteredIsSeen` has its arithmetic.

## Not modelled

The command line, the terminal's painting, the website and release scripts hold no coordination state.
Formatting of results, MCP schemas, exports and what a sampler concludes are left out as wording. Of
what is modelled, each module's header says what it leaves out: above all budgets of pages in bytes,
which become numbers of entries, the contents of events and notifications, the resolution of paths by
the file system, layouts, and the driver of the database, which is external wherever it appears.
