# Verification of Pixie

Pixie is a self-hosted server (Go, `src/pixie/internal/controller`) that shows the chats of a Pi
agent in browsers. It keeps a connection to a Pi host (`src/pi/host`), projects the agent's
sessions, and stores little of its own: which sessions belong to which project, the follow-ups that
wait for a session, the schedules, and the deletions under way. This directory holds TLA+
specifications of the parts in which ordering, failure and restart matter, the TLC configurations
that check them, and TLAPS proofs.

## Inventory

What each part keeps, what it does, what is hard in it, and what makes it correct.

| Part | State | Operations | Hard behaviour | Correct when |
|---|---|---|---|---|
| Schedule runner, `schedules.go` | jobs, runs, mutation identities (memory and `schedules.json`); claims, pending ends, back-off (memory) | tick, create, update, delete, run now, stop, a run's goroutine, close, start | claim before dispatch; failing writes; a stop against a prompt; crash and restart | no run is repeated by itself, runs of a job do not overlap, ends are recorded, repeated mutations act once |
| Follow-up queue, `session_queues.go`, `session_actions.go` | per session: waiting messages, dispatch, blocked message, request identities (memory and `pi-session-queues.json`) | queue, edit, remove, retry, drain, settle, recover | uncertain delivery; wake-ups; the gate held over calls; stale indices | a message reaches Pi once, in order, or waits for its owner |
| Projections, `session_events.go`, `session_history.go` | a session's messages, open tools, questions, flags | load and replay, notifications, prompts, snapshots | replay against live events; echo of a prompt; connections that change | a page shows what Pi has, once and in order |
| Questions, `session_questions.go` | pending questions | ask, answer, withdraw, cancel | a question is told twice; answer against time-out and abort | it is asked once, of somebody who waits |
| Leases, creation, eviction, `session_manager.go`, `session_operations.go` | projections, references, leases, lifecycle reservations, pending commands | lease snapshots, attach, create, archive, evict, project close | snapshots out of order; eviction against waiters; a closing overtaken by a reopening | what is shown or used is projected, and the rest is within the budget |
| Deletion, `session_lifecycle.go`, `session_deletions.go` | journal of deletions | request, delete at Pi, confirm, clean up, forget; recovery at start | crash between any two; lost answers; another agent after restart | a deletion is finished or still in the journal, and happens where it was requested |
| Pi client, `pi_client.go` | connection, generation, attempt | connect, reset, close, calls | attempts that end late; generations | no stray connection; work of one generation never uses another |
| Pi host, `pi/host/src/sessions.ts`, `server.ts` | a session's entry, runs, event numbers, peers | load, prompt, delete, release | suspension points; a release beside a request; events beside a load | one entry at a time; a loader misses no event, and sees one twice only after a reload |
| Page and WebSocket server, `transport.ts`, `websocket.go`, `socket_output.go`, `replay.go` | pending requests; sockets, reap timers, replay cache | connect, resume, request, answer, acknowledge, reap | repeated requests; reap against reconnection; full queues and caches | a mutation runs once, until the server has forgotten it, and its answer is true; nothing is kept for ever |
| Browser panels, `browser_panels.go`, leases, ownership | panels, timers, journal of names | open, command, close, release, renew, restart | failed closes; lost answers; two processes that restart apart | no panel outlives its owner for good |
| Browser service, `browser/service.go`, `panel_leases.go` | directories, locks, screenshots, reservations | commands, close, expire, measure | directories removed under a lock; quotas under concurrency | one command per session, storage within limits |
| App views, `app_views.go`, `app_view_lifetime.go`, `session_apps.go`, `browser/app_views.go` | views, leases, contents, operations, early cancels, tickets | open, read, keep alive, expire, call, cancel, release | reservations; cancel before begin; lease against close | accounts return to zero; a closed view is silent |
| Provider login, `provider_login.go`, `pi/host` | pending logins, snapshots, timers | start, begin, frames, respond, cancel, expire | a frame, a failed call, a timer and a cancel that meet | a login ends once and its owner is told |
| Persistence, `persist/store.go` | a file and its backup | read, write | a write that fails after it replaced the file | a reader sees the old or the new content |
| Projects, root migration | projects, migration journal | open, close; move four stores | crash between stores | each step can be repeated |
| The rest | none of its own, or caches | files, git, search, settings, administration, HTTP, MCP proxies, web UI | I/O | not modelled |

Components talk by direct calls inside the controller; by JSON-RPC calls and notifications over one
WebSocket to the Pi host; by HTTP to the browser service; and by requests and published events to the
browsers. A session is serialized by its operation gate (`entry.op`), which is held over calls to Pi;
its fields by `entry.state`; the maps of the manager by `m.mu`.

## Modules

| Module | Models | Run |
|---|---|---|
| `Schedules` | the schedule runner | `schedules_one_job`, `schedules_repeated` |
| `FollowUpQueue` | the queue of one session, with attachment, the prompt's goroutine and the host's side of a prompt | `follow_up` |
| `SessionDeletion` | deleting a session: journal, recovery at start, and what could act for it meanwhile | `deletion_races` |
| `PiClient` | the controller's connection to Pi | `pi_client` |
| `PiHost` | the host's end: a session's entry, its events and calls, and the reader of the connection | `host_session` |
| `BrowserClients` | a page, its sockets and the WebSocket server with its replay cache | `clients_reconnect` |
| `RemoteCalls` | what a page is promised: the abstract specification that `BrowserClients` implements | |
| `SessionLeases` | projections, leases, creation, eviction | `session_leases` |
| `SessionProjection` | transcript, echo, replay, questions, pages | `session_projection` |
| `BrowserService` | the browser service: requests, locks, leases, storage | |
| `BrowserPanels` | the controller's panels, composed with `BrowserService` | `browser_panels` |
| `AppViews` | registry, operations and tickets of app views | `app_views` |
| `ProviderLogins` | logins at the controller and at Pi | `provider_logins` |
| `Selections` | what a loop keeps that copies the wanted elements of a list: an operator of `PiHost` and `AppViews` | |
| `SchedulesProofs`, `FollowUpQueueProofs`, `SessionDeletionProofs`, `BrowserClientsProofs`, `SessionLeasesProofs`, `BrowserPanelsProofs` | theorems about the module of that name | |
| `PiProofs` | theorems about `PiClient`, `PiHost` and `AppViews` | |
| `PageProofs` | theorems about `ProviderLogins` | |
| `MC*` | values of constants for TLC | |

Operators named after the code translate it; operators whose comment begins with "Mutant" are wrong
versions of the next definition, kept to show that a property notices the difference. Specifications
that one module of proofs extends together have names of their own for what the others call `Init`,
`Next`, `Spec` and `TypeOK`: `HostSpec`, `ViewSpec`, `ProjectionSpec`, and so on.

### Schedules

`jobs`, `operations`, `running`, `pending` and `failures` are the fields of `Schedules` of the same
name; `workers` has one record per goroutine of `startLocked`, with the place it has reached
(`phase`), whether its context is cancelled, and its own copy of the run. `disk` is `schedules.json`.
A critical section of the mutex is one action (`Create`, `Update`, `Delete`, `RunNow`, `Stop`,
`Close`, `Admitted`, `RecordEnd`), but a tick, which writes the file several times, is a sequence of
actions that holds the mutex (`tickAt`), so that a crash can cut it. The goroutine runs without the
mutex between `ValidateRoot` and `PromptDone`. `Write` is `persist.Write`: it succeeds, fails without
effect, or fails after the replacement; the memory follows only a success. `Restart` is
`NewSchedules`, which marks open runs interrupted and pauses their jobs, and whose own write can fail.
History variables: which run was dispatched for which occurrence or request, which was prompted,
which answers were given, and for which jobs a crash cut off a claim.

### FollowUpQueue

One session. `queue` is `entry.queue`, `disk` its record in the file; `drain` stands for
`drainScheduled` and the goroutine of `runFollowUp`; `timer` for `drainRetry`; `op` for the operation
gate together with what its holder does next; `prompt` for the goroutine that `Submit` starts. Calls
to Pi take several actions, during which the gate is held and `entry.state` is not. Pi's side is
`wire`, `agent` and `transcript`: a prompt can be delivered after the connection that carried it is
gone, is refused while another run is active, and appends a user turn when it starts. The generation
of a connection matters only as "current" or not. A restart reads the file and refuses one that is
not `Accepted` (`validateStoredQueues`). A client names a message by its place in the list that it is shown
(`Places`), so that an edit or a removal is of whatever stands there when it is carried out. `mistaken`
remembers the messages that a replay took for delivered because another turn of the same text stood
where it looked.

### SessionDeletion

Every operation is a thread that goes through `queueEntry` (`Begin`, `ReadRecord`, `Install`: one
action per critical section of `m.mu`, because the association is read between them), the session's
gate (`Lock`), and its own work. `entry` is `m.sessions`, where a projection is a small number, so
that an operation may hold one that was evicted or replaced; references are the threads that name it.
`Reserve` to `Finish` are the steps of `Delete`; the thread `Starter` is `recoverDeletions`, which
goes through the same steps for each record of the journal, without a reservation, because nothing
is served before it ends. `journal` is `pi-session-deletions.json`; of the three stores that a
deletion cleans up the model keeps which sessions the file and its backup have a record of. A write
fails before the backup, between the backup and the file, or after both; `SessionRecords.Forget` and
`SessionQueues.Forget` write the same content twice, because only the second write removes the session
from the backup. Pi's side is the deletions on their way (`wire`) and the sessions of each agent
(`piHas`): a deletion can be carried out after its connection and its caller are gone. An agent stands
for what the code calls the deletion binding: identity, endpoint and secret.

### PiClient

`closed`, `connection`, `connecting`, `generation` and `notified` are the fields of `PiClient`;
`attempt[g]` is where the goroutine of the attempt of generation `g` is (`Dial`, `Greet`, install,
publish the profile), `done[g]` the channel its waiters read, `cancelled` the attempts whose context
ended, `conn[g]` the socket and its reader. A caller that is pinned to a generation (`pin`, the code's
`connectionGenerationKey`) must be refused on any other. `Reset`, `Close`, a lost socket and callers
that give up come between any two of these steps.

### PiHost

JavaScript runs one piece of code at a time, so an action is what the host does between two awaits.
`entry`, `opening` and `evicting` are the maps of `Sessions` for one session; `entries` says what
became of each object that was built. A load copies the transcript at `at`, keeps the events that come
meanwhile (`loading`, `kept`), and sends those after the snapshot. `inbox` and `view` are the other
end: the reader of `pi_client.go` and the last event it applied. What the reader finds while a load waits
for its snapshot goes into the projection that the load builds, before the snapshot and without a look
at its number (`session_events.go:92-105`); `ahead` has those events, and `Replaying` says when that is.
A load that was given up may leave a part of its snapshot there too.

### BrowserClients and RemoteCalls

The page (`kind`, `pending`, `got`, `at`) is `WsTransport`: it repeats what is unanswered on every
socket it opens, in the order in which it was asked (`pending` is a sequence), and acknowledges what
was answered. `serve`, `installed`, `timer`, `fired`, `reaping`
and `handler` are the server's goroutines, sockets and timers; `cache[0]` is the shared replay cache,
and `cache[s]` the one a socket keeps for answers that carry a snapshot. `version`, `lock` and
`target` are the session whose events travel on the same socket as those snapshots.

Nothing orders the connections of a page but the order in which it opened them. A socket that is behind
an installed one is `Stale`: its reader still handles the frame it had read, and the goroutines of its
requests go on. Nor does anything bound how long a request waits or a page stays away, so that a client
may be reaped while its page still wants an answer. In both cases the server has forgotten what it
executed, and `lapsed` remembers of which requests: those that had been executed when their client was
reaped, those that a stale reader dropped from the cache, and those that a stale goroutine executed. Every
other request is executed once.

`RemoteCalls` has three variables and six steps. `Calls == INSTANCE RemoteCalls WITH call <- ...,
ran <- ..., void <- lapsed` maps what the page knows of a request, how often it was executed, and whether
the promise was withdrawn for it (`Lapse`); reads, which may be executed again, count as one. `KeepsItsPromise == Calls!Spec` is checked as a property, that is: each
step of page, network, server and timers is a step or a stutter of the promise.

### SessionLeases

`current` and `projection` are `m.sessions`, with `refs` and the gate of each projection; `leases` is
`m.leases` with the revision of each client. A page numbers its snapshots (`revision`, `sent`), and
`SetLeases(c, r)` may take them in any order. `Evict` is a part of every action that releases
something, as in the code, never an action of its own. An operation takes a reference, waits for the
gate, and looks again whether its projection is still the session's.

### SessionProjection

`log` is Pi's transcript; `wire` what it has told and the controller has not read. `entry` is the
projection that pages see and `replay` the one a load builds; a load replaces the one by the other
under the gate. `loads` counts the loads that were sent and served: one that failed or was given up
(`LoadFails`) may still be served, on the same connection, and the session may be loaded again over a
connection that has it already (`Invalidate`). What such a connection still carries goes into the new
projection before its own load does; `ahead` says how much that was, and the properties are about the
rest (`Own`). `echo` is `pendingEcho`. Pages are told of a queued prompt, and not of a direct one
(`Untold`), which only the page that sent it knows. A question is a `call` in the transcript and, apart from it,
a request of Pi's MCP client (`asks`), which must find each other (`Find`, `Register`, `consumed`). The wait ends (`Wake`) before the question is
withdrawn (`AskEnds`); a page may answer in between.
`page` is a browser that asked for a snapshot and was then sent events.

### BrowserService and BrowserPanels

`BrowserService` describes one request (`request[r].stage`) from its arrival to its answer:
`Prepare`, `Lock`, `Start`, `Succeed` or `Fail`, `Clean`, `End`, over the directories, lock files,
markers and accounts of each session. It has no `Next`: `BrowserPanels` extends it and gives it its
clients, the controller's panels and an MCP client, and the crashes of both processes. In
`BrowserPanels` `open`, `closing`, `retry` and `orphan` are the fields of `BrowserPanels` by name,
`journal` is the ownership file, `calls` and `caller` the goroutines in `close` and `Command`.

### AppViews

A view is an attempt to open one: `stage` goes from its reservation over Pi's answer and the ticket at
the browser service to "open" and back to "gone". `content`, `active`, `opening` and `early` are the
registry's accounts. Leases and timers count ticks. `Call` is the moment an operation passes the
session's gate and goes to Pi.

### ProviderLogins

`pending`, `snapshot` and `closed` are fields of `ProviderLogins`; `starter[l]` is the goroutine that
answers `loginStart` and then calls `loginBegin`. `calls` and `frames` are the two directions of the
connection, in order; `answer` is apart from them because the goroutine that waits takes it whenever
it runs. `held` is Pi's login with its own timer.

### How they meet

Each composed pair is composed where state is shared in both directions: page and server, panels and
service, views and their tickets, client and host as to events, logins and Pi. The others are checked
apart and meet at an interface that one side keeps abstract: the operation gate and `attachLocked`
(in detail in `FollowUpQueue`; a question of success in `SessionDeletion` and `SessionLeases`; a
sequence of notifications in `SessionProjection`), and the connection (in detail in `PiClient`; lost
and made again at any time elsewhere).

## Runs

| Run | Question | Bounds | Distinct states |
|---|---|---|---|
| `schedules_one_job` | Is a claim on disk while its run works; does nothing run twice or without a session; does an interrupted job stay paused; are ends recorded and stopped runs ended? | one job, two runs, every mutation, crash at any step, failing writes while the clock leaves room for another attempt | 303 thousand |
| `schedules_repeated` | Are mutations carried out once under their identity, and answers durable? Is the limit on concurrent runs kept between ticks, explicit starts and releases? | two jobs and one slot, two identities, each of two requests, replays at any time | 2.9 million |
| `follow_up` | Once, in order, nothing lost, a file that the next start accepts, delivered in the end? | two messages of different texts, an edit, a retry, a prompt past the queue, one fault (write, call, load, time-out, drop or crash) | 817 thousand |
| `deletion_races` | Is a session with a recorded deletion left alone, deleted only where that was requested, and finished? | one session, two operations beside the recovery, two agents, three faults | 287 thousand |
| `pi_client` | Is no socket left open or used by work of another generation; is every caller and waiter told, in the end? | two callers, one of them administrative, two generations, Reset and Close at any time | 88 thousand |
| `host_session` | One entry at a time; a loader's events without a gap, and once unless the session was loaded again; nothing left open; calls end? | three requests of any kind, two connections, two entries, two events, stop at any time | 309 thousand |
| `clients_reconnect` | Does the server keep the promise of `RemoteCalls`; are answers true and never older than what the page has; is the page served and what it leaves reclaimed? | two requests, two sockets, one event, a cache of one, an output queue of two, two goroutines at once; only the last request is given up, and the last socket is closed only by the server | 688 thousand |
| `session_leases` | Is what a client shows and what an operation uses projected, and the rest within its budget; does the latest snapshot win? | one session, one client with two snapshots, two operations of any kind, no idle projection kept, project closed and reopened | 2.9 million |
| `session_projection` | Does a page show Pi's transcript once and in order; is a question asked once, and withdrawn by whoever asked it? | a transcript of four chunks, two prompts of one text, two connections, two loads, two askers of one call | 4.7 million |
| `browser_panels` | One command per session, storage within limits, one close at a time, no renewal of what nobody owns; are abandoned panels gone in the end? | one panel beside an MCP client's session, two requests, one screenshot of storage, one fault, both processes restart | 522 thousand |
| `app_views` | Do the registry's accounts agree; is a closed view silent; are leases watched; do views end? | two clients with a view and an operation each, capacities of one or two, a lease of two ticks, one fault | 214 thousand |
| `provider_logins` | One login per browser and provider, its end told once, its snapshot current; does it end? | two logins of one browser for one provider, one frame beside the closing one, one fault | 250 thousand |

Several properties of a run are conjunctions of named parts, each with a comment that says what it is
about: for example `TranscriptIsTrue` is `ProjectionTypeOK`, `Faithful`, `ReplayFaithful`,
`AheadIsReal`, `UserOnce` and `PageIsCurrent`. A violation of any part is a violation of the whole; TLC's trace shows which.

### Why the bounds suffice

Each hazard needs at most two actors of a kind (two runs of a job, two callers, a retry and the drain,
a request and its repetition, two commands of one directory) and one to three faults. Capacities (the
replay cache, output queues, slots of panels, views, operations and contents, projections that may
idle) are set to zero, one or two, so that they are reached. Where one object of a kind is enough for
the interleavings there is one: one session in `FollowUpQueue`, `SessionDeletion`, `PiHost` and
`SessionProjection`, because sessions share nothing there but the connection. `session_leases` has one
session too, so that the "others" for whose sake something is evicted are its own operations; eviction
reads nothing of another session but whether it may go. `MaxRuns` and `MaxOps` are not so small that an identity or an open run ages
out while it is needed: the code's limits are 100 and 512, and an identity that aged out is a
documented limit. In `clients_reconnect` one request is enough to
be given up, and a page that lost its last socket by itself would only wait; a reaped client, a stale
reader and a stale goroutine all occur with two sockets. In `session_projection` two loads are one that
is given up or overtaken and the one that follows it on the same connection, or one on each of two
connections. `CHECK_DEADLOCK FALSE` is set where the model may use up its requests, sockets,
generations, chunks or logins and stop.

## Fairness

- `Schedules`: the ticker, the clock and the goroutines of runs go on. The goroutines need strong
  fairness because they wait for a mutex that others take again and again; Go's mutex hands over to a
  starving waiter. Pi need not answer, clients need not send anything, the process need not restart.
- `FollowUpQueue`: begun operations, timers and goroutines go on; the gate, a channel of capacity one,
  serves its waiters in their order, hence strong fairness of the drain and of settlement; the
  connection is made again, Pi ends its runs. `ReopenedSpec` adds that somebody opens the chat again and
  again; without it `Delivered` fails (below).
- `SessionDeletion`: begun deletions and the recovery go on; Pi answers or the connection drops; the
  process is started again, also while a session stays reserved after an uncertain deletion, which is
  the operator's part ("restart Pixie to reconcile it", `session_lifecycle.go:256,262`). `Connect(a)`
  is strongly fair: an agent whose turn comes again and again with every restart is reached once.
- `PiClient`: callers and attempts go on; an attempt's context ends by itself, so that a dial and a
  greeting return. `PiHost`: the event loop goes on; a run ends by itself or by its abort.
- `BrowserClients`: the page opens sockets and reads them, and some goroutine of a request, some reader and
  some reaping that can go on does; fairness is of each of these groups, not of each of their members,
  and a timer fires. A socket may break whenever it likes, so that `Answered` and `Reclaimed` speak of
  the page that still has sockets, or has none any more.
- `BrowserPanels`: requests go on, timers and tickers fire, time passes for a lease that nobody renews,
  and a supervisor starts either process again. No close has to succeed: leases see to the rest.
- `AppViews`: handlers go on, time passes, Pi's calls end. `ViewsEnd` is of a view that its page does not
  renew for ever.
- `ProviderLogins`: goroutines, calls, frames and both timers. Neither browser nor provider acts.

`SessionLeases` and `SessionProjection` state safety only: nothing in them has to happen.

## Where code and documents disagree

These were met while modelling. The properties are in the modules, and the instance named shows the
behaviour when the property is added to it; none is a run of its own.

- `Schedules!AgentsNeverOverlap`, `SchedulesOneJob.cfg` (`Requests <- OnlyStop` gives the shortest trace):
  `schedules.go:576` drops the error of the abort and releases the claim, so that Pi may work on two
  prompts of one schedule; "schedules do not overlap" (`docs/architecture.md:31`).
- `FollowUpQueue!Delivered` under `FairSpec`: a wake-up after a terminal notification
  (`session_events.go:79`) is dropped while the drain that found the session busy still has its flag
  set (`session_actions.go:589,615`); the message waits until somebody opens the chat.
- `FollowUpQueue!Delivered` without `Abandoned`: the goroutine of a prompt that cannot get the gate in
  thirty seconds returns (`session_actions.go:539`) and leaves `promptActive` set; a terminal status is
  ignored then (`session_events.go:713-715`), so that the session is busy until a restart.
- `FollowUpQueue!ReplaysItsOwn` with `TextOf <- MCSameText` and `MaxFaults = 2`: recovery
  (`session_actions.go:857`) compares the text of the turn in the dispatch's place, not whether the
  dispatch was attempted. Of two messages that say the same, an earlier one that arrives late counts as
  the delivery of one that was never sent; "Pi replayed the exact next user turn, so the durable attempt
  was admitted" (`session_actions.go:858`). `NothingLost` excepts just these messages; in the run's own
  instance there are none.
- A client edits and removes by place and revision, but the list it is shown changes without a new
  revision when the dispatch enters or leaves it (`session_actions.go:226-228,497-503,777-784`,
  `session_manager.go:1026`), so that an index may hit another message.
- `SessionDeletion!StaysDeleted`: an operation that read the association before a deletion removed it
  makes a projection after the deletion ended (`session_manager.go:774,797-808`) and writes an objective
  or a queue for a session that no longer exists; "deletion markers reject stale work"
  (`docs/architecture.md:35`). `SetLeases` reads the associations under the lock to avoid just this
  (`session_manager.go:875`).
- `PiHost!CallsKeepTheirEntry`: a call that was given its entry may find it released when it goes on
  (`sessions.ts:181,393,403`); "active calls and runs keep their Pi session loaded" (`docs/pi.md:24`).
- `BrowserClients!Recoverable`, `ClientsReconnect.cfg`: "responses remain recoverable through the replay
  cache" (`socket_output.go:12-13`). A client that is away for a minute is reaped, and its cache cleared
  (`websocket.go:326,330-353`, `replay.go:130`), while a page may wait longer for its answer: a request
  of an app waits 75 seconds (`mcp-app-client.ts:18-20`, `mcp-app-frame.svelte:37,218`). A page that comes
  back then has the mutation executed again. Nor does anything hold back the goroutines of a socket that
  its page has replaced: one that has read a request, and is not scheduled until the page has reconnected,
  was answered and has acknowledged, executes it again (`websocket.go:150,170-180`, `replay.go:111-128`),
  against the comment at `replay.go:83-84`. `AtMostOnce`, `AnswersAreTrue` and the refinement except
  exactly these requests (`lapsed`).
- `PiHost!OnceWhenNew`, `SessionProjection!AheadIsReal`: loading "replays" a session's history, but events
  and parts of a snapshot that a connection still carries when the session is loaded again over it go
  into the new projection first (`pi_client.go:587`, `session_events.go:92-105`, `server.ts:304-329`), and
  are in it twice. It takes a reload on the same connection: after a load that failed or was given up, a
  retried message (`session_actions.go:366-369`) or a model that could not be put back
  (`session_manager.go:431,683-690`). The properties say that it takes no less, and that what the load
  itself brings is there once and in order.
- `SessionLeases!DurableQueuesStay`: "durable queues prevent eviction" (`docs/architecture.md:35`); the
  code keeps only queues that are about to run (`session_manager.go:1049-1050`). Nothing is lost, as
  the next projection reads the queue from the file.

Smaller things a reader of the models should know: a direct prompt emits no `message_start`, so that a
page that holds the session by events alone learns of it with the next snapshot; `AskQuestion` drops an answer
that comes between the end of its wait and the withdrawal of the question (`session_questions.go:74-78`),
though the page was told that it was accepted; a request that begins after its client was reaped is kept
in the cache until the page is back; a question registered between the abort's
cancellation and its own lookup stays until its caller leaves; a command that a close overtakes makes
the browser session again, until its lease lapses; a marker whose write failed leaves a directory that
no expiry closes; a lost registration or a failed deletion leaves a ticket to its time to live; the
number of early cancels that are remembered is one for all clients; a login that the controller gave
up while Pi carried its start out blocks the provider at Pi until Pi's own timer; frames are sent
outside the lock, so that a late progress frame may follow the last one.

## Proofs

The theorems hold for every value of the constants that satisfies the assumptions of the module they
are about, which say of the bounds that they are numbers and of the sets that they do not overlap.
Where a proof needs more, the theorem says so (`ASSUME ... PROVE`), or the module's assumption does, and
it is named below. Each module of proofs begins with its argument; each strengthening was
model-checked as an invariant of the run before it was proved. Every invariant and every action
property that a run checks is a theorem, or part of one, but for those of `SessionProjection` and
`OnceWhenNew` of `PiHost`; `KeepsItsPromise`, a refinement, is one too.

`PiProofs` is about several components, because `PiHost` and `AppViews` both take elements out of lists
(`Selections`), and their proofs share the lemmas about that.

### Schedules

`SchedulesProofs`: `TypeCorrect`, `ClaimsAreOnDisk` (`ClaimedOnDisk`), `RunsDoNotOverlap`
(`NoOverlap`), `LedgerTrue` (`LedgerIsTrue`), `OccurrencesOnce` (`OccurrenceOnce`), `ReplaysAreAsked`
(`NoSilentReplay`) and `RepeatsHarmless` (`RepeatsAreHarmless`): all the safety properties of its runs.

The first three follow from `Inv == TypeOK /\ Claims /\ Open`. `ClaimedOnDisk` and `NoOverlap`
are not inductive: that two goroutines do not share a job follows only because each goroutine is the
one that `running` names for its job and `running` is released by nobody else (`Claims`: also a
pending end belongs to a claim without a goroutine); that a write cannot remove an open run from the
file follows only because every write starts from `jobs`, which must therefore hold the open run as
well (`Open`). The others add one invariant each, relative to those before it. `Books`: what the ledger
has of each run that was started, in the memory and in the file. `Dispatches`: the next occurrence of
a job lies after all that were dispatched, in the memory and in the file, and a job whose claim was cut
off is paused, or has an open run in the file by which the next start will pause it. `Identities`: each
identity has one result, and every job and every run that has an identity has a result in the same
ledger. The last holds while no result ages out, which `RepeatsHarmless` assumes (`NoneAgedOut`: there
are no more identities than the store keeps, 512 in the code); after that a repeated mutation is a new
one. `SchedulesRepeated.cfg` satisfies it with two identities and `MaxOps = 2`.

### FollowUpQueue

`FollowUpQueueProofs`: `TypeCorrect`, `GivenOnce` (`AtMostOnce`), `QueueKept` (`QueueIsKept`) and
`OrderKept` (`InOrder`), all from one invariant of two queues, the one in memory and the record in the
file. They may differ after a write that failed late, and a crash may put either in the other's place, so
that all but the last of the following is claimed of both: the dispatched or blocked message and those
that wait form a part of the handled requests, in their order (`Lined`); how often a message was given,
plus one if it may be given without a retry, is within what it was authorized (`InBudget`); what was
handled is held, in Pi's transcript, removed or mistaken (`Complete`); and what the memory has handled the
file has. The rest says what the holder of the gate, the prompt's goroutine and Pi may rely on between
their steps (`GateKept`, `PromptKept`, `AgentKept`). All four assume `NeverForgotten`: there are no more
messages and retries than the queue remembers (`MaxHandled`, 512 in the code), because a request whose
identity was dropped is carried out again. `FollowUp.cfg` has three of them and `MaxHandled = 3`.

### SessionDeletion

`SessionDeletionProofs`: `TypeCorrect`, `DeletionsReserve` (`Reserved`), `NothingOrphaned` (`NoOrphan`),
and the action properties `DeletesWhereRequested` (`WhereRequested`) and `DeletionsFinal`
(`DeletionsAreFinal`): all the safety properties of its run.

The first two follow from `Inv == TypeOK /\ Placed /\ Exclusive /\ Journalled /\ Recovered`. That a
session with a record is reserved is not inductive: a deletion that ends gives the session back, so
that its record must be gone by then and nobody else may have written another (`Journalled`,
`Exclusive`); that two operations are not past the gate together holds because what is past it came
through the session's present projection, or reserved the session (`Placed`); and a process that
begins to serve must have visited every record of the journal without an error (`Recovered`). The
assumption that there are more projection names than operations is what makes `Fresh` well defined.
The steps of a deletion share one lemma (`DeletionStepKeeps`), since `Delete` and `recoverDeletions`
go through the same ones.

`NothingOrphaned` and `DeletesWhereRequested` follow from `Asked`, relative to `Inv`: every message on
its way, every record of the journal, and every connection that is kept to names an agent that the
deletion was requested at; and a confirmed record, an answer "gone", and whoever is about to remove the
association mean that such an agent does not have the session. What was asked for only grows and what
Pi has only shrinks (`AskedStep`). `DeletionsFinal` follows from `Cleaned`, relative to `Inv`: a cleanup
that has met no error so far has left nothing of the session in the stores it is past, nor in their
backups. It stays clean because an objective or a queue is written only under the gate, by an
operation that is not of a session being deleted (`Exclusive`, `Recovered`). That it is clean in the
first place is two lemmas about the writes: the second write of `Forget` reaches the backup
(`ForgottenIsOut`), and removing both files without an error removes both (`RemovedIsOut`).

### PiClient

`PiProofs`: `ConnectionSafe` (`ConnectionIsSafe`) and `WaitersToldOnce` (`ToldOnce`), the part of
`CallersAreServed` that is about steps: a second close of the waiters' channel would end the process.
The strengthening is about the attempt under way: it has the last number, told nobody and finds nothing
installed (`UnderWay`); numbers that were not given have left no trace (`Ungiven`); only an attempt that
was installed told its waiters so (`Installed`).

### PiHost

`PiProofs`: `HostEntriesSafe` (`EntriesAreSafe`) and `HostNoGap` (`NoGap`).

`HostEntriesSafe` follows from `HostInv == HostTypeOK /\ Orderly /\ Table`. `Orderly` is about the
requests, which are made and received in their order: nothing follows a deletion that stands, and none
of its connection's prompts is under way (`DeletionIsLast`); who asked for a prompt or a deletion waits
for its answer while the connection is there (`StillAwaited`). `Table` says of each entry in use which
of the maps has it and who is responsible (`Placed`): that two are never open at once is not inductive,
because `opening`, `entry` and `evicting` are handed from one to the next across suspensions. Whoever was
given the entry has the same one as the others (`HoldersAgree`), and it is still the session's unless a
deletion went on meanwhile (`HoldersHaveIt`).

`HostNoGap` follows from `FlowInv == HostInv /\ Flow`. The frames that the reader has not handled form a
chain: the event of each follows the one that the reader will have when it gets there (`Chained`), and
the chain ends where the host goes on (`TipFits`), which is `Base`, the number of events before those
that it keeps for a load. The events it keeps are the ones after `Base`, without a gap (`KeptFollow`), and
the copy that a load made lies between the two (`SnapshotsFit`). At most one load is in that state
(`LoadsFit`), because the controller has one such call at a time (`OneWaits`). What was projected ahead of a snapshot is
of this session and not after what the projection has, because a frame is sent after the event it
tells of. That a projection has something twice only after a reload (`OnceWhenNew`) is model-checked.

### AppViews

`PiProofs`: `RegistrySafe` (`RegistryIsSafe`), for every number of views, clients, operations and limits.
The accounts agree with what the registry holds once it is known which views hold a reservation
(`PlacesFit`). An operation that runs has a view that is still known, or was cancelled with it
(`CutOff`), which is why nothing of a closed view goes on to Pi. A lease is watched because its timer
never outlasts it (`TimersLead`): a renewal lengthens the lease, and the timer that finds it renewed is
set anew. That a cancel that came before its operation is remembered, or was pushed out by
`MaxEarly` later ones, is a statement about distances: what waits is no farther from the end of its
queue than from the end of everything that was asked (`Early`). The module assumes finite sets, a lease
of at least one tick and that at least one early cancel is remembered.

### ProviderLogins

`PageProofs`: `LoginsSafe` (`LoginsAreSafe`). What is registered agrees with how far a login's
goroutine has come (`Registered`), and Pi says nothing of a login before it was told to begin it
(`BegunFirst`), so that no frame ends a login that its browser does not know of yet. A login that is
pending was not cancelled, and one that was is registered nowhere, so that nothing that is under way for
it caches a frame again (`CancelledIsForgotten`). What a browser is shown of its own login begins with
the answer to its start: until then it may be shown what an earlier one left.

### BrowserClients

`BrowserClientsProofs`: `ClientsSafe` (`ClientsAreSafe`), `ExecutedOnce` (`AtMostOnce`), `PromiseKept`
(`KeepsItsPromise`, the refinement of `RemoteCalls`) and `NeverGoesBack` (`NeverBack`), for every bound and
every limit. Nothing is assumed of how long anything takes.

The core is `Over(i)`: the page does not wait for the request, and whatever would still begin it is stale
(`Ended`), that is, behind a socket that was installed later. What is over stays over, because staleness
does. A mutation that was executed, has not lapsed and is not in the cache is over (`Executions`), so
that only a stale goroutine can execute it again, and then it lapses. What makes the server forget is an
acknowledgement, whose request is over; a resumption, whose socket left the request out because it was
over, or because it was made since, so that no earlier socket has a goroutine for it (`Unwanted`:
`Before`, `Since`); or the reaping of its client, by which it lapses. A refusal for want of room is true
as long as the request is `Dead`: never executed, with nothing under way but what is stale. The refinement
is proved step by step: under `Inv` every step is, under the mapping, a step of `RemoteCalls` or a stutter
(`CallsNext`), and initial states map to initial states. `NeverGoesBack` adds `Versions`: the dates of what
is on its way to a page do not decrease along the queue and lie between what the page has and what the
session is at, because a snapshot is answered under the session's lock.

### SessionLeases

`SessionLeasesProofs`: `LeasesKept` (`LeasesAreKept`) and `ProjectionsKept` (`ProjectionsAreKept`), from
`Inv == Manager /\ Pages`. The manager's half counts: the references of a projection equal the
operations that are on it plus one for its work (`Counted`), so that a reservation, which is refused
unless it is the only reference, is alone (`Operating`). Most actions change something and then evict; what
eviction needs and keeps (`Fits`) is therefore stated for a state given by its parts, and proved once for
`Evict` (`EvictEffect`, `EvictBudget`) and once each for operations that move and projections that are
made (`MovesKeep`, `MakesKeep`). The pages' half says which snapshots are under way, and what closing a
project leaves of them (`Stored`, `Asked`). The module assumes finite sets, at least one name for a
projection, and that `"none"` is not a session.

### BrowserPanels and BrowserService

`BrowserPanelsProofs`: `SessionsSafe` (`SessionsAreSafe`) and `ClosesSafe` (`ClosesAreSafe`). A request
that works holds the lock file of its session in a directory that exists (`Stages`); a command keeps
its lease fresh to its end, and an expiry has found it lapsed (`Leases`); what is on disk, plus one for
each screenshot that has its reservation and is yet to be written, is within the storage (`Storage`,
by cardinalities); whoever waits has a request that will be answered (`Awaiting`); a panel that is
closing has one goroutine in `close` (`ClosedByOne`); and a panel that the journal lost is already
being closed, to be retried, or another process's (`Journaled`). The lemmas of `BrowserService` (one per
stage, `PrepareKeeps` to `EndKeeps`) are about one request among any number of others. The module assumes
finite sets, and that `"none"` is not a request.

### Lemmas about lists

`Only(s, S)` in `Selections` is a recursive function, and what it returns is proved in `PiProofs` by
induction over the length: it has the wanted elements and no others, repeats none that the list has
once, and none of them is farther from its end than from the end of the list. The induction is stated
with a set instead of a predicate (`SetInduction`, from the well-foundedness of `<` on the naturals),
because the library's own theorem takes an operator as a parameter, which the provers cannot instantiate.

### Only model-checked

Liveness under fairness, which is outside what the provers do (it needs `ENABLED`): `RunsEnd`,
`Delivered`, `DeletionsEnd`, `CallersAreServed` (but for `ToldOnce`), `CallsEnd`, `ClientsAreServed`,
`PanelsEnd`, `ViewsEnd`, `LoginsEnd`. Of safety: `TranscriptIsTrue`, `QuestionsAreKept` and `Withdrawn` of
`SessionProjection`, and `OnceWhenNew` of `PiHost`. What TLC shows of them, it shows for the bounds of the
runs.

## Not modelled

`PROJECT.json` lists each part with its status and the reason. Left out as a whole are the parts that
keep no state of their own or only pass requests on (files and git, search, Pi administration, HTTP
routing and authentication, the MCP gateway, contracts, identifiers), file watches, and the migration of
a project's root.

Inside the modelled parts: prompts, models and roots of a schedule (validated, never compared);
steering messages, images and attachments; wording, rendering, usage, titles and plans; the size limits
of files and messages; reading a backup, which the stores do only when their file is damaged; rename,
fork and the recovery of both; of attaching, the refusal of a session whose agent has changed, which
only makes fewer prompts possible; the closing of the WebSocket server, its welcome message and the
expiry of an authorization; policy and commands of the browser service; the inventory and configuration
of providers, and the change of a session's model with its roll-back.

Assumptions that the models make about their surroundings are in the comment at the head of each
module. The ones that matter most: Go delivers what one goroutine sends on one socket in order; the start of a login ends before the
login's ten minutes (`ProviderLogins`); a command of the browser service ends before a lease that it
renewed lapses, and inode numbers are not reused between a lock and its release (`BrowserService`); a
renamed file is seen whole (`persist.Write`).

## Plan

Done: `Schedules`, `FollowUpQueue`, `SessionDeletion`, `PiClient`, `PiHost`, `BrowserClients` with
`RemoteCalls`, `SessionLeases`, `SessionProjection`, `BrowserPanels` over `BrowserService`, `AppViews`,
`ProviderLogins`; proofs of the safety properties of all of them but `SessionProjection`.

Proofs that are left: `TranscriptIsTrue` and `QuestionsAreKept` for every length of the transcript, and
`OnceWhenNew`.

Models that are left: the provider inventory's shared requests; `SetModel` with its roll-back; fork,
rename and unarchive; root migration as a journalled move over four stores; `persist.Write` step by
step, shown to implement the three outcomes that the modules use.
