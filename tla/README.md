# A verification development of lspee

lspee is a daemon that keeps language servers (LSP processes) alive and shares each of them
among the clients of one project: editors through a stdio proxy, the `lspee call` and
`lspee do` commands, and an MCP server.  This directory holds TLA+ models of its code, the TLC
instances that check them, and theorems about them that TLAPS proves.

`registry.rs:249` below means `crates/lspee_daemon/src/registry.rs`, line 249; `lib.rs`,
`eviction.rs`, `memory.rs` and `stream.rs` are in the same directory.

## 1. Inventory

### Components, their state and operations

| Component | State | Operations |
|---|---|---|
| **Session registry** (`registry.rs`) | `sessions`: key to record (handle, `ref_count`, `last_used`, `terminating`, notice); `leases`: id to key; `lease_seq`; `spawn_gates`: key to gate (`started` flag, `Notify`); counters | `acquire_or_spawn`, `release_by_lease_id`, `call_by_lease_id`, `notify_by_lease_id`, `touch`, `idle_candidates`, `memory_snapshots`, `all_handles`, `mark_terminating_with_notice`, `remove` |
| **Idle eviction loop** (`eviction.rs`) | ticker, `daemon_idle_since` | each second: stop and remove idle sessions; end the daemon after `daemon_idle_ttl_secs` without sessions |
| **Memory monitor** (`memory.rs`) | ticker, budgets | sample resident memory, select victims, evict them with a notice to their streams |
| **Control dispatch** (`lib.rs`) | per connection: framing state | Attach, Release, Call, Notify, Stats, Shutdown; version, frame-size and key checks; `resolve_lsp_config`, `bootstrap_lsp_session` |
| **Daemon lifecycle** (`lib.rs`, `eviction.rs`) | socket file, watch channel, task handles | `run`: start tasks, serve, stop in order |
| **Dedicated stream** (`stream.rs`) | per stream: a socket, a writer task, a runtime task, an event task | forward LspIn to the server and every server message to the client, send a terminal StreamError, release the lease at the end |
| **LSP runtime** (`lspee_lsp`) | child process, bounded send channel, broadcast channel | `spawn`, `send`, `call` (match a response id), `shutdown` with a timeout, `force_stop`, frame reader |
| **Protocol types** (`lspee_protocol`) | none | serialisation |
| **Configuration** (`lspee_config`) | the user's file and the project's `lspee.toml` | layers merged into one config, hash identity of a session, language registry with overrides |
| **CLI client, call, stop, restart, status** (`lspee_cli`) | none | connect with auto-start, attach/call/release, stop, restart |
| **Proxy** (`proxy.rs`) | initialize result, lease, stream | answer `initialize` from the attach, then forward both ways |
| **do commands**, **MCP server** | none | attach, didOpen, request, didClose, release |
| **config commands** (`config.rs`) | `lspee.toml` | `init`, `add-lsp`, `remove-lsp`, `set`: load, edit, write back |
| **Reports** (`doctor`, `lsps`, `lsp`) | none | read-only |

### How they interact

A connection handler calls the registry under short locks: `sessions` and `leases` are two
`RwLock`s, each gate has a mutex and a `Notify`, and no lock is held across the spawn of a
server or the stop of one.  Three tasks remove sessions (the eviction loop, the memory monitor,
and `run` itself when the daemon stops) through copied handles.  The loop and the Shutdown
request both set one watch channel, which `run` waits on; `run` then stops the monitor, the
loop and the remaining sessions, in this order, while connections are still served.  A stream
endpoint is a socket of its own and releases its lease when it ends.  Commands find the daemon
through a socket file that a starting daemon replaces and a stopping one removes; client and
daemon read the configuration files independently of each other.

### What is hard here

* An attach, a release and up to three removals of one key interleave between any two critical
  sections; `remove` and `release_by_lease_id` are both split over two locks.
* Handles and candidates are copied under a lock and used long after it.
* Waiters park on a gate that a failed spawn or a removal may throw out of its map.
* A client may vanish at any step: nothing but Release and the end of a stream frees a lease.
* The daemon may be told to stop in any state, by two different parties.
* A server may die, or never answer.
* Two daemons may own one socket path in turn, and two commands one configuration file.
* `select!` drops a half-done read.

What makes each component correct:

* *registry*: one spawner per gate, no lost wakeup, no leaked or dangling lease, exact counts,
  no eviction of a leased session, no removal of a session whose process runs, every attach
  answered, every unused session gone;
* *lifecycle*: the stop excludes the evictors, nothing the daemon knew of survives it, it
  terminates, the timer neither stops a used daemon nor misses an abandoned one;
* *memory policy*: what is selected is enough and no more, idle sessions before used ones,
  editors last;
* *runtime*: a call gets its own response or an error, and gets one of them;
* *stream*: messages in order, the terminal error last, the lease released once;
* *configuration*: identity is a function of what the server is started with, later layers win;
* *clients*: no lease is kept after a command ends.

`PROJECT.json` lists every hazard at its line with the properties that would catch it.

## 2. Plan

| # | Module | Models | State |
|---|---|---|---|
| 1 | `SessionRegistry` | registry, attach/release/call handlers, evictors | checked, proved |
| 2 | `LeaseService`, `RegistryService` | what the registry promises, and the mapping that shows it does | checked, proved |
| 3 | `DaemonLifecycle` (extends 1) | `run`, eviction loop with its timer, monitor, ordered stop | checked, proved |
| 4 | `LspRuntime` | `call`, both channels, lag, server death, shutdown with its limit, `force_stop` | checked, proved |
| 5 | `MemoryPolicy` | the monitor's rounds and `select_evictions` | checked, proved |
| 6 | `DedicatedStream` | the stream's tasks and the proxy at its other end | checked, proved |
| 7 | `ClientCommands` | control loop, commands, socket file, two daemons | checked, proved |
| 8 | `ConfigFiles` | layers, identity, `lspee config`, reading at attach | checked, proved |

Each module has an `MC` module that names its small instance, and a `.cfg` per run.

"Proved" means every safety property of the module that holds; its liveness is checked only.
Nothing of the plan is left but the liveness properties, which are out of the provers' reach.

## 3. The modules

### SessionRegistry

One action per critical section or awaited event.  A handler is a connection; its program
counter `pc` says between which two critical sections it stands and `key`, `gate`, `lease`,
`child` are its locals.  An evictor has `epc`, the list `todo` of copied handles it still has
to stop, and its current `victim`.

| Action | Code |
|---|---|
| `Attach` | count the request, look up or create the gate (`registry.rs:233-244`) |
| `Reuse`, `FindNoSession` | the first check of the session table (`247-272`) |
| `EnterGate` | claim the spawn or register as a waiter (`274-286`) |
| `SpawnOk`, `SpawnError` | the awaited closure of `dispatch_attach` (`lib.rs:324-347`) |
| `ReopenGate` | clear the flag, `notify_waiters` (`registry.rs:289-294`) |
| `InsertSession`, `DropGate` | the two ends of the spawn (`296-327`) |
| `ReplyAttachOk`, `ReplyHandleMissing`, `ReplyStreamFailed` | the ways out of `dispatch_attach` (`lib.rs:350-414`) |
| `Release`, `Decrement` | the two halves of `release_by_lease_id` (`registry.rs:351-363`) |
| `Call`, `RouteCall`, `CallAnswered`, `CallFailed`, `TouchAfterCall` | `call_by_lease_id`, `notify_by_lease_id`, `touch` (`371-443`) |
| `Expire` | the idle deadline of a record passes |
| `ScanIdle`, `ScanMemory`, `ScanAll` | `idle_candidates`, `memory_snapshots`, `all_handles` (`468-510`) |
| `StartEviction`, `StopVictim`, `RemoveSession`, `PurgeLeases` | one session of an evictor's list (`memory.rs:222-246`, `registry.rs:457-466`) |

Abstractions, all of them on data:

* Time is one bit per record: `expired` says that `idle_ttl` has passed since the last touch.
* `terminating` and `termination_notice` are one field: only the monitor leaves a notice.
* A key is a model value; so is a gate, which lives as long as the map or a handler holds it
  (its `Arc`) and may then be taken for another.
* `registered waiters` need no queue: a waiter registers under the gate's lock before it
  sleeps (`enable`, then drop of the guard), and `notify_waiters` wakes all of them at once.
* The memory monitor may pick any non-empty set of sessions: which ones is `MemoryPolicy`'s
  question.
* Counters are left out, but for `attach_requests_total`, which is the bound on attaches; so
  are client kinds and the read-only `snapshot`.
* `process` is "stopped" once a stop of the server has been awaited: `shutdown` has a time limit
  and `force_stop` kills.  `force_stop` may fail too, with an error of the system that the code
  logs before it removes the record all the same (`eviction.rs:61-70`); "stopped" includes that
  case.  That a stop returns at all is an assumption of the liveness runs, which `LspRuntime`
  makes precise: it does unless a server that has stopped reading fills its queue.  A server
  whose `initialize` failed is not tracked.

`overlapped` and `known` are history variables: the first collects the keys whose removal ran
into an attach or a release between its two halves (or a release's), the second the leases that
an `AttachOk` has carried to a client.  No guard but that of a request by a client reads them.

### DaemonLifecycle

Extends `SessionRegistry` with the daemon around it; every step on the registry is one of its
actions.  `daemon` is the place of `Daemon::run`, `shutdown_sent` the watch channel, `loop` the
place of the eviction loop, `due` its ticker, `idle_for` the age of `daemon_idle_since`,
`monitor` whether the memory monitor runs.  `counted` and `table_at_stop` are history: how many
leases had been issued when the loop counted no session, and what `all_handles` returned.

| Action | Code |
|---|---|
| `Serve` | any step of a connection (`lib.rs:133-151`), also during the stop |
| `RequestShutdown` | `dispatch_shutdown` (`604-630`) |
| `PassSecond`, `Tick`, `EvictIdle` | a tick and the evictions in it (`eviction.rs:41-72`) |
| `SkipCount`, `ResetTimer`, `CountNone` | the tick's count of the sessions (`74-78`, `92-95`) |
| `RunTimer`, `AutoShutdown` | after an empty count: the timer goes on, or the channel is set (`79-91`) |
| `MemoryTick`, `EvictOverBudget` | a tick of the monitor (`memory.rs:43-56`) |
| `StopAccepting`, `StopMonitor`, `StopLoop` | the signal, then `shutdown` of both tasks (`lib.rs:152-162`) |
| `CollectSessions`, `StopSession`, `Exit` | `shutdown_all_sessions` and the return of `run` (`163-170`, `742-755`) |

The count of sessions (`76`) and what follows an empty one (`79-91`) are two actions: the runtime
has several threads, and the lock of the sessions is free in between.  After a count that is not
empty the loop only resets its own timer, so there the two are one.  Handlers stand for
connections accepted before the stop.  `run` can also return early, on an I/O error of `bind` or
`accept`; that exit is not modelled.

### LspRuntime

One server and the `LspRuntime` its users share (`crates/lspee_lsp/src/lib.rs`).  `inbound` is
the mpsc channel, `writing` what the writer task holds, `pending` what the server has read;
`outbound` is everything the broadcast channel has carried, and a receiver is a `cursor` into
it that lags when more than `RingSize` messages are ahead of it.

| Action | Code |
|---|---|
| `TakeMessage`, `WriteMessage`, `WriteFails` | the writer task (`253-275`) |
| `Answer`, `ServerSpeaks`, `ServerExits` | the server (external), read and broadcast (`277-293`) |
| `ReaderEnds` | end of file or an undecodable frame (`284-291`) |
| `Subscribe`, `SendRequest`, `SendFails`, `ReceiveOther`, `ReceiveAnswer`, `ReceiveLagged` | `call` (`159-178`) |
| `BeginStop`, `SendShutdown`, `SendExit`, `Reap`, `ReapFails` | `shutdown` (`115-137`), with an error of its wait or kill |
| `ForceStop` | `force_stop` after such an error (`139-156`, `eviction.rs:61`) |

A caller makes one request and stands for it; its id is a constant, as clients choose theirs
and the runtime changes none.  A message carries the caller it answers as a ghost that no guard
reads.  The pipe between writer and server is not a place of its own: a message the server has
not read by its exit is as lost there as in `pending`.  Serialisation never fails.

### LeaseService and RegistryService

`LeaseService` is the promise: which keys have a session (`running`), which leases are on them
(`held`), how many were issued.  `Grant`, `Release` and `End` are single steps; `End` takes a
session and all of its leases at once.  `GrantVoid` is the one blemish of the promise: an attach
that meets the removal of the previous session of its key may be handed a lease that is void
from the start.  `RegistryService` maps the registry to it: a lease in the table is `held`
unless a removal of its key stands between its two halves.

### MemoryPolicy

The rounds of the memory monitor on the part of a session record that the policy looks at.

| Action | Code |
|---|---|
| `Start` | `memory_settings` multiplies budgets without a check (`lib.rs:77-95`): they wrap, or a debug build panics |
| `Snapshot`, `Sample`, `SampleFails` | `memory_snapshots`, then one `ps` per session (`memory.rs:98-127`) |
| `BeginSelection` ... `EndSelection` | `select_evictions`: over-limit sessions, then the total (`129-194`) |
| `Evict`, `EndRound` | `evict_session` for each (`196-245`) |
| `Change` | anything else that happens to a session meanwhile |

The sort is modelled by what it allows: of candidates that compare equal any may come first, as
they arrive in the order of a hash map.  `Change` cannot happen inside `select_evictions`, which
works on its samples and awaits nothing.

### DedicatedStream

One lease's stream from the server's broadcast channel to the editor's screen, and back.

| Action | Code |
|---|---|
| `Accept` | the endpoint's task takes its one client, and both channels are subscribed to (`stream.rs:47-53`) |
| `ReceiveOut`, `QueueOut` | `runtime_task` (`91-120`) |
| `QueueNotice` | `event_task`, with its sequence number of 1 (`122-152`) |
| `WriteFrame` | `writer_task` (`71-89`) |
| `ReadFrame`, `FailReading`, `EndOfInput`, `CloseFailed` | the reader loop, its exits by `?` on an error of read, decode or send, and its end (`154-181`) |
| `Connect`, `ReadHeader`, `ReadBody`, `SkipBody`, `WriteMessage`, `ShowFrame`, `End` | the proxy (`proxy.rs:48-220`) with `read_lsp_frame` (`lspee_lsp/src/lib.rs:329-363`) |
| `Fail`, `EvictForMemory`, `RemoveSession` | what happens to the session (`memory.rs:197-245`) |
| `TypeHeader`, `TypeBody`, `CloseEditor`, `Kill` | the editor, and a killed proxy (external) |

A proxy that ends with frames unread in its socket may reset the connection (`reset`, chosen by
`Leave`): frames that its own buffer had taken do not, those in the socket do.  The daemon's next
read past the last frame is then an error and not the end of input.  A server that reads nothing
is "stuck" and, once its eviction began, "blocked": `shutdown` waits on the same full queue as the
reader loop (`lspee_lsp/src/lib.rs:120`), and only the server's exit frees both.

Messages are numbers in their order; of an editor's message only its header and its body are
told apart, which is enough for `select!` to interrupt its reading between the two.  Frames for
another lease do not occur: the proxy only writes its own.

### ClientCommands

Every command that talks to a daemon is a script of requests; `step` is the request it is at and
`phase` what it is doing with it.  The daemon's control loop handles one request of a connection
at a time, and up to two daemons share one socket path.

| Action | Code |
|---|---|
| `Connect`, `SpawnDaemon`, `ConnectFails` | `client::connect` and its copy in the MCP server (`client.rs:29-106`, `daemon_helpers.rs:205-278`) |
| `Send`, `WriteFails`, `Read`, `Eof`, `NothingToOpen` | a request and its answer (`client.rs:117-154`, `do_cmd.rs:958-1036`) |
| `Handle` with `HandleAttach` ... `HandleShutdown`, `HandleTooLarge` | the control loop (`lib.rs:174-285`) and one operator per `dispatch_` function |
| `Answer` | `call_by_lease_id` returns (`registry.rs:372-401`) |
| `Serve`, `StartFails`, `RemoveStale`, `Bind`, `IdleStop`, `Exit` | a daemon from start to stop, as far as the socket file is concerned (`lib.rs:121-131`, `161-170`) |
| `Evict` | a session and its leases go, for whatever reason |
| `KillClient`, `KillDaemon` | kills (external), at most `MaxKills` |

The count and the signal of a daemon's auto-shutdown, which `DaemonLifecycle` keeps apart, are one
step here (`IdleStop`).  What the step leaves out, a session made in between and stopped with the
daemon, is what a `stop` or a `restart` beside a command brings about in the same run.

`Fatal` says which failures end a command and which are ignored: this is where `do`, `call`,
`restart` and `raw_call` differ.  The answer to an oversize frame carries no id, so the client
passes over it and then finds the connection closed.

### ConfigFiles

| Definition | Code |
|---|---|
| `Resolve`, `ApplyPartial`, `ApplyEntry` | `resolve`, `apply_partial` (`lspee_config/src/lib.rs:186-365`) |
| `Catalog`, `ResolveLsp` | `load_registry` with `apply_overrides`, `resolve_lsp_config` (`languages.rs:108-189`, `lib.rs:649-700`) |
| `Load`, `Truncate`, `Write`, `Die` | a config command: `load_doc`, the edit, `fs::write` (`config.rs:142-304`), a kill within it (external) |
| `AddLsp`, `RemoveLsp`, `SetKey`, `InitTemplate`, `Refused` | the edits (`config.rs:161-400`) |
| `Hash`, `Attach`, `Spawn` | the client hashes what it read; the daemon reads again to spawn, and a third time for the catalog (`lib.rs:316-346`) |

`stale`, `raced` and `promised` are history variables: writers whose document another file has
overtaken, clients during whose attach the file changed, and what completed commands reported.

### The Proofs modules

`SessionRegistryProofs`, `RegistryServiceProofs`, `DaemonLifecycleProofs`, `LspRuntimeProofs`,
`MemoryPolicyProofs`, `DedicatedStreamProofs`, `ClientCommandsProofs` and `ConfigFilesProofs` hold
the theorems; see section 6.

## 4. The runs

| Run | Instance | Question |
|---|---|---|
| `RegistryIdle` | 1 key, 2 handlers, 3 attaches, the eviction loop, fair | gates and wakeups, what the idle scan spares, order of stop and removal, every attach answered, every unused session gone |
| `RegistryAll` | 2 keys, 2 handlers, 2 attaches, all three removing tasks, up to symmetry | types, leases and counts when removals with several candidates race; the lease service |
| `Daemon` | 1 key, 1 handler, 2 attaches, all three removing tasks, time limits {none, 0, 2}, fair | the stop excludes the evictors, empties the table and completes; the timer spares the leases granted before its count and, unless the limit is 0, misses no abandoned daemon |
| `RuntimeCalls` | 2 callers, a queue of 1, a ring of 2, 3 messages, one id the server uses too, fair | no answer passed over, no request doubled, answered calls return, shutdown ends unless stuck |
| `MemoryRounds` | 3 keys, 2 sizes, 2 idle times, 4 budgets, one change, fair | order, need and effect of the choice; wrapping budgets |
| `StreamBridge` | 2 messages each way, a ring of 1, buffers of 1, fair | order, numbers and loss in both directions, the terminal frame, leases that return, notices that are shown |
| `ConfigEdits` | 2 servers, 2 commands, 2 writers, 2 clients, 2 edits, up to symmetry | the merge, the server a client gets, what a reported edit is worth |
| `Commands` | `do` beside `stop`, `restart` or an MCP call, 2 daemons, one kill, fair | leases returned, requests that reach a server with their document, commands that end, orphaned daemons that go |
| `RegistryActiveClient` | violation | `docs/specs/daemon-session-lifecycle.md:162`: no active client gets terminated |
| `RuntimeSharedId` | violation | `docs/src/guide/configuration-and-identity.md:22`: safe multiplexing |
| `StreamTorn` | violation | `docs/src/guide/helix-integration.md:46`: everything else is forwarded |
| `DaemonZeroLimit` | violation | `docs/src/includes/daemon-auto-shutdown.md:24`: a limit of 0 never fires |

What the violations show:

* **Shared id.**  `call` returns the first message with its id.  Every `lspee do` request has
  id 1 (`do_cmd.rs:812`), so of two on one server one may return the other's answer; a request
  of the server's own with that id is taken for an answer as well.
* **Active client.**  The idle scan marks a session and copies its handle; an attach clears the
  mark and gets a lease; the loop stops the process it holds and removes record and lease.
* **Torn message.**  The proxy has read the header of an editor's message when a frame of the
  daemon arrives; `select!` drops the reading future, and the header with it.  The body is then
  read as header lines, the message is lost, and the next one ends the proxy with "missing
  Content-Length header".
* **Zero limit.**  `daemon_idle_ttl_secs = 0` becomes `Some(0 s)`; the first tick finds no session,
  `0 >= 0` (`eviction.rs:82`), and the daemon stops before anyone can attach.

### Bounds

`MaxAttach` bounds the attaches of a behaviour, and with them lease ids and processes.  Two
attaches on one key give a session, its removal and a respawn, which every stale-handle and
split-lock story needs; a third, by either of two handlers, adds a waiter on a gate that a
removal has dropped, with a fresh gate beside it.  Two keys put two candidates in one scan.  A
gate is free for reuse once nobody holds it, and there is one gate more than handlers, so that
creation never waits.  A time limit of 2 is the smallest that tells a running timer from one
restarted at every tick; 0 and none are the two special cases of the code.  `idle_for` stops
growing at the limit, the only value it is compared with.

In `RuntimeCalls` a queue of 1 is full after one message, and 3 messages overrun a ring of 2; in
`StreamBridge` 2 messages overrun a ring of 1, and with buffers of 1 both directions of a stream
can be full at once.  The violation runs have the smallest instance that shows what they show.
`MemoryRounds` has three sessions, so that a choice can spare one and take two, a word of 16 and
a mebibyte of 2, in which the largest of the four budgets wraps, and one change or failed `ps`
in any place of any round.  `Commands` has two daemons and one kill: a daemon that loses its
file, the successor that took it, and one process dying at the worst moment.  The commands it
leaves out, `call`, `capabilities`, `status` and their MCP tools, send a part of what `do`,
`restart` and `mcp_call` send; these, and two `do` commands beside each other, the safety
theorems cover.  `ConfigEdits` starts from six pairs of files, among them one with an id written
twice, and runs two edits.

`RegistryAll` is checked up to a renaming of keys and of handlers, `ConfigEdits` of writers and of
clients, which no definition distinguishes; both check safety only.  No configuration uses a
state constraint.

### Fairness

Weak fairness on each handler's own steps, each evictor's steps and the ticks: tokio polls a
woken task, its locks are first-in first-out, and the ticker fires every second.  `SpawnOk` or
`SpawnError` must eventually happen, which assumes that a server answers `initialize` (the code
has no timeout there).  `Expire` is fair because time passes.  Clients owe nothing: no request,
release or answer is fair.  `StopMonitor` and `StopLoop` are strongly fair: the stop signal and
the ticker are two branches of one `tokio::select!`, which polls them in random order, so that a
ready stop signal is not passed over forever.  A send on a bounded channel is strongly fair as
well, `QueueNotice` among them: tokio hands out room first-in first-out.  In `LspRuntime` and
`DedicatedStream` the server owes nothing: the eviction of one that reads nothing ends only if
it exits.  The proxy's two inputs are branches of one `select!` too, hence `SF` on `ShowFrame`;
a proxy that has not connected and an editor owe nothing.  `MemoryPolicy` asks that ticks come
and `ps` returns.  `ClientCommands` asks that processes run, that servers answer calls (section
8 has the case in which one does not), and that idle sessions and empty daemons reach their
deadlines, which assumes the default timer.

Deadlock checking is off where a bound or the exit of the daemon ends every behaviour, and that
is everywhere.

## 5. Properties

| Property | Hazard it is aimed at |
|---|---|
| `GatesSound`, `AttachIsAnswered` | gates dropped from the map while handlers wait on them |
| `RefCountExact`, `IdleScanSparesLeased` | counts kept apart from leases, two locks each way |
| `DanglingLeaseIsPurged`, `LeaseReachesClient` | leases that outlive their session or that nobody knows |
| `ImplementsLeaseService` | two critical sections each in attach, release and remove |
| `RemovalFollowsStop` | `remove` by key after a stop by handle, with attaches in between |
| `UnreferencedIsEvicted` | marks, deadlines and counts rewritten under the scan |
| `ShutdownIsSoleEvictor`, `TableIsStoppedAtExit` | the stop overlaps connections and evictors |
| `AutoShutdownSparesLeases` | count, then signal |
| `ZeroNeverFires` | a limit of 0 |
| `ShutdownCompletes`, `AbandonedDaemonExits` | a loop that ends by itself; a timer reset too often |
| `AnswerIsAhead`, `AnsweredCallReturns` | subscription and sending in two steps, a ring that drops |
| `RequestOnce` | a request handed from queue to task to server |
| `StopEndsUnlessStuck` | sends before the time limit of `shutdown` begins |
| `PriorityKept`, `LastChoiceNeeded` | one sort, two budgets, two passes |
| `QuietRoundMeetsBudget`, `BudgetIsMetInTheEnd` | samples that are stale when used |
| `OnlyPressureEvicts` | evictions without pressure |
| `OutInOrder`, `LostOnlyToLag` | three tasks and a ring between server and editor |
| `InboundExact`, `EverythingElseForwarded` | reading that another event interrupts |
| `LeaseReturns`, `NoticeReachesEditor` | error exits, full buffers in both directions, killed proxies |
| `ReleasedAtEnd`, `RequestSeesDocument` | failures that a command ignores; evictions between its requests |
| `CommandsEnd`, `OrphansExit` | a socket file that several daemons remove |
| `LastLayerWins` | layers that set a server again |
| `ClientsServer` | a key hashed from one reading and a server started from another |
| `EditsLast` | a file read, edited and written back without a lock |

Some hold with an exception that the property names, because the code breaks them otherwise:
`RefCountExact` and `IdleScanSparesLeased` are about keys that are not `overlapped`,
`AutoShutdownSparesLeases` about leases granted before the empty count (what comes later is a
late attach of section 8), `AbandonedDaemonExits` about limits other than 0, which the documents
call a disabled timer (`DaemonZeroLimit`), `OnlyPressureEvicts` about budgets that do not wrap,
`OutInOrder` about the numbers of LspOut frames only, `LeaseReturns` and `NoticeReachesEditor`
about connections that do not fail for good and servers that do not stop reading for good,
`RequestSeesDocument` about documents that no other command closed (two `do` commands on one
file share one open document in the server), `ClientsServer` about sessions whose first client
was not overtaken by an edit, `EditsLast` about edits that did not overlap and ids written once.
Section 8 says what happens otherwise.

## 6. What is proved

For every set of keys, handlers (finite), gates, evictors and callers, every bound on attaches,
every time limit, budget and capacity, every number of messages, clients, daemons, writers and
edits, and files of every length; the constants' assumptions are named in the modules and
evaluated by every run.

| Theorem | Statement |
|---|---|
| `TypeCorrect` | `Spec => []TypeOK` |
| `GatesAreSound` | `Spec => []GatesSound`, from `GateExclusion` and `NoLostWakeup` |
| `NoDanglingLease` | `Spec => []DanglingLeaseIsPurged` |
| `NoLeaseLost` | `Spec => []LeaseReachesClient` |
| `CountsExact` | `Spec => []RefCountExact` |
| `IdleScanIsSafe` | `Spec => IdleScanSparesLeased` |
| `LoneEvictorRemovesStopped` | `Spec => RemovalFollowsStop`, when the eviction loop is the only evictor |
| `RegistryRefines` | `Spec => ImplementsLeaseService` |
| `HeldLeasesHaveSessions` | `Spec => []Service!HeldLeaseHasSession` |
| `DaemonImplementsRegistry` | `DaemonSpec => Spec` |
| `DaemonTypeCorrect` | `DaemonSpec => []DaemonTypeOK` |
| `ShutdownExcludesEvictors` | `DaemonSpec => []ShutdownIsSoleEvictor` |
| `AutoShutdownIsSafe` | `DaemonSpec => AutoShutdownSparesLeases` |
| `ShutdownStopsTheTable` | `DaemonSpec => []TableIsStoppedAtExit` |
| `LspRuntimeProofs!TypeCorrect` | `Spec => []TypeOK` of `LspRuntime` |
| `RequestsAreNotDoubled` | `Spec => []RequestOnce` |
| `AnswersAreAhead` | `Spec => []AnswerIsAhead` |
| `PriorityIsKept` | `Spec => []PriorityKept` of `MemoryPolicy` |
| `EvictionNeedsPressure` | `Spec => []OnlyPressureEvicts` |
| `MemoryTypeCorrect` | `Spec => []TypeOK` of `MemoryPolicy` |
| `LastChoiceIsNeeded` | `Spec => []LastChoiceNeeded` |
| `QuietRoundsMeetBudget` | `Spec => []QuietRoundMeetsBudget` |
| `OnlyLagLosesMessages` | `Spec => []LostOnlyToLag` of `DedicatedStream` |
| `StreamTypeCorrect` | `Spec => []TypeOK` of `DedicatedStream` |
| `FramesInOrder` | `Spec => []OutInOrder` |
| `EditorMessagesExact` | `Spec => []InboundExact` |
| `CommandsReleaseLeases` | `Spec => []ReleasedAtEnd` of `ClientCommands` |
| `RequestsSeeTheirDocument` | `Spec => RequestSeesDocument` |
| `LastLayerAlwaysWins` | `Spec => []LastLayerWins` of `ConfigFiles` |
| `ClientsGetTheirServer` | `Spec => []ClientsServer` |
| `EditsAlwaysLast` | `Spec => []EditsLast` |

The inductive invariants, layer by layer, each proved from the ones before it:

* `Typed` adds to `TypeOK` what a handler's locals are at each `pc` and an evictor's at each
  `epc`.
* `GateInv`: the flag in a gate is up exactly when some handler spawns under it.  One spawner
  per gate is inductive only with it, and a waiter's spawner exists because a handler waits
  only after it saw the flag up, under the lock that lowers it.
* `LeaseInv`: a lease beyond `lease_seq` does not exist; a lease on a key without a record has
  a purger; a granted lease is with its handler or known.
* `CountInv`: `ref_count` equals leases plus half-done releases on keys not overlapped.  It
  needs the finiteness of both sets, hence the assumption that handlers are finitely many.
* Handles (`SessionRegistryProofs`): processes only age; a handle enters the table by one insertion of a fresh
  child (`Childless`, `FreshInv`) and so never returns after it left; and the lone evictor's
  candidates stay in the table until it has stopped them (`CandidatesStay`).
* `RegistryServiceProofs`: from `Typed` and `LeaseInv`, each action is a `Grant`, a `GrantVoid`,
  a `Release`, an `End` or a stutter.  The first half of a removal is the `End`, its second half
  is invisible because what it purges was void; a release during a removal is invisible too.
* `DaemonLifecycleProofs`: `LeasesAge` says what any step does to leases: it grants at most the
  next one and brings none back.  `CountedLeasesGo` is the invariant of the timer: once the loop
  has counted no session, a lease issued before is gone or about to be purged, and stays so
  whatever connections do until the loop decides.  `StopOrder` places the tasks relative to `run`; `TableProgress` says
  of each session of the last table that it waits, is being stopped, is being removed, or is
  gone for good, the last because its handle cannot come back.
* `LspRuntimeProofs`: `Flow` joins `RequestOnce` and `AnswerIsAhead` with `Traces`, that a
  request is anywhere only after its caller sent it and that an answer carries its id; without
  the first a new subscription might already be behind its answer, without the second a caller
  might step over it.
* `MemoryPolicyProofs`: `PolicyInv` says what the samples are in each part of a round and that
  whatever is chosen within its own limit comes before every candidate still there, which
  `Foremost` preserves; `PressureInv` that the total compared is the sum of the samples when
  nothing is chosen yet and a limit in bytes is the product when it fits.
  `BudgetInv` adds what a round does to the sizes: `TotalsOK`, that the running total is the size
  of the candidates and was over the budget with the last one chosen, and `QuietOK`, that while
  nothing disturbs the round the samples are the sessions, up to the sizes not asked for yet and
  the sessions already gone.
* `DedicatedStreamProofs`: `LagInv` joins `LostOnlyToLag` with the order of start, cursor and
  what was published; only `ReceiveOut` disturbs it.  `StreamType` adds what the two pipes and the
  channels may hold.  `OutOK` is about the frames shown, in the socket and in the queue as one
  sequence: its k-th LspOut frame has number k and the terminal frame, which needs a notice, is
  alone; moving a frame along then changes nothing.  `InboundInv` is about the way in: what is
  received, queued, in hand and still to be read is in that order, each part below the next, and
  together it is all the editor typed to forward, until a reading is torn.
* `ClientCommandsProofs`: `CommandInv` ties a client to its connection: a request is pending,
  answered or cut off, never two of them; the answer in the socket is that of the request the
  client is at; a lease is gone once its release is answered; and a `do` that has opened its
  document and holds its lease has it open in that session, unless another command closed it.
* `ConfigFilesProofs`: `Value` says in one expression what a layer makes of an id; the merge loop
  computes it, two layers are their concatenation (`LayersConcatenate`), and each edit changes the
  value of its own id only.  `ConfigInv` has two parts: `AttachOK`, that a key is what its client
  saw and, until the files change, what a resolve would find now, so that the daemon's own two
  readings agree with it; and `EditsOK`, that a truncation overtakes every other command at work,
  so that what a command not overtaken holds still keeps the promises made before it loaded.

Totals over sessions and loops over entries are folds of the community modules.  Their defining
recursion is unfolded in the proofs, where it is first shown to have a solution; an induction over
sets or positions is then a least counterexample, which needs no operator as a parameter
(`LeastSubset`, `NoFirst`).

What is only model-checked: liveness under fairness (`AttachIsAnswered`, `UnreferencedIsEvicted`,
`ShutdownCompletes`, `AbandonedDaemonExits`, `AnsweredCallReturns`, `StopEndsUnlessStuck`,
`BudgetIsMetInTheEnd`, `LeaseReturns`, `NoticeReachesEditor`, `CommandsEnd`, `OrphansExit`), and
the violation runs: what the documents promise and the code breaks.

## 7. What is not modelled

* `doctor`, `lsps`, `lsp` and `config show`: they read files and executables and print.
* Which server a file belongs to, the parameters of the methods of `do` and the rendering of
  their answers: pure functions of one command, without state.
* The MCP server's own JSON-RPC loop: it is the library's, and its tools run one after the other
  through the three helpers that are modelled.
* Serialisation, version checks and invalid JSON on the control socket: they are answered
  without a change of state.
* `run`'s exit on an I/O error of `accept`, stdout of a proxy that fails, and files that cannot be
  written: the process ends as it does in `Kill` or `KillDaemon`.
* Tracing, help texts, packaging, documentation, fixtures.

## 8. Other disagreements with the documents

Met while modelling, each a behaviour of the modules, and not kept as runs of their own; where a
property above has an exception, this is why.

* **Second spawn.**  `docs/src/advanced/session-reuse.md:26`: "Concurrent attaches for the same
  key are coalesced so only one spawn/initialize path runs."  Handler A finds no session; handler
  B spawns, reopens the gate (`registry.rs:291`), and has not inserted yet; A passes the open gate
  and spawns again.  `or_insert_with` then keeps one of the two servers, and nothing stops the
  other.
* **Two evictors.**  `docs/specs/daemon-session-lifecycle.md:175`: "Remove session from registry
  only after process exit/cleanup."  Both evictors hold the same handle; the first stops and
  removes it, an attach respawns the key, and the second removes the new record although its
  process runs, since `remove` takes a key (`registry.rs:457`).
* **Late attach.**  `docs/src/includes/daemon-auto-shutdown.md:1`: "The daemon automatically shuts
  itself down when it has had zero sessions".  The loop counts no session and its time is over
  (`eviction.rs:76`); an attach on another worker inserts its session and gets its lease; the loop
  sets the channel (`eviction.rs:89`) and the session is stopped with the daemon.
* **Dead server.**  `docs/specs/daemon-protocol.md:59`: "For request `id = X`, daemon MUST respond
  with exactly one terminal message".  The reader task ends with the server, but the runtime
  itself holds a sender of the broadcast channel (`lspee_lsp/src/lib.rs:168`): `recv` neither
  yields a message nor reports the channel closed, and the call waits for ever.
* **Sequence number.**  `docs/specs/daemon-protocol.md:355`: "`seq` (integer, required):
  monotonically increasing per stream direction", and the StreamError of its example (365) has 52.
  The code sends every StreamError with number 1 (`stream.rs:128`), after LspOut frames that have
  counted up from 1.
* **Reset connection.**  `docs/specs/daemon-session-lifecycle.md:200-201`: the daemon "detects
  broken socket" and "auto-releases associated lease".  The proxy ends while a frame is unread in
  its socket; `next_line` fails with a reset connection, the `?` of `stream.rs:156` leaves before
  the release, and the lease stays.
* **Stuck server.**  `docs/src/guide/memory-budgets.md:33`: stream clients "receive a terminal
  stream error".  The server reads nothing.  Its eviction sends the notice and waits on the full
  queue (`lspee_lsp/src/lib.rs:120`); the daemon's reader waits on the same queue, the proxy on
  the full socket, and it never reads the notice: everyone waits until the server exits or the
  proxy is killed.
* **Wrapped budget.**  `docs/src/guide/memory-budgets.md:11`: "evict any single backend session
  above this limit".  The limit in bytes is a product that wraps in a release build
  (`lib.rs:84`): a very large limit evicts every session.
* **Duplicate id.**  The comment at `config.rs:27`: "Add or update an LSP definition in the project
  config."  `add-lsp` updates the first entry of an id (`config.rs:171`), the last one wins.
* **Lost edit.**  The same comment.  Two commands load the file, the first writes, and the second
  writes back what it loaded (`config.rs:193`): the definition of the first is gone.
* **Stale key.**  `docs/specs/daemon-session-lifecycle.md:84`, of the chosen command and the other
  inputs of the hash: "If any of these change, broker creates a distinct session."  The client
  hashes one configuration, the file changes, the daemon reads another to spawn (`lib.rs:328`),
  and the session's key does not describe its server.
* **Unleased session.**  `docs/src/guide/daemon-lifecycle.md:18`: "Once unleased, a session is
  evicted after `idle_ttl_secs`".  Between the two halves of `remove` (`registry.rs:457-466`) an
  attach inserts a new record and lease; the second half purges the lease, and the reference it
  counted is never given back: the session stays for the life of the daemon.
* **Vanished client.**  `docs/specs/daemon-session-lifecycle.md:201`: the daemon "auto-releases
  associated lease" of a client that disconnects.  Only the end of a stream releases one; a
  client of the control socket that is killed keeps its lease until its session is evicted for
  its memory or the daemon stops.
* **Oversize request.**  `docs/src/advanced/performance-and-reliability.md:12`: "Always release
  leases (CLI does this automatically)."  A document or request that makes a frame too large
  closes the connection, and the release that follows has nowhere to go.
* **Server of a file.**  The comment at `do_cmd.rs:537` says the server is found "using the
  built-in language catalog (and any user/project config overrides)"; the lookup is called
  without the paths of either file.
