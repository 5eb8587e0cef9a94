# corbit-app in TLA+

Specifications of corbit-app, the desktop client of an external agent daemon
(`corbit-daemon`): how it keeps its event history across connections, runs
requests over one WebSocket session, delivers what happens on the network thread
to the views, manages the connection there, queues prompts and builds the
timeline, what its other pages show and change, and how it installs, starts and
stops a daemon on the user's machine. Every definition
is translated from the Rust sources; `PROJECT.json` maps it to their lines. The
daemon, the relay and the operating system are external and modelled only as
far as the client's code, tests and documents say what they do.

## The system

```
 views (GPUI, one thread)            network thread (tokio, single-threaded)
 ------------------------            --------------------------------------------
 ConnectionView  <- channel(512) <-  forwarder <- broadcast(512) <- session driver
   |    ^                            supervisor ---- snapshot, health, error --^
   |    '--- answers of RPCs ------  dispatcher -> command queue(64) -> driver
   '-------- DaemonRuntime handle -> supervisor, dispatcher           |
                                                                  WebSocket
                                                                      |
                                                             corbit-daemon (external)
```

| Component | State | Operations | Hard because |
| --- | --- | --- | --- |
| Event synchronization, `client.rs` | server id and last sequence (kept between connections), phase of the handshake | connect, server_info, event_sync begin / replay / complete, route_event | connections break anywhere, daemons are replaced and prune their log, events get lost or repeated |
| RPC session, `client.rs`, `runtime.rs` | command and cancellation queues, waiting tables, the driver's position | rpc, ping, cancel, close, the select loop, heartbeat, shutdown | calls time out or are dropped at any await; bounded queues; one task owns the socket |
| Supervisor and delivery, `runtime.rs`, `client.rs`, `mod.rs` | attempt, published session, broadcast, channel to the UI; the view's state and snapshot | run_attempt, supervise, forwarder, apply_event | two senders share one bounded channel; a broadcast that lags; retried and final errors |
| Connection in the views, `mod.rs`, `settings.rs` | endpoint, preflight task, restart task, runtime, state | connect, save, detect, restart, preflight result, apply_connection_state | tasks replace each other; the state disables the buttons that change it |
| Prompt queue, `timeline.rs` | queue, request in flight, retry id | send, steer, queue, clear, advance on completion | answers, events and disconnections race; a retry must not run twice |
| Composer, `timeline.rs`, `timeline/composer.rs`, `mod.rs` | one field and one attachment list, a draft per agent | type, choose, paste, capture, select, send, draw | operations end after the user went elsewhere; the field follows the selection a frame late |
| Timeline, `timeline.rs`, `timeline/`, `event_batch.rs` | turns, index, dirty turns, list rows, sleep preventer | batches, apply_timeline, flush, select, render, reset | events replayed or in any order; four structures that must agree |
| Workspace views, `workspace.rs` | directory, file and Git status with queued reloads | list, preview, status, workspace.changed, selection | stale answers, a change during a read |
| New task, `tasks.rs`, `timeline/provider_switch.rs` | recovery record in memory and on disk, a mutation id per step, switch in flight | create, retry, clean up, mutate, switch | one step of several fails; a crash; three flows over one snapshot |
| Resources, `resources.rs` | snapshot, selection, retry id, confirmations | run_mutation, create_project, delete, reconcile_selection | uncertain answers; snapshots out of order |
| Provider catalog, `provider_catalog.rs`, `provider_selection.rs` | request, generation, loop, choices per scope | load, refresh, choose, reset, reconcile | choices repaired against a catalog that could not be read, or that changed under them |
| Local daemon, `local_daemon.rs`, `local_daemon/` | ownership record, plist and loaded agent, process, port | ensure, restart, stop, reap | several applications, one port; slow health checks; crashes between spawn and record |
| Runtime installation, `local_daemon/runtime.rs` | staging, backup, destination | copy, mark, exchange, clean up | two renames that may fail or be cut off; several installers |
| Scheduled tasks, `scheduled.rs` | plans and runs, load or timer, operation, confirmation | load, save, run, switch, delete | two tasks write the same list |
| Plugins, `plugins.rs` | two lists, a task slot and a flag each, confirmations | load, inspect, install, update, uninstall, sign in | several ways out of each task |
| Paired devices, `settings.rs` | list, offer, one task, one flag | load, offer, revoke | calls cut off by a disconnection still take effect |
| Integrations, `integrations.rs`, `coding.rs` | preferences, saved preferences, probes | allow, probe, test, delete | fields stay editable during a probe; decisions survive a restart, results do not |
| Wire types, relay, rendering, logs and diagnostics, packaging, vendored widgets | - | - | encodings, cryptography, I/O: not modelled |

## Modules

| Module | Models | Depends on |
| --- | --- | --- |
| `EventHistory` | abstract: what a replica of one event log promises its reader | - |
| `EventSync` | the cursor protocol; implements `EventHistory` | INSTANCE `EventHistory` |
| `EventSyncProofs` | theorems about `EventSync`, and that it implements `EventHistory` | EXTENDS `EventSync`, TLAPS |
| `RpcSession`, `RpcSessionProofs` | one session, its callers, its driver, the supervisor's loop | - |
| `UiDelivery`, `UiDeliveryProofs` | supervisor, broadcast, forwarder, channel, apply_event | its sessions are those of `RpcSession`, its events those of `EventSync` |
| `ConnectionView` | connection management in the views | receives what `UiDelivery` delivers; its preflight is `LocalDaemon`'s ensure |
| `PromptQueue` | prompts between composer and daemon | receives what `UiDelivery` delivers |
| `Composer` | field, drafts and attachments | submits to `PromptQueue` |
| `Timeline` | event batches, turns, their index and list, the sleep preventer | receives what `UiDelivery` delivers |
| `Selection` | the sidebar's selection and its repair, as operators on a snapshot | - |
| `WorkspaceView` | files, Git status, and what moves the selection under them | EXTENDS `Selection` |
| `ResourceMutations` | run_mutation, deletions, creating a project | - |
| `TaskFlows`, `TaskFlowsProofs` | creating a task, cleaning up, switching the provider, beside a resource mutation | - |
| `ProviderCatalog` | the catalog and the remembered choices | - |
| `Scheduled`, `Plugins`, `Devices`, `Integrations` | the pages of that name | - |
| `LocalDaemon`, `LocalDaemonProofs` | daemons on this machine, and applications that manage them; the proofs are of `RuntimeInstall` too | - |
| `RuntimeInstall` | exchanging the runtime's directory | - |
| `MCConversation`, `MCPages`, `MCConnection` | compositions: components that share no state but the session, behind a `focus` | INSTANCE the components |
| `ConversationProofs`, `PagesProofs`, `ConnectionProofs` | theorems about the compositions and the components that have no proofs of their own | EXTENDS the composition, TLAPS; INSTANCE the components' proofs |
| other `MC*` | model values for TLC | EXTENDS the module they check |

A composition holds the variables of all its components and a variable `focus`
that stays what it was chosen to be: TLC explores the sum of the components'
state spaces, not their product, which is all there is to see, for the components
of one composition do not read each other's variables. Where they do,
one module has both sides: `TaskFlows` has three flows over one
snapshot, `WorkspaceView` the files and the selection, `LocalDaemon` two
applications over one record.

### EventSync

`serverId` and `lastSequence` are `RecoveryState`; `phase` is the await
`connect_inner`, `synchronize_event_history` or the driver stands at; `wire` is
the frames between daemon and client. Each frame the client reads is one action:
`ReceiveServerInfo`, `ReceiveLegacyServerInfo`, `ReceiveBegin`/`RejectBegin`,
`ReceiveComplete`/`RejectComplete`, `CommitEvent`, `IgnoreEvent`, `ReportGap`,
`RejectEvent`, `ReceiveUnexpected`. `history` and `origin` are history variables:
the committed events since the last HistoryReset and the log the cursor really
counts in. Faults: broken connections, a lost or repeated event, another daemon
behind the endpoint, a pruned log, a new client. With `TrustedDaemon = FALSE` the
peer sends any frame at any time.

### RpcSession

Callers submit to a bounded queue (waiting if it is full), the driver takes
cancellations before commands before frames (its select is biased), keeps an entry
per request and fails everybody when it ends. It writes requests, the answers to
the peer's pings and the close frame, and waits for each of these writes without a
timeout. The supervisor's loop ticks, pings, closes and leaves. A peer may be
alive, silent, stuck (its buffers are full: a write to it does not end) or gone.
`refused` remembers whose cancellation met a full queue. Request ids, fresh UUIDs
in the code, are reused when nothing mentions them any more, so runs are unbounded.

### UiDelivery

The stages of `run_attempt` are its awaits. `broadcast` loses its oldest messages
over capacity, the forwarder reports that as an error; the channel to the UI
makes senders wait. The network thread runs a task that can run before it reads
the next frame: `ForwarderParked` says so wherever the supervisor hears from the
daemon. When the session ends, the heartbeat's tick may come before the driver's
error: what is reported is then that there is no connection (`NoticeEnd`).

### ConnectionView

One preflight, one restart and one runtime, each tagged with the endpoint it
works for; GPUI tasks are cancelled by dropping them, so replacing a task removes
its callback. The runtime's reports come in the order `UiDelivery` has. The
buttons' `disabled` conditions are guards, for it is they that keep `connect`,
which returns early while a preflight runs, from losing an endpoint.

### PromptQueue

A prompt is in the composer, in the queue, in flight or executed; the daemon runs
one turn per agent and a mutation id once. Timeline events and the answer arrive
in any order, and a disconnection drops the task of the request in flight. What is
sent next is compared with the remembered request by a signature, and a steer's
has the id of its turn: when the agent's next turn starts, a remembered steer is
not recognised any more (`ForgetSteer`).

### Timeline

`Take` and `ApplyBatch` are the two halves of the event task, which sleeps for
one interval while it holds a delta; rendering and selection happen in between.
`ApplyBatch` folds `ApplyTimeline` over the batch and then does what the task
does in the same update: flush the list, set the sleep preventer. A delta is the
position of its event among all events, so a turn's text shows exactly which
deltas reached it. `rows` holds what each row of the virtual list was measured
with: a row that was not spliced keeps it. The turn of a row is found through
`byAgent`, as the render closure does. Steps are one step per turn.

### Composer

The selection changes at once, the field only when a frame is drawn (`Draw` is
`sync_prompt_editors`): between the two, answers may come and a second selection
may be made. A text is a number that says when it was typed and for whom, a file
is whom it was added for and a number; `flight` keeps what the answer's closure
kept, the agent and whether it clears, and, for the properties alone, what was sent.

### WorkspaceView and Selection

One task reads files and one Git, an item of `queue` waits behind each.
`ApplyRead` is the whole of the answer's handler: check that the workspace is
still the selected one, show, take the next from the queue. Whatever
moves the selection is an action (`SidebarSelects`, `SnapshotArrives`,
`CreatedSelects`, `NewTaskSelects`), with the clearing the code does there or does
not; `strayed` remembers that it did not.

### ResourceMutations

`run_mutation` with `retry`, the operation and id it would use again. A task reads
the snapshot in a call of its own (`fetched`) and applies it when it is told of the
answer, by when the daemon may have gone on; a creation keeps the one of its last
complete step (`kept`) for the case that the next folder fails. The daemon
remembers ids; calls nobody waits for stay in `late`. `intent` counts how often what
the user repeats was applied. Creating a project is a task of its own that goes on
folder by folder.

### TaskFlows

`d` is the daemon: what exists, what runs, which ids it applied. `call` is what
each flow waits for, `late` what still is on its way of calls that were given up.
A flow is one GPUI task; `Executed` is the daemon's part, `TaskStep` what the
task does with the answer up to its next await. `recovery` is the record in memory,
`unsaved` the save that is due, `disk` the file: `Crash` takes the first two away.
`rev` orders the daemon's states, and a snapshot carries the one it was taken in.

### ProviderCatalog

A request carries the generation and id it was made with. `clear_connection_bound_state`
drops the request's task and the loop with the connection, so the checks of both
that the code makes on an answer never fail: the module has the calls, not the
checks. Choices exist per default, project and agent, and per
provider; `ResetProject` drops those of a project. `Reconciled` is `reconcile_provider_selection`. `reported`
is the last list the daemon really gave, which is what `ChoicesSurviveErrors`
compares with.

### LocalDaemon

An application's operation is a program counter with what it has seen so
far (`op[c]`); every call into the operating system or over HTTP is a step of its
own. Processes have an instance (whose start they are; 0: not the desktop's), a
version, a way of having been started and a state. The record, the plist and
what launchd has loaded are shared. `Look` may miss a daemon that runs, `Relaunch` is
launchd's KeepAlive, `StartByHand` the user. Asking after a child may fail
(`try_wait`), and so may unloading the agent, each of which ends the operation.
`astray` names the processes the desktop lost sight of, and is read by `NoStrays`
alone. Removing the record if it is one's own
is one step, and ids of processes are not used again: the module's
header says so.

### RuntimeInstall

A directory is absent, partial (no marker yet), unmarked (not Corbit's), damaged or
whole with a digest. `SetAside` and `Commit` are the two renames; an error of the
second puts the backup back, which may fail as well and is then ignored
(`runtime.rs:469`), and a crash puts nothing back. In these two cases the runtime is
`stranded`: missing until somebody installs again.

### Scheduled, Plugins, Devices, Integrations

Each has the page's slots for tasks, its flags, confirmations and what they
guard, and of the daemon a clock of changes (or, for devices, the set that is paired).
Answers come late, and calls cut off by a disconnection still take effect.
`unsure` in `Devices` is whose revocation failed, as the user was told, since the list
was last read. `Plugins` models the local and the official list by one set of actions; which
of the two is chosen at the start, with the conditions that differ.
`Integrations` stays on one of its three pages and shares the delayed save between
them.

## What the runs check

| Run | Instance | Shows |
| --- | --- | --- |
| `event_sync` | 2 identities, 2 events each, 3 faults | `SingleIdentity`, `Contiguous`, `ResumeIsSound`, `CursorMovesBackOnlyOnReset`: no skip, no repetition, no mixed histories; `EventuallyCaughtUp`; `ImplementsEventHistory`: refinement of the abstract replica |
| `event_sync_return` | identities come back | `SingleIdentity` **violated**: two histories splice |
| `rpc_session` | 1 call, 1 heartbeat, queues of 1 and 1, any write may block for ever | `PendingHasAnOwner`: who has an entry waits, will be cancelled, or was dropped while the queue of cancellations was full; `EveryCallReturns`, and a dead peer and a shutdown end the session: `HeartbeatRecovers`, `ShutdownIsHeeded`; each of the three names the one exception, a write that blocks for ever |
| `event_sync_untrusted` | 2 identities, one of them legacy, any frame at any time, 2 faults | `IdentityChangeResets`: no event of another identity on top of the old ones, whatever the daemon sends |
| `conversation` | delivery: capacities 2 and 1, 2 attempts, 3 events; timeline: 2 agents with the same 2 turn ids, 3 events, batches of 2; composer: 2 texts, 2 requests, up to 2 attachments; queue: 3 prompts, 2 agents, a timeout, a disconnection | `DeliveryIsHonest`: loss is reported and a snapshot implies a session; `NothingOutdated`: no snapshot of a session earlier than the state shown, and in the end the reason for which there is none; `ShowsWhatWasSent`, `TurnsAreTracked`, `FirstCompletionAdvances`; `HoldsItsOwn`, `TextSurvives`; `QueueKeepsOrder`, `OnlyDisconnectLoses` |
| `pages` | each page alone: 2 projects, 2 workspaces, a change; 2 resources, 3 submissions, 2 losses; 2 plans; 2 plugins; 2 devices; 2 providers; 3 endpoints of which two are local, 2 hosts | `EveryPageIsFresh`, `BusyHasWork`, `ConfirmedIsShown`: what is shown out of date is being read again or the user was told, with the two exceptions named below; what shows as running has a task, a second click confirms what is shown; `RepeatedIsAppliedOnce`, `ReportedSourcesExist`, `ShownDevicesArePaired`, `ChoicesAreOffered`, `ActionsAreLimited` |
| `task_flows` | 1 task, 1 retry, 1 mutation, 1 fault | `CreatedOnce`, `RecoveryIsReal`, `EveryFlowEnds` |
| `connection` | view: 2 endpoints, one of which never answers, and 3 user actions; daemons: 2 applications, 2 versions, 4 processes, 2 operations, a fault; installation: 3 of them, 2 failures; delivery: 2 attempts, an event, channels that never fill | `EndpointIsCurrent`, `BoundToThisDaemon`, `BusyMeansWork`, `OneAtWork` of the view, and `EditableAgain`: the settings can be changed again and again unless the runtime is asking the endpoint that never answers; `ForeignUntouched`, `NoStrays` of the daemons and `InstallIsAtomic` of the files, the last two with the exceptions they name; `ViewFollowsSession`: the view comes to show a session that lasts |
| `connection_view_permissions` | no user action | `DisconnectDropsPermissions` **violated**: a permission request outlives its session |
| `prompt_queue_lost` | 2 prompts, 1 agent, a disconnection | `NothingLost` **violated**: a queued prompt is lost in flight |
| `gone_is_gone` | 1 task, a mutation beside it, 1 fault | `GoneIsGone` **violated**: an old snapshot says that the unfinished task is gone, and its record is forgotten |
| `choices_lost` | a session whose catalog cannot be read | `ChoicesSurviveErrors` **violated**: the remembered choices are erased |

The violated runs are disagreements between the code and what its README, its
messages to the user or its comments say; `PROJECT.json` quotes each under
`findings`.

### Known divergences without a run of their own

The modules state these properties; the instance given here makes TLC find a
counterexample. The first five are cases that a property of a passing run excepts by
name, or, for `ViewFollowsSession`, that the instance of `connection` leaves out.

| Property | Instance | What happens |
| --- | --- | --- |
| `HeartbeatReconnects` | `RpcSession.cfg` | The README (line 181) says that heartbeat errors reconnect automatically. The supervisor awaits `close()` (`runtime.rs:1044`), which waits without a timeout for the driver, which may be inside a write that has no timeout either (`client.rs:1485`, `1262`, `1314`) and looks at no queue meanwhile. |
| `CancelledCallsLeave` | `RpcSession.cfg` | The README (line 179) says that a request that timed out or was dropped removes its waiting entry. Its cancellation is sent with `try_send` (`client.rs:1162`): with the queue of 64 full the entry stays until a late answer or the end of the session. |
| `ViewFollowsSession` | `UiDelivery`, `FairSpec`, with capacities 6 and 1, 2 attempts, an event | The README (line 190) says every session, a reconnected one too, fetches the snapshot. With the channel to the UI full the snapshot, sent past the broadcast (`runtime.rs:1018`), overtakes Connecting, which drops it when it arrives (`mod.rs:985`): the view is online without a snapshot for as long as the session lasts. |
| `EndpointStaysEditable` | `MCConnectionView`, `FairSpec`, with the endpoints of `Connection.cfg` and one switch | The README (line 290) says that endpoint and token can still be changed by hand. An endpoint that never answers leaves Connecting or Reconnecting for ever, which disables the buttons (`settings.rs:1460`). |
| `ClearsOnlyWhatWasSent` | `Composer`, 2 conversations and texts, 1 attachment, 1 request | The settings (`settings.rs:1246`) say that drafts are kept on the device. When a prompt is accepted the field, its draft and the attachment list are emptied as they are by then (`timeline.rs:1243`, `mod.rs:1275`): what was typed or added while the request was in flight goes with it. |
| `CommittedReachesTimeline` | `UiDelivery` with the values of `Conversation.cfg` | The README (line 186) says a short disconnection applies what is missing. What a lagging forwarder skips is committed (`client.rs:1432`) and not replayed; the user sees an error (`LossIsReported`). |
| `RunsOnce` | `PromptQueueLost.cfg` with `TwoAgents`, `ThreePrompts`, `TwoForOne`, a timeout, no disconnection | The README (line 188) says an uncertain operation is repeated under its id. A prompt to another agent in between replaces the one id kept (`timeline.rs:1282`). |
| `QueueDrains` | `PromptQueueLost.cfg`, `FairSpec` | The composer (`timeline.rs:3926`) says messages are sent after the current task. A completion replayed in the handshake comes before Online and does not advance the queue (`timeline.rs:1404`). |
| `ShownIsSelected` | `Pages.cfg` with the definition as an invariant | The README (lines 225-226) says switching the workspace clears the file state at once. The new-task page selects another workspace without clearing, so an answer for the old one returns early and the pane stays loading (`workspace.rs:199`). |
| `ConnectorIsLocal` | `Integrations` with the endpoints of `Pages.cfg` | The page (`integrations.rs:1196`) says the connector is on this machine. What is saved when a probe ends is the field as it is then, not what was tested (`integrations.rs:744`). |
| `DebugSparesService` | `LocalDaemon` with the values of `Connection.cfg` | The README (lines 310-311) says a debug build does not interfere with the installed service. When their versions differ it stops the service it finds recorded. |

Cases the models reach for which no document says what should happen. Where a
checked property excepts one of them, it is named:

- Prompts: clearing the queue while one of its prompts is sent, which an error puts
  back (`timeline.rs:1333`); a delta after its turn's completion, which sets its step
  running for good (`timeline.rs:634`).
- Scheduled tasks: an operation's answer replaces a newer list, for the request id
  guards only the other reads (`scheduled.rs:130`). The list stays out of date until
  the next change, and nobody says so: an exception of `EveryPageIsFresh`
  (`overtaken`). A plan is created twice after an uncertain answer, for creating one
  has no mutation id (`scheduled.rs:368`).
- Files: after the new-task page moved the selection the panes show what they
  showed: the other exception of `EveryPageIsFresh` (`strayed`).
- Resources: creating a project uses fresh ids at each try, so a repetition after an
  uncertain answer makes a second project (`resources.rs:271`, `290`);
  `RepeatedIsAppliedOnce` is about what `run_mutation` repeats. A repeated operation
  that the user means as a second one is made ineffective by the remembered id
  (`resources.rs:2136`).
- Local daemon: while a daemon is to be stopped, a health check that gets no answer
  in time makes the desktop drop the record of one that runs (`local_daemon.rs:482`);
  an application that ends between starting a process and recording it
  (`local_daemon.rs:291`), or that cannot ask whether it has exited
  (`local_daemon.rs:327`), leaves it unrecorded. These are the exceptions of `NoStrays`
  (`astray`).
- Runtime installation: a death between the two renames, or a failure of the second
  and of putting the backup back, leaves no runtime (`runtime.rs:459` to `469`): the
  exception of `InstallIsAtomic` (`stranded`).
- Task flows: `RecoveryIsReal` compares the record with what was ever created or
  started. That a clean-up which failed half-way has stopped the agent since
  does not show in it.

## Bounds

Events: two identities are enough to mix histories, two events to skip, repeat
or reorder one, three faults to break a synchronization, replace the daemon and
break the next one. Session: a caller, a heartbeat and a close compete for
the one place in the queue, so that one waits while another is served, and a
cancellation queue of one is full when both calls are dropped; two callers beside the
heartbeat satisfy `PendingHasAnOwner` as well (170,516 states), and the theorem has
any number. Delivery: channels of 1 and
2 overflow at once, channels of 20 never with 2 attempts and an event; both are
checked, the capacities of 64 and 512 in the code lie between, and what holds for
every capacity is proved. Connection:
three switches let the user change the endpoint, restart and reconnect in one
behaviour, to an endpoint that answers or to one that never does. Queue: three prompts,
two of them for one agent, are what order and interference between agents need.
Timeline: three events make a late start, a second completion, a delta after the end, a
batch that meets its limit and one that ends at another event, and a reset between
two events of a turn; the same turn ids at both agents catch an index that mixes
them up. Composer: two attachments are the limit and four can be
added, so every way of adding meets it; two texts and two requests put a second
request into the window of the first.

Pages: one change while one of two reads runs and one move of the selection are the
race of `WorkspaceView`; three submissions and two losses are an uncertain
operation, its repetition and another loss; every other page has two items, so that
an answer can be about the wrong one, and two visits or sessions, so that it can
be late. The catalog's request id wraps at 3, with at most two requests
remembered at a time. Three SSH profiles let one be deleted while it is tested and
another be created.

Task flows: one task, one retry, one mutation or switch and one fault anywhere
are the smallest behaviour in which every recovery path runs; `CreationsHappenOnce`
and `RecoveriesAreReal` have no bound. Local machine: two
applications with two versions, four processes and two operations cover one
operation of each application interleaved, with the daemons each finds, starts and
leaves; three installations with two failures an installation that fails between
the renames while another one begins.

## Fairness

`EventSync`: the client's own steps and the daemon's answer to a hello
(WF), nothing of faults or publishing. `RpcSession`: driver, supervisor and timers
(WF); waiters of a queue and branches of the supervisor's select that are ready
again and again (SF: tokio's semaphore is FIFO and select! picks at random).
Nothing is assumed of the daemon or the socket: a write to a stuck peer is no step
that could be fair, which is why the three properties except a write that blocks for
ever. `UiDelivery`: tasks and the UI's
event loop run (WF); the senders into the shared channel are served in the end (SF:
async-channel wakes its waiters in order). `ConnectionSpec` states both this
and the fairness of `ConnectionView`: tasks end and the
runtime retries (WF), and a reachable daemon is reached in the end (SF). Nothing is
reached at the endpoint outside `Reachable`, and `EditableAgain` promises
nothing while it is being asked. `PromptQueue`: answers and
events arrive, turns end (WF; only for `QueueDrains`). `TaskFlows`: a call is answered
or times out, which `EveryCallReturns` of `RpcSession` is the reason for (so
`EveryFlowEnds` has its exception: a flow that waits for room in the queue of a
driver that is stuck in a write does not end), and the
task that waits for it goes on (WF of `DaemonStep`, `TaskStep` and `SwitchStep`);
nothing is assumed of the user, of mutations or of saving. The other modules have
safety only. Deadlock checking is off: a stopped client, an exhausted bound or an
idle user is a legitimate end.

## What is proved

Eight modules hold proofs. Every safety property of a passing run is stated by a
theorem, for all values of the constants. The assumptions are those on the
constants, which TLC evaluates in the runs (`ConnectionAssumption`,
`ConversationAssumption` and `PagesAssumption` collect those of a composition's
components), and what is named below.

`EventSyncProofs`, for every set of identities, every bound and every length of
log:

- `TypeCorrect`: `Spec => []TypeOK`.
- `HistoryIsContiguous`: `Spec => []Contiguous`. The inductive invariant is
  `OrderInv` = `TypeOK`, `RequestedIsCurrent` and `Contiguous`. `Contiguous` alone
  is not inductive: `ReceiveBegin` without a reset sets the cursor to `from`, and
  only because `requested` still equals the cursor (nothing commits between hello
  and begin) does that leave it where it is.
- `CursorMonotonic`: the action property, from the same invariant.
- `StrangersStartAnew`: `IdentityChangeResets`, assuming only that identities do
  not come back; the daemon may send any frame. It rests on `WhoIsWho`: every
  identity known to the client is the daemon's or a retired one's, the peer of an
  attempt is the daemon that answers, a cursor's origin is the peer once events of
  it were committed, and a cursor whose server id is confirmed counts in that log.
- `ViewsNeverMix` and `CursorIsSound`: with a daemon that keeps the protocol, and
  identities that do not come back, `SingleIdentity` and `ResumeIsSound`. The
  invariant `IdentityInv` adds to `WhoIsWho` that a begin on the wire without a reset
  answers a cursor the daemon may resume (`NoUnsoundResume`).
  Without the assumption the statement is false: that is the run
  `event_sync_return`.
- `ClientIsReplica`, under the same assumptions: every behaviour of `EventSync` is
  one of `EventHistory`. The mapping is the identity on `log`, `origin`,
  `lastSequence` and `history`. The step simulation needs one invariant more: every
  frame on the wire was told by a log (`Told`), and stays told as logs only grow.
  Each action is then `Publish`, `Extend`, `Restart`, `Forget` or a stutter.

`RpcSessionProofs`: `NoOrphans`, `Spec => []PendingHasAnOwner` for any number of
callers and any size of both queues. An entry has a caller that waits, or a
cancellation on its way, or is one of `refused`, whose cancellation met a full queue.
The invariant adds that a session that has ended has empty tables and
queues.

`UiDeliveryProofs`, for capacities of every size and any number of attempts and
events:

- `LossIsTold`: `LossIsReported`. Each committed event is applied, carried by one
  of the three stations of the path, or the loss is told (`LossInv`); a step that
  takes a message from one station puts it into the next (`Keeps`).
- `SnapshotHasSession`: a snapshot is on its way only from a session that can be
  called.
- `ReasonIsShown`: `FinalStateIsReason`. `SaidInv` says that after a final error
  the state for it is the last state on the way or the one shown, also after a
  lagging forwarder skipped the ones before it; `StageInv` ties the supervisor's
  stages to the session, and `NoFinals` and `OverInv` say when a final state may
  be seen.
- `NoOlderSnapshot`: `SnapshotIsNotOutdated`, for full channels too. The snapshot
  goes past the broadcast and may overtake the states the forwarder holds, so
  the view may have a later session's snapshot than its state, or none, but never an
  earlier one's. `OrderInv` numbers what is on its way by its session: before a
  state of a session that the view comes to show there is one that resets the view
  and drops what it had.

`ConnectionProofs`:

- for every set of endpoints, whichever of them answer, and any number of user
  actions, `Invariance` shows the conjunction `IInv` of the invariants of
  `ConnectionView` inductive; a theorem for each follows. None of `OneAtWork`,
  `BoundToThisDaemon` and `EndpointIsCurrent` is inductive alone: a button could
  start a second task unless the buttons are disabled while one runs
  (`PreparesQuietly`), and the runtime a preflight starts would find an earlier
  daemon's permission requests unless the preflight began with none.
  `ReportIInv` states once what every report of the runtime has to keep.
- what is proved of `LocalDaemon` and `RuntimeInstall` holds of the
  composition: a step of it is a step of each component or leaves it alone
  (`StepOfEach`), and the instances of a component in the model and in its proofs
  say the same (`SameDaemon`, `SameInstall`).

`ConversationProofs`, for any agents, prompts, turns, limits and capacities:

- `OrderIsQueued` and `NothingElseLoses`, of `PromptQueue`. `QueueInv` says that
  what waits, including the prompt in flight, is a part of the log in the log's
  order (`OrderInv`), and that the request in flight is the remembered one, unless
  that was a steer and is forgotten, under an id that was generated, and that an
  id known to the daemon is that of an executed prompt (`SentInv`): that is why a
  retry loses nothing.
- `ComposerHoldsItsOwn` and `WrittenStays`, of `Composer`; what an accepted prompt
  clears is not covered by the second, and may be more than what was sent
  (`ClearsOnlyWhatWasSent` among the divergences). `OwnInv` lets the
  attachments belong to somebody else only while the next frame will drop them;
  `SlotsInv` counts the slots of a chooser that is still open as taken, without
  which two ways of adding would exceed the limit together.
- `TimelineShowsLog`, `TurnsStayTracked` and `OneAdvance`, of `Timeline`, for
  batches of every length. `PathInv` says that for some d the view shows the first
  d events of the log and that the event task, its channel and what it holds are
  the rest; `ViewInv` that the index is exact and every turn in it once; `ListInv`
  that the rows are those of the agent shown. A batch is a fold: `FoldSteps` shows
  that the fold is a recursive function's last value, and `BatchFollows` goes
  along it. The library's induction theorems cannot be instantiated with the
  provers at hand; `Least`, that every set of numbers has a least element, follows
  from what the library says of well-founded relations without an operator
  parameter, and `Induction` over a *set* of numbers follows from `Least`.
- `ConversationIsHonest` and `NothingOutdatedIsShown`: carried over from
  `UiDeliveryProofs` (`DeliveryOfConversation`).

`PagesProofs`, for all projects, workspaces, plans, plugins, devices, catalogs
and hosts. The pages share the session only, so `PagesInv` has one invariant for
each, which a step of the others leaves alone:

| Theorem | Rests on |
| --- | --- |
| `RepeatedOnce` | `OneId`: whatever the user repeats went out under one id, the remembered one, and once it was applied the daemon knows that id |
| `ReportIsTrue` | `CreationCounted`: the daemon made what the creation counts, and the folder whose answer is outstanding |
| `LimitsHold` | `IntegrationsInv`: the saved decisions obey the limits as well, so a restart cannot bring back what they forbid |
| `ListIsTrue` | `DevicesInv`: the flag is set exactly while a call runs, so no call replaces another; a list on its way was true when it was read, but for the devices whose revocation failed or may still come |
| `ChoicesCanBeSent` | `CatalogInv`: a catalog is kept only of the session whose loop runs (`LoopRuns`), a request is one of this session, and the choices are reconciled with it in every scope (`ChoicesAreGood`) |
| `PagesAreFresh`, `BusyHasWorkAlways`, `SecondClickIsSeen` | the invariants of the pages concerned. `ScheduledInv` has the hard case: two tasks write one list, and one of them read late enough, unless an operation has just ended or the user was told (`OneIsRecent`); `WorkspaceInv` says that what was read is the daemon's version, or its change is on its way, or another reading waits in the queue, as long as the selection did not stray |

`TaskFlowsProofs`, for any number of tasks, retries, mutations and faults:

- `CreationsHappenOnce`, `Spec => []CreatedOnce`. `CreatedOnce` is not inductive:
  that a retry creates nothing follows only if whatever exists was created under
  an id the daemon remembers (`Accounted`), every waiting or late call that creates
  carries the one id of a task the user asked for (`CallsInv`), and every recovery
  record, in memory, on its way to the file, in the file or carried by a flow, names
  such a task (`RecordsInv`). The number of workspaces is bounded through the
  cardinality of the set of tasks whose workspace id was applied.
- `RecoveriesAreReal`, `Spec => []RecoveryIsReal`. On top of that: what the applied
  ids say of the daemon's resources (`World`), that an answer is on an applied id
  and a call does what its id stands for, however late it arrives (`Answered`), that
  no snapshot shows an update nobody made (`Snaps`), and that the creation waits for
  the call of its stage (`Linked`).

`LocalDaemonProofs`:

- `ForeignersAreSafe`, `Spec => []ForeignUntouched` for any number of
  applications, processes, operations and faults. `DaemonInv` says what the
  processes are and that what an operation remembers is still true of the process it
  names: the id it saw belongs to that instance or to nobody, and whatever it
  is about to stop has the instance of a record, which is never 0
  (`OperationInv`). A step of one application keeps that for all the others because
  ids only go up and no process changes its instance (`Keeps`).
- `NothingIsLeftBehind`, `Spec => []NoStrays`. An application's own instance has one
  process, and no two operations start the same one (`ChildrenInv`); a child that
  is not `astray` is awaited by its application, or listens and is recorded, or is on
  its way out (`CareInv`). The exception is for each process: one that was lost sight
  of excuses no other.
- `Atomicity`, of `RuntimeInstall`, for any number of installers and bundles:
  `InstallIsAtomic`. What is moved into place was checked, what was set aside had
  been in place (`OnlyWholeMoves`), and while the place is empty the one who emptied
  it still holds the backup, unless the runtime is `stranded` (`BackupIsHeld`): `RuntimeReturns` alone would let the
  wrong installer fail.

The theorems of `LocalDaemonProofs` and `UiDeliveryProofs` are about components that
`connection` and `conversation` reach through an INSTANCE; the theorems of
`ConnectionProofs` and `ConversationProofs` state the properties the runs check.

Only model-checked: liveness (`EventuallyCaughtUp`, `EveryCallReturns`,
`HeartbeatRecovers`, `ShutdownIsHeeded`, `EveryFlowEnds`, `EditableAgain`,
`ViewFollowsSession`), which is out of the prover's reach, for it needs ENABLED;
and the counterexamples of the violated runs, which are single behaviours.

## Plan

Done: the modules, in the order `EventSync`, `RpcSession`, `UiDelivery`,
`ConnectionView`, `PromptQueue`, `Timeline`, `WorkspaceView` and `Selection`,
`TaskFlows`, `ResourceMutations`, `ProviderCatalog`, `LocalDaemon` and
`RuntimeInstall`, `Scheduled`, `Plugins`, `Devices`, `Integrations`, `Composer`; the
refinement; a theorem for every safety property of the passing runs.

Next, in this order: type correctness of `RpcSession`; the lemmas that lie below the
liveness of `RpcSession` and `TaskFlows` (which step is possible as long as a
call waits); two views over one UI state file; an abstract specification of the
prompt queue.

## Not modelled

Rendering, themes, tray, notifications and forms whose fields are only typed into;
encodings, and the relay's cryptography and numbering of envelopes, about whose
other end the repository says nothing; archives, log rotation, diagnostics and
credential stores, which are sequential calls into the operating system; the
vendored widget library; packaging. Inside the modelled
parts: texts shown to the user, the lengths of timeouts and of the back-off,
the contents of attachments and prompt options, the diagnosis task of the settings,
the kinds of a turn's steps and interrupting a turn, a sleep preventer that the
operating system refuses or the user has switched off (`timeline.rs:1070`), the page's
plugin task whose window closes before its answer (`plugins.rs:266`), after which the
page is gone with it, the form of a scheduled task, hooks and Git texts, window
geometry. Every window has a view of its own over one UI state file
(`resources.rs:1638`): the models have one view. A session whose handles are all
dropped without a close (`client.rs:1219`) does not occur, for the supervisor holds
one and closes it.
