# GT-Office: TLA+ models, checks and proofs

GT-Office is a Tauri desktop application: Rust crates (`crates/gt-*`), a Tauri
backend (`apps/desktop-tauri/src-tauri`) and a React renderer
(`apps/desktop-web`). It runs command-line AI agents in terminal sessions, lets
them send each other tasks and answers, connects them to chat channels, and
watches the git state of the workspaces they work in. This directory holds TLA+
models of the parts of it that are concurrent and stateful, the TLC runs that
check them on small instances, and proofs that hold for every size.

Contents: [the system](#1-the-system) · [modules](#2-modules-and-the-code) ·
[runs](#3-runs) · [fairness](#4-fairness) · [what is proved](#5-what-is-proved) ·
[disagreements](#6-disagreements-with-the-documents) · [limits](#7-what-is-not-modelled)
· [plan](#8-plan)

To repeat a check: `tlc -workers 2 -config TerminalFlow.cfg TerminalFlow.tla`;
a proof: `tlapm TerminalFlow_proofs.tla`. `PROJECT.json` maps every definition
that models code to its lines and names a mutant for every property: a
plausible bug that TLC finds with that property.

## 1. The system

TAURI stands for `apps/desktop-tauri/src-tauri/src`, WEB for `apps/desktop-web/src`.

| Component | State | Operations | Talks to |
|---|---|---|---|
| Terminal provider and mux, `crates/gt-terminal/src/lib.rs` | map of sessions under a lock, a channel of 1024 commands, per session a `SessionFlowState`: ring, numbered frames, waiting output, unread counters | create, write, resize, kill, visibility, snapshot, delta; one reader thread per session; output and meta ticks | Output, Meta and state events to the renderer and the relay |
| Terminal projection, WEB`/shell/layout/useShellTerminalController.ts` | last sequence number, screen, promise chain, scheduled recoveries, workspace caches | output event, delta pages, snapshot, presentation, visibility | `terminal_read_delta`, `terminal_read_snapshot`, `terminal_set_visibility` |
| Git status coordinator, TAURI`/commands/git/status_coordinator.rs` | an entry per workspace (generation, flags, fingerprint, revision), cancellation tokens | request, activate, deactivate; one refresh loop per scheduled entry | `git/updated` events; called by the watcher and the workspace commands |
| Session change feed, `crates/gt-changefeed`, WEB`/features/session/use-session-activity.ts` | last snapshot per workspace | push | `git/updated`, activity events |
| Task service, `crates/gt-task` | runtimes, channel numbers, the last 512 messages, route bindings, access policies, pairing, idempotency | register, unregister, dispatch a batch, publish, list threads | writes to terminals; called by windows and by the bridge |
| External reply relay, TAURI`/app_state.rs`, `commands/tool_adapter/mod.rs` | sessions bound to an external peer or a waiting task | bind, preview, finalise, deliver, flush worker | terminal output, chat channels |
| External inbound pipeline, `commands/tool_adapter`, `channel_adapter_runtime.rs`, `connectors/telegram` | cache of answers, routes, policies, allowlist and their file, polling offset | process a message, configure, restore | the task service, the relay, the workspace runtime |
| Channel connectors, `connectors/wechat`, `connectors/feishu/websocket.rs` | table of workers, connected accounts, restart attempts, account records in a file | supervise, reconcile, poll, hold a socket | the inbound pipeline |
| Workspace runtime and file watcher, `commands/workspace`, `crates/gt-workspace`, `filesystem_watcher.rs` | open workspaces, window bindings, watchers and pending batches | open, activate, close, watch, flush | the coordinator, the index |
| Local bridge, `local_bridge.rs`, with `tools/gto` | token, connections | NDJSON requests | the task service |
| Daemon, `crates/gt-daemon`, `daemon_bridge.rs` | terminals with a ring of 64 chunks | spawn, write, frames | TCP |
| Agent sessions, `crates/gt-agent-session` | rows in SQLite | create, change of state, "all live are stopped" at startup | |
| Others: settings, storage, security, git commands, agents, tools, designer, React components | files, rows, presentation | see `PROJECT.json` | |

What is hard, and what makes each part correct:

* **Terminal**: five parties (creating thread, reader thread, kill, visibility
  requests, mux task) share a bounded channel with every other session. Each
  byte must be in exactly one numbered frame or wait for one; the recovery
  history must be the newest frames without a hole; a page of it must be
  complete or say that it is not; what waits must be emitted; a dead shell's
  reader must end however full the channel is.
* **Projection**: between `await`s anything may run, and only one of four ways
  to recover is serialised. No frame up to the cursor may be missing from the
  screen, none should be shown twice, and a queue of events must drain.
* **Git coordinator**: activations, closings and workers of several generations
  overlap, flags are cleared before the status is read without the lock. At most
  one worker per generation, no refresh lost, what is published is emitted, and
  revisions increase.
* **Change feed**: nothing orders its pushes, and an opening of the workspace counts
  its revisions from 1 again. It must end at the newest status of the one that
  stands.
* **Task service**: a call takes the lock several times and sleeps in between.
  Numbers must be unique, a task that reached a terminal must be recorded, the
  log may forget only for a reason.
* **Reply relay**: the worker sends without the lock and then changes the session
  it finds, which may be another message's. Only a message that was bound during
  a delivery may lose its session; a reply is final; a message ends although the
  agent talks on, the terminal ends, or the channel refuses; a prompt on the
  screen becomes the prompt the peer sees.
* **Inbound pipeline**: a call reads cache, routes, policy and allowlist apart and
  stores its answer at the end, calls overlap, providers repeat, commands clear
  the cache, the application restarts. An answer to a prompt is typed before any of
  this is read, because its chat has a reply session. Nobody types whom no policy of
  the time has let in; a message is typed once; the cache keeps nobody out for ever; no
  message is skipped, and none is sent for ever.
* **Connectors**: two threads reconcile a table with the open workspaces and a file that
  the worker itself rewrites, read one after the other, and an aborted worker ends late. One worker per account, what is
  shown as connected is, and the worker follows the account.
* **Workspace watcher**: setting a watcher up takes long, and openings, closings,
  reloads and restores go on meanwhile, on three kinds of threads. A closed
  workspace must not be watched, an open one must be, with its present settings.

`PROJECT.json` lists the hazards one by one, with the line where each bites and
the properties that would catch it.

## 2. Modules and the code

| Module | Models | Used by |
|---|---|---|
| `ByteRing` | `ByteRingBuffer` and `append_tail`, as functions on sequences | `TerminalFlow` |
| `RecoveryLog` | abstract: a numbered log that grows at its end and forgets from its front | instantiated by `TerminalFlow` |
| `TerminalFlow` | one terminal session from the PTY to the events and pages | `TerminalFlow_proofs` |
| `TerminalProjection` | the renderer's side of one session | `MCTerminalProjection`, `TerminalProjection_proofs` |
| `GitStatusCoordinator` | the coordinator of one workspace and the commands that activate and close it | `GitActivityFeed`, `MCGitStatusCoordinator` |
| `GitActivityFeed` | composes the coordinator with the hook and the change feed | `MCGitActivityFeed`, `GitStatus_proofs` |
| `WorkspaceWatcher` | the file watcher of one workspace under the commands, reloads and restores | `WorkspaceWatcher_proofs` |
| `TaskBus` | runtimes, batches, publishes and the channel log | `TaskBus_proofs` |
| `ExternalInbound` | a chat message from its provider to the terminal, and the access configuration | `ExternalInbound_proofs` |
| `ExternalReplyRelay` | the way back: relay sessions of a terminal and the flush worker | `MCExternalReplyRelay`, `ExternalReplyRelay_proofs` |
| `ConnectorWorkers` | the workers of a channel account | `ConnectorWorkers_proofs` |

The `MC` modules add symmetry sets and a document's claim that fails. A module
without one is run as it is. Every module states its `TypeOK`; it is a
property of a run only where a theorem needs it, since a wrong type shows as
an error of the other properties or of TLC.

**TerminalFlow.** `create_session` is `CreateRegister`, `CreateFail` and
`CreateInsert`: the session is registered with the mux, its shell and reader
start, and only then is it listed. The reader thread is `Read`,
`EofUnregister`, `ReaderRemove`; `kill_session` is `KillUnregister` and
`KillChild`. They put commands into `queue`; `blocking_send` waits for room,
`try_send` drops or fails without (`HasRoom`). The mux task takes one command
(`MuxRegister`, `MuxUnregister`, `MuxOutput`, `MuxVisibility`, `MuxIgnore`) or
a tick (`OutputTick`, `HiddenMetaTick`). Bytes are named by their position in
the shell's stream, so that loss, doubling and reordering are visible. Other
sessions appear as commands that fill the channel (`OtherCommand`). The answers
`Snapshot` and `ReadDelta` are state functions: the requests do not change the
session. `ReadDelta` describes the loop of `read_delta` by the first and last
frame it takes.

**TerminalProjection.** An action is a JavaScript callback up to its next
`await`. The host is reduced to what `TerminalFlow` shows of it: a last frame, a
window of held frames, output that waits for a tick and is already in the ring.
A task is a call of `recoverTerminalOutputDeltaPages` with its caller: the
promise chain (`Queue`), a recovery scheduled after a write, or the
recover–show–recover of `recoverWorkspaceTerminalSessions`. `shown[n]` counts
how often frame `n` is on the screen. The event queue's microtasks run before
any other callback (`ChainReady`).

**GitStatusCoordinator.** One action is one critical section of the lock `inner`
or what a task does between two. `worker` are the spawned tasks with the
generation and the cancel token they captured; `Top` … `End` are the places of
`run_scheduled_refresh_loop` and `refresh_once` in order. `ActivateCheck`,
`ActivateDraw`, `ActivateInsert`, `ActivateRefresh` are the steps of
`activate_workspace_git_runtime`, which checks and activates in different
critical sections; the generation is drawn before the lock is taken. What git
would report is a member of `Status` that `ChangeRepo` replaces. A select between
the cancel token and a read or a sleep is a choice between going on and `GiveUp`.

**GitActivityFeed.** Every step of the coordinator is one here. `EmitToHook` joins
an emit with the hook's synchronous part; the pushes are a set, since nothing
orders them; `Push` is `on_git_updated`. The workspace id is derived from the
folder's path, so the feed's entry survives closing and reopening.

**TaskBus.** A call of `dispatch_batch` or `publish` is a record that goes through
`Check` (task id and runtime lookup), `NextChannelSeq`, for tasks `WriteTerminal`
or `WriteFails`, and after its last target `Store`. Calls run at once on the
windows' and the bridge's threads. A task is on the terminal at the step that
ends its write; a write that is rejected after its first part counts as failed,
as the code reports it. `Purge` describes what `retain` leaves by where each kept
message stood (`Without`, `Kth`).

**ExternalReplyRelay.** One terminal; binding another message replaces its
session (`Bind`), unless the text answers the prompt on the screen. `Chunk`,
`Rendered`, `Exit`, `Answer` and `Report` are what happens to the session;
`Quiet`, `Expire` and `FinalDue` are clocks that pass a limit. The flush worker
takes in turn (`TakePrompts`, `TakeReplies`, `TakeTasks`: each one critical
section) and holds what it sends in `worker.hand` until `Delivered` or
`NotDelivered`, which change the session bound by then. A text is reduced to
where it is found, a prompt to a value. One case is left out because it cannot
come about: a final text that its previews already had, without a message of a
preview to edit (`session_log_finalize_delta` gives nothing), since a preview that
is delivered has a message and one that is not is forgotten.

**ExternalInbound.** A call is a record that goes through `Interact` (answers to
prompts, then the route), `Policy`, `Allow`, `Dispatch` and `Store`, each one
critical section of the task service. `Over` is what the caller makes of its end:
200, 500, or the next message of a batch. An answer to a prompt is matched with a
reply session (`sessions`), which `Bind` puts there behind a dispatch and `Relay`, the
other direction, takes away; of the session the model keeps only the message it was
bound for, and whether it has a prompt is left open. `Webhook` is a connection of the
listener, `Fetch`, `Handle`, `Advance` are `poll_account_once`. A command is
`Change`, `Clear`, `Persist` in that order; `DeleteAccount` changes memory and
the routes of the file only; `Restart` restores from the files. `effects` counts
what was typed, `seen` what the configurations during the call would allow,
`admitted` are the messages that these let in, and `unfounded` what was typed on the
strength of none of them.

**ConnectorWorkers.** `reconcile` is `Desire` and `List`, which read what is needed and
what is enabled before the lock of the table, for feishu `Clear`, which takes the
account out of `MANUALLY_STOPPED` (`stopped`), and `Reconcile` under the lock, called by
the supervisor and by the commands. A worker is in a `Slot`; `aborted` takes effect where it waits (`Begin`, `Return`,
`Wake`), so an old worker may run on beside a new one. The branches by `channel`
are the differences of the two connectors. `Update` and `Write` are the two halves of
`update_account_runtime_state`.

**WorkspaceWatcher.** Commands run on the main thread one after the other, each
cut where another thread may see or change something in between (`OpenActivate`,
`CloseDeactivate`, `CloseRemove`, `CloseService`, `Reload`). A command that changes what
applies to the workspace is `SettingsReload` if it goes on to reload its watcher, and
`SettingsOnly` if not: it was of the session's scope, or of the user's and named
another workspace (`commands/settings/mod.rs:96-109`). A call of
`ensure_workspace_watcher` goes through `Load`, `Reserve`, `Confirm`, `Build` and
`Install`, or `Quit`, `Fail`, `Abandon`; a `Background` call was spawned by
an opening, the call `main` is a reload's, `restore` an inbound message's. The
check and the insertion of `Install` are one step: a closing that starts between
them has its removal wait for the registry's lock, so it differs from one that
starts behind them by nothing but its name.

## 3. Runs

| Run | Shows | Bounds |
|---|---|---|
| `terminal_flow` | type, `HistoryIsNewest`, `DeltaIsComplete`, `EachByteOnceInOrder`, `LatestIsKept`, refinement of `RecoveryLog`, `NothingWaitsForEver`, `ReaderEnds` | 4 bytes, reads of up to 2, channel of 2, ring of 3, batches of 2, tail of 2 |
| `git_coordinator` | type, `OneWorkerPerGeneration`, `NoRefreshIsLost`, `PublishedIsEmitted`, `RevisionsIncrease` | 2 statuses, 2 activators, 2 workers, 2 generations, requests up to revision 2 |
| `git_coordinator_live` | `RefreshIsServed`, `StaleWorkersEnd` | 1 activator, revision 1 |
| `git_feed` | `FeedIsCurrent` in the composition | one of two statuses is unavailable |
| `projection` | `NothingIsSkipped` with two free recoveries, the chain and live events | 4 frames, all held, pages of 2, 3 pages |
| `projection_chain` | the chain alone: `ShownOnce`, `ChainEnds`, with gaps, page limit and snapshots | 7 frames, 4 held, pages of 1, 2 pages |
| `task_bus` | `SequenceIsUnique`, `WrittenIsRecorded`, `LeavesForAReason`, `KeptIsStored` | 2 agents, 2 calls of up to 2 targets, log of 2 |
| `external_relay` | `OnlyARaceRemoves`, `PreviewIsOwn`, `RepliedOnce`, `EveryMessageEnds`, `PromptIsShown` | 2 messages or tasks, 1 prompt and one that cannot be read |
| `external_wait` | `WaitingTaskIsAnswered` fails, see 6 | 1 task, no prompt |
| `external_inbound` | `AdmittedOnly`, `TypedOnce`, `RejectionIsCurrent`, `OffsetIsBehind`, `EveryMessageIsSettled` | 2 calls, 2 messages when polled, 1 with a webhook, 3 route identities, 2 agents, 1 change, 1 fault |
| `connector_workers` | `OneWorker`, `ConnectedIsTrue`, `WorkersFollow` | 2 workers that have not ended, 10 attempts as in the code |
| `workspace_watcher` | `WatchedIsOpen`, `OpenIsWatched`, `ChangesAreReported` | 2 spawned calls besides a reload's and a restore's, 1 change of the settings, 1 of a file |

Why the bounds are enough. In `terminal_flow` every limit is smaller than what
flows through it: the ring and the history evict, also in the middle of a chunk;
a backlog exceeds a batch and a batch splits a chunk; the tail is cut; the
channel is full, so that creation fails, a kill's command is dropped and the
reader blocks. Four bytes let a session be shown, hidden and shown again with
output in each phase. In the coordinator two generations with two workers are
the least that lets a stale worker meet a current one at each of its places; a
third generation only adds another stale worker, and the proofs cover any
number. The projection needs two recoveries besides the queue, because the
faults are between pairs; `Held` below the number of frames forces gaps, a page
limit of two forces the fallback from paging. `projection` holds everything
the session ever has, so no snapshot is needed: the two projection runs
together say that overlap alone is harmless and snapshots alone are harmless; both
together are not, see 6. For the task bus, two calls
with two targets each, and a log of two messages, make eviction, purging, a
failing target and overlapping storage all happen. The relay needs two bindings,
because its faults are between a message and the next. The inbound calls meet in
one message (repeated by the provider) and in the configuration: one change and
one fault give every order of a command, or a restart, with the two calls;
polling has two messages so that a batch can end in the middle. For a connector,
two workers that have not ended are a current and an aborted one. Two spawned
watcher calls are the least that lets the call of an earlier opening meet that of
a later one, together with a reload and a restore.

Properties with an excuse name it as a history variable (`raced`, `excused`,
`late`, `crossed`, `unset`, `outdated`; for the feed it is the state function
`HeldBack`): the races in which the code does not keep the promise. The bounds let each of the excused races happen, and the
property without its excuse was seen to fail.

All counters that grow for ever in the code are bounded by a guard on the action
that would raise them, named as a bound in the module's CONSTANTS.
`CHECK_DEADLOCK FALSE` is set where the bounds, or a finished session, let the
model stop.

## 4. Fairness

* `TerminalFlow`: threads and the mux task run, ticks fire. A blocked
  `blocking_send` waits in tokio's semaphore, which is first-in first-out and
  which `try_send` does not overtake: strong fairness of `EofUnregister`, since
  other sessions may fill the channel again and again. Nothing is assumed of
  the shell, of requests, or of other sessions.
* `GitStatusCoordinator`: spawned tasks run, timers fire, git returns (a read
  that fails is a possible outcome), an activation that has begun goes on.
* `TerminalProjection`: the host ticks and answers, events are delivered,
  callbacks run. A failing request is allowed at every await.
* `TaskBus`: a call that began runs to its end; a terminal write returns, with
  success or failure. No agent need ever come online or answer.

* `ExternalReplyRelay`: the worker runs, requests return, clocks pass their limits;
  strong fairness of `Delivered` says that a channel that is tried again and again
  accepts in the end. Nobody need answer a prompt, and no agent need be quiet.
* `ExternalInbound`: connections and commands end, the polling worker goes on, and
  the provider repeats what has not been answered with 200. `Webhook` is strongly
  fair only because the model has a limited number of connections.
* `ConnectorWorkers`: the interval passes, threads run, an aborted task is dropped.
  A socket may stay open for ever. `List` of the supervisor is strongly fair for
  the true answer: the file cannot be in the middle of a write at every tick.
  `WorkersFollow` asks of an account that is not wanted that it stay so for one
  reason, not needed or not enabled: under the same fairness, one that is disabled
  whenever it is needed may keep a worker for ever, because `reconcile` reads the two
  one after the other.
* `WorkspaceWatcher`: the timer of a batch ends once no event resets it.

## 5. What is proved

Every safety property that a run checks is a theorem. The proofs need no bound: the
capacities, the numbers of workers, calls, messages, agents, generations and
statuses, and the bounds of the model too, are any that satisfy the named
assumptions of the modules. Each proof module states the inductive invariants it
uses before their proofs, piece by piece; TLC checked them first. Then come the types,
lemmas on what one action does to one piece, a lemma per piece of the invariant
with a step per action, and the theorems.

**`TerminalFlow_proofs`**: `TypeCorrect`, `HistoryIsNewestCorrect`,
`DeltaIsCompleteCorrect`, `TerminalFlowImplementsRecoveryLog`, `BytesCorrect`,
`EachByteOnceInOrderCorrect`, `LatestIsKeptCorrect`. Assumptions: the
capacities are positive, and a read or a batch fits the history
(`FrameFitsAssumption`; 4 KiB and 64 KiB against 32 MiB in the code):
otherwise `push_frame` would evict the frame it has just added. The inductive
invariant is `HistoryInv`: the types, the history numbered `seq - n + 1 .. seq`
with `log` as witness of what each frame was, and `ChunksFit`, that every chunk
on its way to the history fits it; without `ChunksFit` the newest frame could be
evicted and the numbering would not be preserved. `PushFrameKeepsNewest` is the
central lemma. `DeltaIsComplete` then follows in every state from `HistoryInv`:
`DeltaAnswers` shows that the loop of `read_delta` has an answer, by taking the
least frame after the cursor and the greatest that fits, and `PageIsComplete`
that it holds every frame in between. The refinement maps the abstract entries
to `log` and the abstract front to `seq - Len(frames) + 1`.

The two properties about bytes rest on `ByteInv`, which follows the stream from the
reader to the events. `Waiting` is about the channel: the chunks in it are the stream
from what was absorbed to what was produced (`QueueIsStream`, with a place in the
stream for each command as witness), and a session is registered before anything
else is sent about it (`RegisterIsFirst`). Without the second, a registration could
follow an unregistration and the stream be absorbed from its middle. `StartsAnew` says that a session without
state has none left over. `BytesInv` is about the mux task: every absorbed byte is
once in `log` or `pending` (`AbsorbedIsKept`), what was emitted *and then what waits*
is in order (`ShownInOrder`; the order of the events alone is not inductive, since a
tick emits what waited), nothing is unread while the session is shown (`HiddenOnly`;
`UnreadIsNewest` needs it, since a batch is a frame that need not be the newest
output), and the ring holds the last bytes, in chunks that are not empty
(`RingIsNewest`; a snapshot that selects an empty chunk would be empty).
The lemmas below it say what the byte operators do for every capacity and every way
of cutting the stream into chunks: `PushKeepsNewest`, that `push_chunk` with its trim
keeps the last bytes of the old ring and the new chunk, and `SnapshotIsEnd`, that a
snapshot is an end of the ring, all of it when asked for that much. They need
inductions on sequences of chunks, each done by a least counterexample (`LeastNat`),
because the induction theorems of the library cannot be instantiated here.

**`TerminalProjection_proofs`**: `GeneralCorrect` and `TypeCorrect` for any set of
recoveries, `ShownOnceCorrect` for the chain alone (`Recovery = {}`),
`NothingIsSkippedCorrect` for any recoveries under `Roomy`: the history holds the
session and the pages of one recovery span it. The two hypotheses are those of
the two runs, with every size left open; that recoveries beside the chain *and*
snapshots together skip frames is a counterexample, see 6, so neither can be
dropped. `General` relates what is on its way to the host: cursor, events, chain
and targets are frames the host has, and a page is what `read_delta` could answer
to the task that holds it (`PageFits`), although the host goes on meanwhile.
`AloneInv` adds that the queue's task goes on from what is shown
(`QueueGoesOn`), that beyond the cursor only previews are on the screen
(`BeyondIsPreviewed`), and that the last event is shown or last in the chain
(`LastIsComing`). `RoomyInv` adds that a task's cursor is covered by the screen
and that page `p` begins at `(p - 1) * PageMax` or later, so that the page limit
is not reached before the end of the session.

**`GitStatus_proofs`**, the coordinator: `TypeCorrect`,
`OneWorkerPerGenerationCorrect`, `NoRefreshIsLostCorrect`,
`PublishedIsEmittedCorrect`, `RevisionsIncreaseCorrect`. The inductive invariant
`GInv` strengthens the checked invariants by

* `Structure`: workers of one generation are the same worker (`WorkersApart`),
  the entry's generation is drawn, neither cancelled nor still in a caller's
  hands (`EntryIsCurrent`), generations drawn but not inserted are different,
  fresh and have no worker (`DrawnIsFresh`, `DrawnApart`), cancelled ones were
  drawn, and the entry is scheduled exactly while its generation has a worker
  (`ScheduledIsWorked`);
* `ReadIsFreshOrDirty`: a dirty entry has its worker, and a worker about to publish
  holds the current status unless the entry is dirty again. `NoRefreshIsLost` alone
  is not inductive, because the read and the publication are different steps;
* `PayloadIsNext`: a payload on its way is newer than what its generation emitted
  and, while its entry stands, is the entry's revision. `RevisionsIncrease` and
  `PublishedIsEmitted` both rest on it.

The same module proves of the composition `FeedHasCoordinator`, that every
behaviour of `FeedSpec` is one of the coordinator (so the invariants above hold
in it), and `FeedIsCurrentCorrect`. Its invariant `FInv` says that no push and no kept
snapshot is ahead of the newest of its generation (`PushesAreNotAhead`,
`SnapshotIsNotAhead`), that this one was emitted (`NewestWasEmitted`), and that the
newest of every generation is on its way, kept, or held back by another
(`NewestArrives`): a push that the feed ignores met a snapshot of its own generation
that is not older, or one of another that has gone as far.

**`TaskBus_proofs`**: `TypeCorrect`, `SequenceIsUniqueCorrect`,
`WrittenIsRecordedCorrect`, and the action property `LeavesForAReasonCorrect`.
`SequenceIsUnique` speaks of the log and is not inductive: a number is drawn in
one critical section and stored in another. `Numbering` says of every number in
the log or in the hands of a call that it was drawn and that nothing else bears
it. The lemmas on `Purge` and on eviction say what a filtered sequence is, by
counting the kept positions up to each one (`Upto`).

**`ExternalReplyRelay_proofs`**: `TypeCorrect`, `OnlyARaceRemovesCorrect`,
`PreviewIsOwnCorrect`, `RepliedOnceCorrect`. The worker changes the session that it
finds after a delivery. `HandIsOwn` says that this is the session whose text was
delivered or one that was bound meanwhile, `PreviewInHandIsOwn` the same of the
message that a preview edits, `SessionIsOpen` that a bound session has no final
reply yet.

**`ExternalInbound_proofs`**: `TypeCorrect`, `AdmittedOnlyCorrect`,
`TypedOnceCorrect`, `RejectionIsCurrentCorrect`, `OffsetIsBehindCorrect`. The
invariant `IInv` has a part for each. `Access`: what a call may have read is
in the history `seen` of its call, and so is the policy it goes by, so that a call about
to dispatch was let in. `Conversations`: every reply session of the chat was bound for a
message let in. `AdmittedOnly` alone is not inductive: an answer is typed before its own
call reads anything, and what it goes through may be bound many calls before. `Once`: two
calls for one message have a known cause, what was typed is in the cache or about
to be. `Current`: a call that no command overtook goes by the present
configuration, and so is its rejection; this is why the order of `Change` and
`Clear` matters. `Behind`: what is before the next message of a batch is settled.

**`ConnectorWorkers_proofs`**: `TypeCorrect`, `OneWorkerCorrect`,
`ConnectedIsTrueCorrect`, from `AliveIsHandle`, that only the worker in the table
is meant to run, and for the mark from where a feishu worker can be
(`FeishuHoldsSocket`).

**`WorkspaceWatcher_proofs`**: `TypeCorrect`, `WatchedIsOpenCorrect`,
`OpenIsWatchedCorrect`. `ClosingIsInactive` follows a closing through its halves;
`ReservationIsHeld` and `WatcherIsComing` say that while a workspace is open some
call, command or reservation leads to its watcher, `SettingsAreFresh` that the
reservation carries the settings that apply, unless they were changed without a reload
(`outdated`). `OpenIsWatched` is `WatcherIsComing` at
rest.

The assumptions on constants, besides the two of `TerminalFlow`, say that numbers
are numbers and positive where a size of the code is, and that "none" values are
not members of the sets beside which they stand. TLC evaluates all of them on the
runs.

Only model-checked: liveness, which is out of the prover's reach, as is ENABLED.
Loops of the code are
described by what they return (the first and last frame of a page, the bytes a
trim cuts), so no module needs recursion.

## 6. Disagreements with the documents

`external_wait` is a run that must find the violation: who waits for a task with
`gto send --wait` never gets what the agent's terminal showed. The pass for chat
channels looks at the sessions of waiting tasks too, stamps
`last_finalize_attempt_at_ms`, and has its candidate rejected; the pass for tasks
comes second, finds the attempt too recent, and so every time. Only an explicit
report of the agent ends the wait (`app_state.rs:1473-1480`, `1661-1665`,
`channel_sinks.rs:144-172`; `docs/ARCHITECTURE.md:273`). The test of the task
pass calls it alone (`app_state_tests.rs:386`).

Seen while modelling, with counterexamples of TLC but without a run of their own:

* Hiding a session while output waits for the tick puts newer output into the
  recovery history first, so a recovery page may be out of order
  (`lib.rs:617`, `630`; `docs/API_CONTRACTS.md:94` calls it an ordered page).
* Output that waits when the shell ends is discarded with the session's state
  (`lib.rs:826`), although the comment at `lib.rs:83` says bytes never are.
* `ByteRingBuffer::snapshot` takes whole chunks from the end until what is left
  fits `maxBytes`, so an answer may leave bytes out and yet be shorter than
  `maxBytes`, while `truncated` is computed from its length
  (`lib.rs:579-588`, `commands/terminal/mod.rs:147`, `docs/API_CONTRACTS.md:88`).
* A shell that ends before `create_session` lists its session is removed first and
  listed afterwards; `terminal_has_session` then calls it alive
  (`lib.rs:1523`, `1543`; `docs/API_CONTRACTS.md:92`).
* An older snapshot of one recovery moves the cursor back while another awaits a
  later page; the page is appended, and the frames in between are stale for ever
  (`useShellTerminalController.ts:2289`). A page that was requested before live
  events were appended is appended again after them (`2225-2230`): `ShownOnce`
  is therefore stated for the chain alone.
* An immediate refresh that arrives while a worker debounces neither ends the
  sleep nor survives it: the flag is read only at the top of the loop and cleared
  at its end (`status_coordinator.rs:187`, `218`, `240`).
* A reopened workspace restarts at revision 1 and the feed ignores it until it
  passes the revision of the earlier opening (`change_feed.rs:24`;
  `docs/ARCHITECTURE.md:189`): the excuse `HeldBack` of `FeedIsCurrent`.
* An answer can be stored before the instruction it answers; the thread is then in
  the order, and the state, of a task that was not answered
  (`gt-task/src/lib.rs:1254`; `tests/lib_tests.rs:576`).
* Calls of the webhook for the same message that overlap both dispatch it, and a
  command that clears the cache lets a repeated message in again
  (`tool_adapter/mod.rs:2505`; `docs/CHANNEL_CONNECTOR_RELIABILITY_PLAN.md:266`
  says "Duplicate inbound message is ignored").
* Deleting a channel account takes its policy and allowlist from memory but only its
  routes from the file: a restart brings the rest back
  (`tool_adapter/mod.rs:3023-3053`).
* An aborted connector worker may mark its account as connected afterwards
  (`feishu/websocket.rs:164`, `wechat/mod.rs:524`; the plan's line 59 says such
  workers are marked disconnected), and one that notes the outcome of an attempt
  writes the whole record back, undoing a change made meanwhile
  (`wechat/mod.rs:370`). Attempts of feishu are forgotten at each start, so its
  limit is never reached (`websocket.rs:241`).
* A restore that activates in the middle of a closing leaves a watcher on a closed
  workspace (`tool_adapter/mod.rs:514`). An ensure that gives up on what it saw
  before a reopening leaves the reopened workspace unwatched
  (`filesystem_watcher.rs:158`), and a reload may give way to a call with the old
  settings (`app_state.rs:673`).
* A user setting that is changed with a `workspace_id` is merged into the settings of
  every workspace (`gt-settings/src/lib.rs:211-221`, `260-264`), but only the watcher of
  that one is reloaded (`commands/settings/mod.rs:103-106`): the others keep the old
  settings until they are reloaded for another reason.

## 7. What is not modelled

* Terminal: write and resize, state events, the 500 ms limit on waiting for
  answers, and the lock of the session map (`write_session` holds it during a
  PTY write). Projection: switching workspaces with its caches, launching,
  decoding, other stations.
* The coordinator's `git status` itself, and what its fields mean.
* Change feed: the activity items, which are computed from two snapshots.
* Task service: pairing codes and when they expire, provider sessions, the
  directory; several workspaces (channel numbers are shared between them); the
  text of a task.
* Relay: extraction of replies and prompts from a screen or a log, the parts a long
  text is cut into, the providers' calls. Other terminals, since sessions of two
  terminals share nothing.
* Inbound: a group chat. A reply session is matched by channel, account and peer, not by
  sender (`app_state.rs:1219`, `1259`), so a member of the group whom the policy would
  turn away can answer the prompt of a conversation that another began. The model has
  one sender with a chat of his own, and its `AdmittedOnly` does not speak of this.
  Parsing and signatures, the rate limit, pairing codes, opening a
  workspace by its persisted route (only its effect, in `WorkspaceWatcher`). The
  channel state file is read and rewritten by each command without a lock, so two
  commands at once may lose one of their changes; the model has one command at a
  time.
* Connectors: login dialogues, tokens, telegram's choice of mode, and the wechat
  buffer that plays the part of an offset.
* Workspace: bindings of windows, the choice of the active workspace, what a batch of
  changes contains.
* Daemon terminals: see 8. Agent sessions: one column of a table, changed by single
  statements.
* Pure I/O, conversions, presentation: git commands, files, settings, storage,
  parsing of logs, React components: most of the lines of the repository. They have
  no concurrent state of their own; a model would restate the code.

## 8. Plan

In order of importance.

1. Done: terminal, projection, coordinator, feed, watcher, task bus, inbound
   pipeline, reply relay, connectors, with their runs, and proofs of all their safety
   properties.
2. `TerminalSessions`: the session map's lock, blocking writes, state events,
   answers that come after their timeout; composes with `TerminalFlow`.
3. Workspace switching in `TerminalProjection`; the daemon's terminals; the rate
   limiter.
