# AgentMe in TLA+

AgentMe is a desktop assistant whose host process delegates coding work to
command-line agents in git worktrees, supervises them, schedules work for later
and answers over a local HTTP interface and a QQ channel. This directory models
the parts of the host that decide what work exists, who may do it and what is
said of it afterwards, checks the models with TLC and proves the most important
results with TLAPS.

Paths below are relative to the repository. `PROJECT.json` holds the runs, the map
from definitions to source lines, the hazards, the findings and the theorems.

## 1. Inventory

The host is one Node process: JavaScript between two `await`s runs to completion,
so interleaving happens at awaits, and the hard behaviours are what other requests,
timers and child processes do between them, what a process death does between two
SQLite transactions, and what a restart finds.

| Component | State it keeps | Operations | What is hard | What makes it correct | Status |
|---|---|---|---|---|---|
| task store (`packages/task-orchestrator/src/task-store.ts`, `state-machine.ts`) | rows with state, lease owner, version, expiry; outbox of events | create, acquire and release a lease, transition, append | stale executors, takeover at expiry, row and outbox in step | one accepted lease, no stale append, outbox tells the state, outcomes are final | partly: `markEventDelivered` and `listPendingEvents` have no caller but tests; proved |
| task orchestrator (`orchestrator.ts`, `coding-task-runner.ts`) | `#active`: controller and lease of each run | submit, cancel, stop, `#run` | abort racing completion, lease shorter than the run, stop over several tasks | every task settles, stop cancels all, implements `TaskLifecycle` | modelled, proved but liveness |
| worker turns (`apps/host/src/task-worker-session.ts`) | `#activeChildren`, events in the outbox | continue | a turn and a run, or two turns, in one worktree; failure between events | one executor, well-formed and evidenced conversations | modelled; exclusion proved |
| assistant supervisor (`packages/assistant-supervisor/src/supervisor.ts`, `orchestrator-dispatcher.ts`, `supervisor-graph-store.ts`) | parents, children, worker of each child | createPlan, refresh, cancelChild, synthesize | several pumps at once, crash between dispatch and its record | no doubled or orphaned worker, final graph, every child settles | modelled |
| scheduled jobs and standing intents (`packages/automation-runtime/src`) | two tables | schedule, cancel, create, claim, match, record | stale snapshot of due jobs, chain reactions of intents, stop and crash between claim and record | a job runs at most once, intents keep budget and cooldown, rows name their own plan | modelled |
| host (`apps/host/src/server.ts`, `main.ts`) | the components above, timers, shutdown signal | start, stop, signals, routes | order of stop, requests while closing | see the parts | partly |
| agent office (`packages/agent-office/src`) | one snapshot of tasks, in memory and in a file that is replaced as a whole; `#active` | create, complete, cancel, retry, delete, handoff, drain, run, shutdown | requests while a model call is pending, a save that fails inside `run` or `shutdown`, crash during a call | running means called, two calls at most and one per agent, called only when asked, oldest first | partly: all but `configure` |
| settings managers (`apps/host/src/*-manager.ts`) | one JSON file with three sections, secrets, approvals, the Codex policy | configure, activate, save | three writers read, merge and rename one file over awaits; a change ends half-way | nothing is in force, or may come in force by a restart, that was not granted | modelled |
| policy engine (`packages/policy-engine/src`) | approvals | decide, record, findValid | expiry, approvals bound to task, kind and target | as above, for full access | modelled |
| QQ channel (`plugins/channel-tencent/src`, `tencent-channel-manager.ts`) | the owner, the channel, requests, deliveries | configure, bind, close, message, submit, cancel, flush | channels replaced under way, repeated messages, crash between submit and note, send and mark | one channel, one task per message, results in order, tasks of the owner only | partly: no pairing codes, texts, transport |
| skill workshop (`packages/skill-workshop/src`) | proposals, owned skills, files | propose, evaluate, decide, apply, rollback | file rename and transaction are two steps; edits by hand | what is active was approved, edits are kept | modelled |
| coding runtimes (`plugins/runtime-codex`, `-claude`, `-pi`), verifier | a process, its lines, `#active`, the worktree | run, abort, read, exit, snapshot, verify | lines, exit, abort and failure in any order; a later turn in the same worktree | no stray process, changes are reported, a turn completes with the verification it had, aborts end | partly: no command lines, event formats, fake runtime; verifier modelled |
| sessions and conversations (`session-store.ts`, routes of `server.ts`) | sessions, messages, connections | ask, speak, delete, purge, stream, stop | answers that come after the session changed; a stop that waits for streams | deleted stays deleted, answers follow questions, a stop ends | partly: a text is one of its classes |
| memory and dashboard (`plugins/memory-core/src`) | memories and their index; one encrypted file and its key | create, update, forget, search, record; list, create, update, delete, deleteAll | two stores per record, overlapping saves, crash after completion | records are what the saves made them, search agrees, an experience per completed task | partly: no retention or export |
| plugin system (`packages/plugin-system/src/registry.ts`) | record, operation chain, instances | discover, enable, start, stop, disable | operations overlap, providers throw | the record tells what runs | partly: no manifest validation |
| desktop pages (`apps/desktop/ui`) | voice and wake loop, office page, workbench, task rail, panels of automations, skills, memories and dashboard | clicks, timers, polls, forms, streams | answers that come back to a page that has moved on | see section 3 | partly: no editors, no settings panels, no layout |
| desktop shell (`apps/desktop/src-tauri/src/lib.rs`) | host slot, event loop, threads | launch, start, quit, exit, stop_host | three callers stop one host; the desktop exits under one of them | a desktop that is quit leaves no host, and quits | partly: no windows, autostart |
| report builder, migrations, workspace manager, platform runtime, model provider, contracts, operator page, scripts | | | external commands, I/O, validation, presentation | | not modelled (section 5) |

How they interact: an HTTP route, a QQ message, the 50 ms automation timer or a task
event makes the supervisor create a plan; its pump submits each child to the
orchestrator, which runs it through the store under a lease; clients poll the
supervisor, which observes the store and records outcomes in its graph; task events
go to subscribers, one of which is the handler of standing intents. The stores share
no transaction: each arrow is a place to crash. The desktop starts the host, stops it, and
speaks to it over HTTP only; the settings decide which model provider, QQ owner and Codex
policy the host works with.

## 2. Modules

| Module | Models | State and actions |
|---|---|---|
| `TaskStore` | the store and its state machine | `task` is the table of tasks, `log` its outbox, `issued` every lease ever handed out (history); one action per transaction, and `Tick` for the clock |
| `MCTaskStore` | caps for TLC | bounds on clock, versions, outbox |
| `TaskLifecycle` | abstract: what observers of tasks are promised | `phase`, `owned`, `up`; submit, settle, retire, host down and up |
| `TaskOrchestrator` | runs, worker turns, cancel, stop, crash, restart over `TaskStore` | `run` and `turn` are the program points of `#run` and `continue`, `lease`, `aborted` the entries of `#active`, `host` the process, `toCancel` the loop of `stop()` |
| `AssistantSupervisor` | supervisor and graph over `TaskLifecycle` | tables `parent`, `child`, `worker`; `chain` is the call in progress for each parent with the values it read before an await |
| `MCSupervisor` | plans for TLC, symmetry of parents | |
| `Automation` | scheduler, intents and the host's two loops | tables `job`, `intent`; `events` is the promise chain, `loop` where drain and handler are; `origin` and `fires` are histories |
| `AgentOffice` | the office, its timer and routes | `officeTask` and `order` are the snapshot, `active` is `#active` with whether the call was aborted, `officeTodo` what the drain under way has still to look at, `officeProcess` the process; `calls` is a history |
| `PolicyEngine` | the policy decision and `findValid`, as operators | no state: `EvaluatePolicy` over inputs and approvals |
| `HostSettings` | the three managers over one file, full access and Codex | `settingsFile` the file, `settings` what each manager holds, `change` the head of its `#changes` and which await it is at, `codexPolicy`, `codexRuns`, `secrets`, `approvals` |
| `ChannelPromise` | abstract: what the QQ channel promises | `owner`, `tasks`, `noted` and `told` by message, `waiting` results; take, tell, commit, deliver the oldest |
| `QQChannel` | the channel manager and the plugin | `manager` its change or close, `channel` every channel of the process, `current` the one in use, `results` and `flush` the delivery loop, `requests` the notes of tasks, `replies` answers on the way |
| `SkillWorkshop` | proposals of one skill | tables `proposals`, `ownedSkill`; `skillFile`, `evaluating` the evaluations under way |
| `CodingRuntimes` | one worker, its backend and its turns | `run` is the generator's program point, `worker` the process, `pipe` its unread lines, `stray` earlier processes, `files` the worktree against HEAD, `turn` what consumes the events |
| `PersonalDashboard` | requests over the encrypted file | `dashFile`, `dashKey`, and in `dashRequest` the await each request is at with what it loaded; `entriesKept`, `overlapped` are histories |
| `OwnerMemory` | files and index of memories, experiences | `memFile`, `memIndex`, `effects` what the call under way has still to write; `cut`, `forgotten` are histories |
| `AssistantConversation` | sessions, the routes of typed and spoken messages, streams, stop | `session` the tables, `talk` the await of each connection, `convWork` the tasks a stream follows, `convHost` |
| `PluginRegistry` | one plugin | `record`, `queue` the operations chained on it, `up` and `instances` its providers |
| `DesktopVoice`, `DesktopOffice`, `DesktopWorkbench`, `DesktopRail` | the pages of the desktop with asynchronous state | one variable per variable of the page that an await can outlive, and one per request under way |
| `DesktopPanels` | a panel that lists items of the host, one list and one item of it | `hostItem` is the item at the host, `listed` how it is shown, `signature` what was rendered last, `button` its button, `panelReads` and `panelActs` the reloads and actions under way, `refreshTimer`; `closedEarly` and a button's `clicks` are histories |
| `DesktopShell` | the desktop process and its host | `hostSlot` is `DesktopState.host`, `stopper` each thread in `stop_host`, `mainAt` what the main thread calls it for, `hostChild` the processes; `orphans` is a history |
| `MCComponents`, `MCLive` | the modules above, one to a behaviour | `part` names the module whose actions a behaviour takes; `Others` keeps the rest as it began |
| `TaskStoreProofs`, `TaskOrchestratorProofs`, `AssistantSupervisorProofs`, `AutomationProofs`, `HostSettingsProofs` | theorems about the module they extend, `HostSettingsProofs` also about `QQChannel` | |
| `ExtensionProofs`, `DesktopProofs` | theorems about `SkillWorkshop`, `PluginRegistry` and `CodingRuntimes`; about the `Desktop` modules | |
| `ComponentsProofs` | theorems about office, dashboard, memories and conversations, and with all of the other components' of their sum, `MCComponents` | |

`TaskOrchestrator` extends `TaskStore` and its every step is a step of it
(`UsesStore`); it implements `TaskLifecycle` (`LifeSpec`), which is all that
`AssistantSupervisor` knows of it. `QQChannel` implements `ChannelPromise`
(`ChannelKeepsPromise`). `HostSettings` extends `PolicyEngine`. The other
components share no state with each other that the model keeps, so `MCComponents` and
`MCLive` do not compose them but add them up: a behaviour chooses one and runs it, and a
run explores the sum of their state spaces instead of the product. `MCLive` states the fairness
of each part for the behaviours that chose it.

Abstractions that a reader should know:

- *Run to completion.* A synchronous stretch of several transactions is several
  steps, and no other step but the death of the process comes in between (`Quiet`,
  `Turn`, `MayRun`).
- *Submitting a task* creates it in one stretch; the events `planned`, `queued` and
  `preparing_workspace` are one step each, and a worktree is prepared or not.
- *Leases* live `LeaseTtl` ticks, versions count. `MayLose` in the supervisor stands for
  a run whose lease expired.
- *Supervisor chains.* Everything a chain awaits is already settled, so the chains of
  one request finish before the next request; those of the list request, which
  refreshes a page of parents under `Promise.all` (`server.ts:736`), interleave at every
  await, after all of them have started. Two chains of one parent do not overlap.
  The host plans one child per parent; the supervisor accepts 16, and `MixedPlans`
  has a parent of two. Errors of `submit` are not modelled. The rows a loop has yet to
  visit are a set, `todo`, of which it takes the one that stands first in the plan:
  the order of `listChildren` (`ordinal`).
- *Observation* merges failed, rejected and timed out, as `dispatcher.observe` does.
- *Automation loops.* Drain and handler work on different tables; a stretch of one is
  not cut by the other. Due jobs are taken in any order (the code's is by time and id)
  and a batch is `MaxBatch` (10 in the code). The production audit sinks are
  synchronous; the option allows promises (`server.ts:154-176`), which is `AuditWaits`.
  A task of a QQ sender has the actor `qq:<sender>` and never fires an intent; all
  others act for the owner. Tool lists always match: the host asks for `task.create`
  and stores exactly that. A database error in a loop ends the process: a crash.
- *Office.* Memory takes over a snapshot after the file was replaced, so one variable
  stands for both. A drain is one stretch, as is what an aborted call does until its
  entry is deleted. A save that fails rejects a run that nobody awaits: the host
  installs no handler for that, so the process ends once the stretch is over. `blocked`
  is modelled as `failed`; a missing model does not occur, since `main.ts` always gives
  one. Times are due or not.
- *Settings.* A section is told apart by its active profile. A save is the read of the
  whole file and the rename; the temporary file has a name of its own. `MaxOverlap` changes
  are under way at once.
- *QQ.* A message is its sender and its id, and QQ delivers it as often as it likes.
- *Skills.* There is one skill; a file is one of the contents, or edited by someone else,
  or missing. A scan is a test of the content.
- *Runtimes.* A line is the coding event that the adapter makes of it; the adapters are
  functions from the CLIs' events. A file is clean, edited in one of two ways, or
  committed. A worker may edit, write lines, exit or hang at any time. `turn` stands for both consumers of
  a run: turn 1 is the task's own run in `CodingTaskRunner`, which fails unless its verification
  passed, and the turns after it are those of `TaskWorkerSession`, which complete and record what the
  verification found (`VerificationEnds`).
- *Dashboard and memory.* Entries and memories have an id and a value. A file whose key
  is not the one in the credential store cannot be read. A memory's call is a list of
  effects of which a crash or a failure leaves a prefix. A search looks at the twenty newest
  rows that match; in the model all of them fit. It parses the file of each, and one that
  cannot be parsed fails it for all.
- *Conversations.* The patterns that sort a text are one choice of its topic; a provider,
  a tool or a model answers, fails or is aborted. A `stop()` whose cancel throws
  (`server.ts:425`; the cause is finding 1) ends the process by an unhandled rejection, before the
  requests are aborted: the same as a crash of a host that is up (`RestartHost`).
- *Pages.* The page and the host are two processes; what a request carries is fixed when
  it is sent. Rendering is left out: what a page shows is the value it would render.
- *Shell.* `stop_host` takes the host out of its slot under a lock, tells it to end, waits
  three seconds and kills it. The main thread cannot take events while it is in it.

## 3. Runs

Passing runs are exhaustive; a run with `FairSpec` checks liveness.

| Run | Bounds | Shows |
|---|---|---|
| `TaskStore` | 1 task, 2 writers, clock 0..2, 2 versions, 7 events | one active writer, no stale append, no takeover, outbox, report and state agree (`OutboxFaithful`), terminal states final. Tasks do not interact in the store; two versions and an expiry within the clock give takeover, renewal, release and every stale use |
| `TaskOrchestrator` | 2 tasks, a turn writer, leases of 2 in a clock 0..3, crash, late submits | stop cancels all or fails, one executor, conversations of turns are well formed and evidenced (`TurnsFaithful`), refinement of `TaskStore` and of `TaskLifecycle`. Two tasks are needed for a stop whose first cancel throws; the clock lets a lease expire within a run and within a turn |
| `TaskReliable` | 2 tasks, lease outlasts the clock, no crash | with leases that last, every task settles, every cancelled run and turn ends, live tasks have executors, through stop and restart |
| `TaskCancelStuck` | 1 task, lease can expire | **violated**: finding 1 |
| `TaskRestart` | 1 task, crash | **violated**: finding 2 |
| `Supervisor` | 3 parents, 1 slot, requests of 2 parents, crash, failing records; symmetry of parents (no liveness in this run) | no doubled or orphaned worker (`WorkersAreTracked`), evidence, overshoot, finality. Two parents compete, a third is left waiting |
| `SupervisorLive` | parents of 2 and 1 children, 1 slot | every child settles, every parent completes (`PlansSettle`) |
| `SupervisorConcurrency` | as `Supervisor`, no failures | **violated**: finding 3 |
| `Automation` | 2 jobs in one batch, 1 intent with 2 fires, 1 delegated task, clock 0..2, crash, waiting sinks, throwing plans | jobs run at most once, intents keep their terms, rows name their plans (`KeepsTerms`), stop ends claims. Two jobs let one be cancelled while the other's audit is awaited; two fires let a chain reaction start |
| `AutomationLive` | 2 jobs in batches of 1, 2 intents, no crash | claims are recorded before the process ends, due jobs are claimed, the queue is emptied (`AutomationGoesOn`). Two intents let the second be cancelled while the first's audit is awaited, so that the handler throws |
| `Components` | see below, one bound per part | the safety of the fifteen parts of `MCComponents` |
| `Live` | see below | the liveness of the seven parts of `MCLive` |

The parts of `Components`, what bounds them and what is checked of each:

| Part | Bounds | Properties |
|---|---|---|
| office | 3 tasks, 2 agents, 2 slots, 1 retry, crash, failing saves: two agents compete for slots and two tasks for one agent | `OfficeCallsAgree`: running means called, calls within limits and asked for. `OldestFirst` |
| settings | 1 Codex run, 2 changes at once: each pair of the three managers overlaps | `GrantsPrecedeSettings`: full access, a provider or a channel is in force, or in a file or a save that a restart could read, only after it was granted |
| QQ channel | 2 users of whom one writes, 2 channels, 1 message delivered at will, 2 results in one flush: an owner is replaced while his message is handled, and the first of two results is not sent. That a flush takes the oldest of more is proved (`BatchIsOldest`) | `ChannelKeepsFaith`: one channel, one task for a message, results in order. In `OwnersWordStands`: it implements `ChannelPromise` |
| skill | 3 proposals of 3 contents, one of them critical, 2 evaluations: one is applied over another and rolled back | `ActiveWasApproved`. In `OwnersWordStands`: edits are kept |
| runtime | 3 backends, 1 file, 1 unread line, 2 turns, 1 command: a second turn meets what the first left | in `NothingIsLeft`: no stray process, changes reported. In `OwnersWordStands`: a turn completes only with the verification that its commands and the abort gave it (`CompletesAsVerified`) |
| dashboard, memory | 2 requests, 1 value, 2 ids and keys; 2 memories, one with three dashes in its id, 1 task | `OwnersRecordsAgree`: saves that do not overlap are kept; a search that is answered finds what the files say, and one that is not has met a memory that cannot be parsed; experiences are recorded |
| conversation | 2 connections, 1 session, 2 questions, 1 plan: a session is deleted and purged under two answers. Speech takes the route with a fallback, whose aborted calls fail as the other route's do; `Live` takes both | `ConversationHolds`: answers follow questions, the model sees the question. In `OwnersWordStands`: deleted stays deleted |
| registry | 2 providers, 3 queued operations | `RecordTellsProviders` |
| voice, office page, workbench, rail | 2 recordings answered; 2 assistants, 2 changes; 2 workers, 2 reads; 1 task | `DesktopShowsWhatIs`: muted is silent, one answer and one turn awaited, drafts stay apart, stale answers are dropped, followed to the end |
| panels | 4 lists (memories and dashboard entries are alike), 2 reloads and 1 action at once: a reload lands between the two clicks, or while the action is on its way | in `DesktopShowsWhatIs`: what is carried out was confirmed as it was shown and still fits (`ActsAsConfirmed`), buttons come back, a closed panel is quiet |
| shell | 2 launches, 2 threads | in `NothingIsLeft`: a desktop that was quit has stopped its host |

`Live` has an office of 2 tasks and 1 slot, so that one waits for the other, 1 turn of each
runtime, 1 connection that asks 3 times and may open a stream, 1 recording, 1 assistant,
2 launches, and the two lists of the automations with 2 reloads at once. It shows that queued tasks run, that what is stopped ends (an aborted run, a
host with open streams, a recording, a quit desktop), and that the office page and the automations' panel catch up
(`PagesCatchUp`).

`CHECK_DEADLOCK FALSE` throughout: the program may idle for ever, and the clock and the
ids run out by bound. Every property has a mutant, a plausible bug in a mapped
definition, that TLC catches under the same configuration; the mutants stand before the
definitions they change, marked `Mutant`, and no specification uses them. A property that
joins several promises (such as `OwnersWordStands`) has one mutant in `PROJECT.json`; the
modules keep a mutant for each of its conjuncts, and TLC catches each of them too.

### Fairness

- *Orchestrator:* the event loop runs every ready continuation (weak fairness of the
  program points), a runtime ends, and a process that is down is started again. That a
  runtime ends is an assumption about the command-line agents: nothing in the code limits
  their time. An abort kills the process tree, so a cancelled run unwinds.
- *Supervisor:* chains go on; clients poll every parent again and again (the event
  stream of the interface refreshes every 20 ms), which is strong fairness because a
  request waits for the ones before it; workers settle, which is `EveryTaskSettles`.
- *Automation:* the timer fires every 50 ms, so a drain that is possible again and again
  is started, and one started again and again makes its first claim (strong fairness of
  `StartDrain` and `ClaimJob`); stretches, waiting sinks, a stop and a restart end (weak).
- *Office:* the timer fires every second, so a drain that is possible again and again is
  started; a call ends, since the office aborts it after two minutes; a restart follows a
  stop. `QueuedTaskRuns` is promised only if the process in the end stays up.
- *Runtimes:* the host reads, its timers go off, and a process that is killed dies. No
  worker is assumed to write, exit or obey, and no abort is assumed to come.
- *Conversations:* each await of a handler ends, since providers, tools and the model have
  time limits, and so does a client whose body does not come, since Node ends its request;
  a cancelled task ends, which is `ExecutorsEnd`.
- *Pages:* timers fire; the host answers, and not every poll fails (strong fairness of the
  poll that lands). For the automations' panel that is `PanelFairness`: the interval of two
  seconds fires, the host answers, and some reload lands again and again.
- *Shell:* the event loop takes the exit it was asked for, and `stop_host` goes on with its
  deadline. Weak fairness suffices.

### Findings

1. A cancel after the lease expired (ten minutes, never renewed) aborts the work and
   leaves the task `running`: `cancel` transitions with the stale lease, which throws.
   `tasks/todo.md:700` promises a visible terminal outcome.
2. A restart resumes no queued task (`SPEC-agentme-mvp.md:213`): the new orchestrator
   starts empty and nothing reads the store.
3. The supervisor's limit of two workers (`SPEC-agentme-mvp.md:158`) is exceeded when
   one request refreshes several parents. `OvershootBounded` says by how much.

Seen while modelling and kept out of the properties, or excepted in them by name:

- `supervisor.ts:124`: cancelling a child whose worker has completed since the last refresh
  records `cancelled` and drops the report; nothing says which is right.
- `coding-permission-manager.ts:198`: when a save fails the former policy is put back,
  which Codex refuses while a run goes on: full access then stays in force, unsaved, for
  later runs. It was approved, so `GrantsPrecedeSettings` holds.
- `runtime-codex/src/process-controller.ts:54`: an abort that comes before Codex is spawned is not
  heard by the listener, which is added afterwards and looks at no signal: that run works on until
  its stream ends. And without an abort, after an invalid line or a lost lease, the `finally`
  (line 90) neither ends the process nor awaits its exit. `NoStrayWorker` and `AbortEndsRun` say
  what holds of Codex and what only of the other two.
- `memory-store.ts:300`: a memory whose id has three dashes in a row, which the pattern of ids
  allows, is written to a file that cannot be read again (`Parses` in `OwnerMemory`): it can be
  forgotten but not edited, and a search that matches it fails, for the other memories it
  matches too, as do the list and the export of all; `tasks/todo.md:511` says that memory is
  searchable and editable. `SearchAgrees` excepts such a search by name.
- `task-worker-session.ts:262`: a later turn of a worker completes although its verification failed or
  was cancelled, and says so. `CompletesAsVerified` demands that it says so, and of the task's own
  run that it does not complete.
- The dashboard's requests are not serialised: overlapping saves lose entries
  (`personal-dashboard-store.ts:220`). `RecordsKept` is promised without overlap.
- `session-store.ts:103`: an answer of more than 4,000 characters is refused after the
  model gave it; its question stays without an answer.
- `app.ts:827`: a mute, or a second click, while `getUserMedia` is pending leaves a stream
  open that nothing stops. `app.ts:348`: the selection is not compared again after the body
  was read, so one late body is shown for another worker (`crossed`).
- `automation-panel.ts:328`: a failed reload puts an error in the place of the jobs, and the
  reloads after it compare the jobs with what was rendered before the error: as long as they
  are the same, the error stays under a status line that counts them (excepted in
  `PanelCatchesUp`). `automation-panel.ts:442`: a panel that is closed while `open` awaits
  its first reload starts its interval afterwards and polls until it is opened and closed
  again (`closedEarly`).
- `lib.rs`: a desktop that is killed, or fails between the host's first line and its tray,
  leaves its host running (`orphans`).

## 4. Proofs

Checked by `tlapm` for every value of the constants that the named assumptions admit: any
sets of tasks, writers, parents, jobs, proposals, any lease time, limit and bound. A module
extends the one it is about, and each proves an inductive invariant first: the properties
alone are not inductive, because executors, chains and loops carry what they read over
their awaits, and the invariant says what of it is still true when they go on.

**`TaskStoreProofs`.** The inductive invariant `StoreInv` adds to the properties that a
version identifies a lease, that no lease and no event is ahead of its row's version,
and that an absent task has no events. An accepted lease then is the newest
(`AcceptedLeaseIsNewest`), which gives one active writer and the order of appends.
`OutboxFaithful` joins two of its conjuncts: the outbox ends in the row's state, and a
report stands there just for completed tasks.
`StoreTerminalIsFinal` and `StoreNoTakeover` follow as action properties.

**`TaskOrchestratorProofs`.** The invariant `IInv` adds to `StoreInv` what the process
remembers: until its release a run holds the lease its row names (`RunInv`), a turn works
only on a completed task without a run (`TurnInv`), and the tasks the stop has passed are
terminal (`StopInv`). From it follow type correctness, `OneExecutor`, `StopCancelsAll`,
that every step is a step of the store (`OrchestratorUsesStore`), hence every store
promise in the running host (`OrchestratorKeepsStorePromises`), and the refinement of
`TaskLifecycle` (`OrchestratorImplementsLifecycle`), by one lemma per kind of step.
Two more invariants lie on top of `IInv`:

- `FaithfulAt` for `TurnsFaithful`. The transcript and the evidence of a completion speak of
  events by the lease that wrote them; `WrittenAt` says what the lease of an executor in
  memory has written so far: nothing while a turn is opening, a question and no end while it
  streams. A fresh lease has written nothing (`FreshLease`, from the versions of
  `StoreInv`). It needs nothing of the clock: a turn whose lease expired writes no end at all.
- `LiveInv` for `LiveTaskHasExecutor`: no lease expires (`LeasesOutlast`), a run that is on
  its way out or aborted has left its task terminal, and what is in memory while the host
  stops was there when the loop of `stop()` began (`LiveAt`). The theorem has the
  hypothesis `Graceful`: no process is killed, no task submitted to a host that closes, and
  the clock stays below the first expiry. A killed process does leave tasks without an
  executor, which is what the run `TaskRestart` and its finding are about;
  `TaskReliable.cfg` is an instance of the hypothesis.

**`AssistantSupervisorProofs`.** `SupInv` has a part for the tables (`RowsOK`: a dispatched
child has the worker that was submitted for it, a completed one has its evidence), one for
each chain (`ChainsOK`: the children it has yet to visit still are in the state it selected
them by, the answer it was given is still true, and the handle it holds was submitted for
the child in hand) and one for the process (`HostOK`).
`WorkersAreTracked`, `CompletionEvidenced` and `GraphIsFinal` follow, and so does the refinement
of `TaskLifecycle` (`UsesTheOrchestrator`), the same specification that the orchestrator
is proved to implement. `OvershootBounded` needs a second one, `SlotsOK`, about
cardinalities: the children dispatched and the slots that the chains of the request in
flight have reserved together never exceed `MaxConcurrency * MaxBatch`.

**`AutomationProofs`.** `AutomationInv` says what the two loops have in hand between claim,
plan and record: the job of the drain is claimed and has no plan before there is one to
record (`DrainOK`); the intents the handler has not got to have no plan for their last fire
(`HandlerOK`); an owner's cancel cannot come in between for a job, since a claimed one
is not cancelled, and for an intent it only stops the record. `KeepsTerms` follows from
`JobsOK` and `IntentsOK`, which are about one row each, and `StopEndsClaims` from the
guards under the types.

**`HostSettingsProofs`.** `SettingsInv` says stage by stage what a change holds
(`ChangeOK`): from the moment the secret was found or the approval passed its value is
granted, and the whole file it is about to write consists of granted sections. Grants only
accumulate (`GrantsStay`), so what a save read long ago is still granted when it is
renamed into place.

`QQInv` is about the channel. Channels but the one in use are closed, and that works for the
owner in the settings until it is aborted (`ChannelsOK`): the manager aborts it in the step
in which it takes the saved owner, so a former owner is neither given a task nor told of one,
although the aborted channel's operation may still be at an await. An answer, sent or under way, names
the task noted for its message (`AnswersOK`), which no step changes once it is noted. And the flush of a channel whose databases
are open holds all that is not delivered up to some result (`FlushOK`): only
so do a failed send, a reconnect and the next channel keep the order. The 100 deliveries a
flush takes are such an initial part (`BatchIsOldest`).

With one more invariant, that an answer under way is for a message of its channel's owner
(`RepliesOK`), every step of the channel is one of `ChannelPromise` or none
(`ChannelImplementsPromise`, by one lemma for each kind of step): the owner changes or the host ends,
a message is taken up, its sender is told, a result is committed or the oldest one delivered. In the
abstract specification there are no channels, flushes and processes left: what a connection that is
lost, an owner who is replaced or a process that dies may cost is a task that was not noted, an
answer that is not sent, or a result that is sent a second time because its mark was lost.

**`ExtensionProofs`.** For the skills: a rollback and a recovery bring back what a proposal remembers as its
backup, so `SkillInv` demands of every backup what the property demands of the file
(`Fine`), and that an approved proposal keeps its content and approval (`ProposalOK`).
`EditsAreKept`, a conjunct of `OwnersWordStands`, is proved as an action property.

For the plugins: while an operation is half way the record tells nothing;
`RegistryInv` says which providers run then (`HalfWay`) and that the record still is the
one the operation began with (`Begun`), because operations of one plugin are queued.

For the coding backends: `RuntimeInv` says in which stages of a run its process is none, at
work or ended (`StageOK`), and that a run, until it compares the worktree, still has the
snapshot of its start, while no file becomes clean again (`DiffOK`); it gives the runtimes'
half of `NothingIsLeft`. `CompletesAsVerified`, a conjunct of `OwnersWordStands`, follows step by
step (`TurnsSayWhatWasVerified`): a turn completes only where its verification ends, and what is being
verified has completed its run (`StageOK`).

**`DesktopProofs`.** What a page awaits comes back to a page that has gone on, so each of these
invariants says what an answer still under way may do to it.

- `VoiceInv`: while muted the wake loop, wherever it is, has been told to end (`Quiet`), and of
  the requests under way only that of the last operation is still listened to (`Awaited`).
- `DeskOfficeInv`: a form on its way is for the assistant it was written to (`FormOK`), and the
  composer's draft is that of the page's assistant, whichever page was shown when it was sent.
- `WorkbenchInv`: a body that is being read belongs to the selected worker, unless another was
  selected meanwhile (`ReadOK`). `RailInv`: a stream that is over has delivered the settled
  state, so the refresh that follows it brings the settled tree (`FollowOK`).
- `PanelInv`: the item at the host only grows older (`Age`), and everything the panel holds of
  it, what is listed, what a reload brings and what an action was offered for, is no older.
  What an action finds at the host is what was shown, or one of the two moves that leave it fit
  (`ActOK`); a disabled button belongs to an action under way or to an item no longer
  shown as it is. TLC checked this invariant on the run's panels before it was proved.
- `ShellInv` for `QuitStopsHost`: slot and threads hold no host but that of the last launch, and
  a thread holds one just while it stops it (`SlotsOK`).

**`ComponentsProofs`.** `OfficeInv` adds two things to the office's properties: what is queued has
not been called since its owner queued it (`CallsOK`), and the drain under way has in hand every
task that may start, although starts, requests of the same stretch and failed saves change
which those are (`TodoIsComplete`). The second gives `OldestFirst`, with the well-foundedness
of finite sets for the existence of an oldest (`LeastOf`).
Of the other parts three have their invariants here:

- `DashInv` for the dashboard's half of `OwnersRecordsAgree`: as long as no two requests that
  change the file have overlapped, the one that is changing it has read what it says and saves
  with the stored key (`OneChanges`, `Fits`); between the removal of the file and of its key
  there is no file. Its types hold in any case and give the limit of entries, because a request
  that makes one still holds the document in which it found room.
- `MemInv` for the half of the memories: file and index agree but for what the call under way
  has still to write (`InHand`, at most four writes) and what a crash cut short; a search is
  refused only because of a memory that is there and cannot be parsed.
- `ConvInv` for `ConversationHolds`: the question a handler is still to answer is its own and
  has no answer in its session as long as that is there (`HandlerOK`), questions are numbered in
  the order they were asked, and sessions are made one after the other (`SessionsOK`), so that
  the next one is not a deleted one: the property that answers follow their questions is kept
  by an append only because of the first. The same lemmas give `DeletedStaysDeleted`, another
  conjunct of `OwnersWordStands`.

That every step of the sum is a step of a part or leaves it alone (`StepOfPart`) carries
these invariants and those of `HostSettingsProofs`, `ExtensionProofs` and `DesktopProofs` over to
`ComponentsSpec`: so `ChannelKeepsFaith`, the four conjuncts of `OwnersWordStands` and
`DesktopShowsWhatIs` (`PagesShowWhatIs`) are proved of the specification that the run checks,
and so is `ComponentsTypeOK` (`PartsTyped`). That needs two facts of its own: the unread output of a worker consists of
lines its backend's adapter knows and stays within its bound (`PipeInv`), and the planned work of a
conversation is never more than was planned (`WorkInv`).

The assumptions are the named `ASSUME`s on the constants (`StoreAssumption`,
`OrchestratorAssumption`, ...), which TLC evaluates in the runs. They say that
constants standing for nothing (`NoLease`, `NoRow`) are none of the things, and that bounds
are natural numbers; none excludes a behaviour.

Only model-checked, and why:

- the liveness properties: they need `ENABLED`, which the prover does not have.

All invariants and all safety properties of the passing runs are proved.

## 5. Not modelled

- Authentication, parsing and validation of requests, the forms of messages, skills,
  manifests and events: decided before a state change, and present as the choice of
  what gets through.
- git, the file system, native commands, secrets of the operating system, HTTP and the QQ
  transport: I/O, present as an await that ends, fails or is aborted.
- Workspace manager, report builder, migrations, model provider, contracts, platform
  runtime: no state of their own that outlives a call. That a worktree belongs to one
  task is taken from the task's fresh id.
- The desktop's editors and its panels of settings (providers, permissions, channel), the
  operator page and all layout: a form sends what it holds and shows what the host answers.
- Retention and export of memories, `configure` of the office, pairing codes: single
  transactions without a counterpart that could interfere.

## 6. Plan

In this order:

1. *done* `TaskStore`, `TaskLifecycle`, `TaskOrchestrator` and their proofs.
2. *done* `AssistantSupervisor` and `Automation`, checked.
3. *done* `AgentOffice`, `HostSettings` with `PolicyEngine`, `QQChannel`, `SkillWorkshop`,
   `CodingRuntimes`, checked.
4. *done* `AssistantConversation`, `PersonalDashboard`, `OwnerMemory`, `PluginRegistry` and
   the desktop's modules with its panels, checked.
5. *done* Proofs of `AssistantSupervisor`, `Automation`, `HostSettings`, `SkillWorkshop`,
   `PluginRegistry`, `AgentOffice`, `PersonalDashboard`, `OwnerMemory`, `DesktopShell`,
   `CodingRuntimes`, `AssistantConversation`, `QQChannel`, the desktop's pages and their panels,
   of `TurnsFaithful` and `LiveTaskHasExecutor`, and of the sum of the parts.
6. *done* An abstract specification of the QQ channel and its refinement. Next: one of the
   dashboard (an atomic record).
7. A composition of `Automation` with `TaskLifecycle` in place of its `work` variable, if the
   state space allows.
