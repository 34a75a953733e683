# Tessivum: TLA+ verification project

Tessivum is a Rust host for coding agents (`src/src/*.rs`). A *session* is a
durable, append-only event log. An *agent* is a live owner of a session: an
inbox of messages, a driver task that turns messages into turns of model calls
and tool calls, and an entry in the process-wide registry. Around this core
stand the services an agent uses and the surfaces clients see: approvals and
questions, goals, reminders, jobs, child agents, workflows, shells and other
processes, tools, settings, provider adapters, plugins, workspaces, remote
access and the web API.

The project models the core and these services, checks them with TLC on small
instances, and proves with TLAPS, for every value of the constants, the safety
properties of the core (registry, queue, turn log), of the SQLite session store
and of the host's life cycle (admission, set-up, shutdown).

## 1. The system

### The core and its state

| part | source | state | operations |
|---|---|---|---|
| registry | `agent.rs` | `RegistryState`: factory, `next_generation`, `starting`, `live`, `disposal` | register/close factory, create/resume (reserve, setup task, accept), dispose, dispose_all |
| agent | `agent.rs` | `AgentInner`: cancellation, `dispose_gate`, `cleanup_complete` | send, cancel, reserve/commit an inbox update, dispose |
| inbox | `agent.rs` | three queues, `step_order`, `reservations`, one mutex | send, reserve/commit/abort a claim, reserve/commit/abort an update, clear |
| driver | `agent_loop.rs` | wake revision, running flag, cancellation | wake, drive, claim, run_turn, run_tools, retry, dispose |
| session log | `session.rs` | events, surface, write gate | append, append_next, append_if_surface, restore (three modes), inbox replay |
| host | `host.rs`, `sdk.rs` | admission count, setup lock, owned agents, relays, shutdown lock | boot, prompt, steer, update queue, cancel, release, commands, shutdown |
| background senders | `host.rs` (job notices), `schedule.rs`, `goal.rs`, `subagent.rs`, `bridge.rs` | their own | send to an agent's inbox without the setup lock |

### How the parts interact

A message is accepted by two writes with no common lock: an
`agent/inbox/enqueued` event in the log, then `Inbox::send`. The driver claims
by reserving in memory, appending an `agent/inbox/spliced` event and committing
in memory; a user's edit, removal or steer does the same. A new agent for the
session replays the log and resumes the next-turn queue. A turn writes
`turn/start`, `step/start`, messages, `tool/call`, `tool/result`, `step/end`,
`turn/end`, each through the write gate with a cancellation token. The services
keep their own state and meet the core at the log (they append to it and fold
it), at the inbox (they send) and at the agent's cancellation token.

### What is hard

Everything between two awaits can interleave; the durable queue is spliced by
place and the in-memory one by id; cancellation can win over any append; a
crash keeps only the log; setups, disposals and their dropped futures overlap;
the driver's wake-ups are coalesced; files are written before the memory they
mirror. `PROJECT.json` lists these hazards with the line where each one bites,
and under "components" every part of the crate, modelled or not.

## 2. Modules

### The core

| module | models |
|---|---|
| `AgentQueue` | the inbox as operators from an inbox to an inbox, and what replaying the log leaves pending; senders, queue updates, driver, cancellation, disposal and crash over both |
| `AgentRegistry` | setup, disposal and dispose_all of agents |
| `TurnLog` | turn, step and tool-call events, retries, cancellation, crash and restoration |
| `HostLifecycle` | boot, admitted calls, set-up of agents, relays and shutdown of a host under its SDK server |

**The inbox** (first part of `AgentQueue`). Message contents are a version (`"sent"` or
`"edited"`); `steers`, `injections` and `step_order` are one sequence with the
set of injected ids. The journal is kept as its replayed queues rather than as
events: `append_under_gate` replays the log before it admits an inbox event, so
a log always replays. Next to the queues the journal keeps the ids that have an
enqueued event, which is what `durable_inbox_claim` looks for.

**AgentQueue.** One session and one agent at a time. An append is one action
since the write gate serialises it. A sender is append, deliver, wake; an update
is reserve, append, commit; a claim is reserve, append, commit; the driver's
look at the wake revision is separate from its look at the inbox. The host's
prompt, steer and update handlers exclude each other through the setup lock;
background senders hold no lock, and *volatile* ones (two subagent paths) write
no enqueued event. `fate` is a history variable: what the sender of a message,
or the user who removed it, was told. The setup of an agent is one action here;
`AgentRegistry` has its steps. Besides a send, the goal, planning and command
handlers set an agent up (`EnsureAgent`): the queue of the log is resumed, and
nobody wakes the driver until the next message comes.

**AgentRegistry.** A call of create, resume or create_or_resume is two
processes, the caller and its setup task, plus the agent it yields. Each
stretch of code between two awaits is an action. A runtime's own work is
external: it may build or fail to build, dispose or fail to.

**TurnLog.** A decision and the append that follows it are two actions, because
`append` chooses its cancellation token before it reaches the gate. The log
keeps the events that bound turns, steps and tool calls. Chunks, context
messages, request headers and retry marks are appends that may be refused but
leave no event in the model's log. The finish reason of an answer is
independent of the tool calls in it, as in the code.

**HostLifecycle.** Boot is one action per stage that can fail. A call is
admitted, waits for the setup lock, and sets its session's agent up part by
part (`held`); its future may be dropped at every await, as HTTP handlers are.
`shutdown` has two callers, the SDK server and the process, and is cut at each
await: close, drain, settings, dispose, owned sets, relays, plugins, legacy
host, root. `Notify` is a counter of notices with the value each waiter saw
when it began to wait, which is what `enable`d tokio waiters amount to.
Broadcast channels are bounded (`Kept` for settings changes, `Noticed` for the
host's notices): the settings relay that is overtaken goes on with what is left,
the SDK server that is overtaken ends with an error and sends no last answer.
The notices of other kinds, which share the server's channel, may overtake it
at any time (the fault `"notices"`).

### The services

| module | source | models |
|---|---|---|
| `SessionStore` | `session.rs`, `persistence_jsonl.rs` | one session's file and its resident copy: failed, torn and cut-short writes, restart, restoration |
| `SqliteStore` | `persistence_sqlite.rs` | several processes on one database: opening and migration, every call statement by statement in its transaction, reads a SELECT at a time, failures and crashes between any two |
| `SessionQueries` | `session_query.rs`, `session.rs`, `host.rs` | pages, searches and cached summaries of sessions that are created, appended to, restored and deleted meanwhile |
| `Compaction` | `compaction.rs` | planning on a surface read earlier, summaries, pruning, replacement if unchanged |
| `Projections` | `projection.rs`, `host.rs` | named folds of a log, checkpoints, attach and publish |
| `SessionViews` | `api.rs`, `permissions.rs` | history pages, derived values and the view of a tool result |
| `Interaction` | `approval.rs`, `question.rs`, `host.rs` | approvals and questions of one agent with timeouts, relays and the stop request |
| `HostCommands` | `host.rs`, `permissions.rs`, `planning.rs`, `approval.rs` | slash commands between their run and done events, permission facts and their pinning, message feedback |
| `Goal` | `goal.rs` | the goal ledger, its warm view, activation, the update_goal tool and drive |
| `Schedule` | `schedule.rs` | reminders, their records, owners, timers and drives |
| `Jobs` | `jobs.rs`, `host.rs` | background jobs, their owners and the delivery of completions |
| `Subagent` | `subagent.rs` | admission, supervised start, acceptance, cleanup and the prompt RPC of children |
| `Delegation` | `subagent.rs` | the subagent, fork and Ralph tools, the capabilities they share and their watchers, nested children, interruption, deletion, the walk of list_agents |
| `Workflow` | `workflow.rs` | runs of a script, their children and durable record |
| `Subprocess`, `ShellSession` | `subprocess.rs`, `builtin_tools.rs` | owned processes and bash calls; persistent shells |
| `Tools` | `tools.rs`, `mcp.rs` | the tool registry with scopes and schemas; the supervised MCP connection |
| `FileTools` | `filesystem.rs`, `builtin_tools/model_tools.rs` | path resolution, permission, reads, gated writes and edits, publication; paging, diffs and limits of results |
| `Workers` | `code_runtime.rs`, `lsp.rs` | code-mode programs and language servers |
| `ProviderStream`, `ProviderRequest`, `Framing`, `Replay` | `openai_responses.rs`, `compatible_api.rs`, `llm.rs`, ... | provider events to chunks to messages, conversations to request bodies, stream framing, recorded calls |
| `Routes` | `llm.rs`, `host.rs` | provider routes, their settings with rollback, model selection |
| `Settings`, `Stores` | `settings.rs`, `credentials.rs`, `storage.rs`, `attachments.rs` | namespaced settings over one file; the small stores |
| `Workspaces` | `workspace.rs`, `host.rs`, `api.rs`, `bridge.rs` | the workspace registry, leases, directories, session lists and their frames |
| `RemoteAccess` | `remote_access.rs`, `cloudflare_tunnel.rs`, `api.rs` | pairing, authentication, revocation, live streams, the tunnel |
| `Watch` | `host.rs`, `api.rs`, `bridge.rs` | relays, event streams and sockets that follow a session |
| `Bridge`, `LegacyProfile`, `WasmPolicy` | `bridge.rs`, `legacy.rs` | the plugin bridge, its managed process, permissions of WASM plugins |
| `PluginProfile` | `plugin_manager.rs` | the profile lock and the mutations under it |
| `MCServices` | | all of the above for one run of TLC |

A service module stops at every await and every lock of its code, and lets file
operations and appends be refused or a crash come in between. Where a request, a
timeout or a `select!` of the code drops a future at its await, the drop is an
action of its own: in `HostLifecycle` and `HostCommands` (HTTP handlers),
`Subagent` (operations and prompts, a prompt in set-up included), `Settings`
(callers, whose rename goes on without them), `Compaction` (the request that
awaits a /compact), `PluginProfile` (a run of the bridge past its timeout, whose
pnpm goes on), `RemoteAccess`, `Workers`, `WasmPolicy`, `Bridge` and `Watch`. In
the other modules a call goes on until it returns, is cancelled or meets a crash.
Texts, names, times and payloads are numbers or members of small sets.

Every definition's source lines are in `PROJECT.json` ("map"). Operators marked
`Mutant:` are faulty variants of the definition that follows; no
specification uses them. They record, for each property, a plausible fault that
the property detects.

## 3. Runs

| run | configuration | properties |
|---|---|---|
| `queue_serial` | host only; 3 messages, followups and steers, steering, 2 steps, 2 stops, refused appends | `TypeOK`, `ReplayIsUnclaimedQueue`, `AcceptedIsAccountedFor` |
| `queue_concurrent` | host, a journaled and a volatile background sender; 3 messages, followups and injections, edits and removals, 1 stop, refused appends | `AtMostOnce`, `ContentAgrees`, `UpdateExcludesClaim` |
| `queue_served` | host only, fair; 3 followups, set-ups without a send, 1 stop | `NextTurnIsServed` |
| `registry` | 2 calls on one session, generation wraps at 2, fair | `TypeOK`, `OneRuntimePerSession`, `FailureLeavesNothing`, `OwnedIsLive`, `DisposalDrains`, `SetupReturns`, `AbandonedIsReleased`, `DisposalTerminates` |
| `turn_log` | 2 turns, 2 steps, 2 calls, 1 retry, 1 stop, refused appends, all restore modes | `TypeOK`, `TurnNumbersIncrease`, `ClosesMatch`, `OneResultPerCall`, `NotStartedNeverRan`, `ColdRestoreCloses` |
| `services` | every service module with the instances listed in `MCServices` | the themes below |

`MCServices` runs the service modules side by side without interleaving them: a
behaviour is one instance's. Its properties are themes; each is a conjunction of
the modules' own properties, every one stated and commented in its module.

| theme | says | modules |
|---|---|---|
| `OutcomeIsDurable` | an approval or question ends as its log records | `Interaction` |
| `AcceptedIsHonoured` | what was accepted is what is done | `Interaction`, `Tools`, `FileTools` |
| `AnnouncedOnce` | clients hear of a pending request once | `Interaction` |
| `AcknowledgedIsStored` | an acknowledged event is in memory and in the file or database; a read reports corruption only when it raced with a commit | `SessionStore`, `SqliteStore` |
| `RevisionAdvances` | an action property: a commit that changes a session of the database advances its revision | `SqliteStore` |
| `LedgerViewsAgree` | records, counts and projections are what the log says | `Goal`, `Workflow`, `Projections`, `SessionViews`, `SessionQueries`, `HostCommands`, `Delegation` |
| `RoundsFold` | the goal ledger refuses a posted round only if its goal has changed since or a restart resumed it and it was queued again | `Goal` |
| `RemindersAccounted`, `RemindersWatched` | reminders are recorded, not repeated, not forgotten | `Schedule` |
| `NothingOutlivesDisposal` | a finished disposal leaves nothing alive | `HostLifecycle`, `Jobs`, `Subagent`, `Delegation`, `Workflow`, `ShellSession`, `Subprocess`, `Bridge`, `LegacyProfile`, `WasmPolicy`, `Settings`, `Stores`, `RemoteAccess`, `Projections`, `Workspaces`, `Tools`, `Workers`, `FileTools` |
| `LimitsHold` | limits hold of what they limit | `HostLifecycle`, `Subagent`, `Delegation`, `Workflow`, `Bridge`, `Subprocess`, `RemoteAccess`, `SessionViews`, `Tools`, `Workers`, `FileTools` |
| `RequestsSettle` | a request is settled by its own answer | `Bridge`, `ShellSession`, `Workers`, `HostLifecycle`, `HostCommands` |
| `WatchersCatchUp` | readers see everything once | `Watch`, `Projections`, `SessionViews`, `Workspaces`, `FileTools`, `SessionQueries`, `HostLifecycle` |
| `RollbackRestores` | a plugin mutation is whole or undone unless a pnpm that a dropped or dead run left behind is at work too; the set-up of an agent is whole or undone | `PluginProfile`, `HostLifecycle` |
| `CompactionKeepsContext` | compaction drops nothing it must keep; only a refused append or a dropped request leaves an attempt open | `Compaction` |
| `StreamsWellFormed` | what is read is what was written | `Subprocess`, `ProviderStream`, `ProviderRequest`, `Framing`, `Replay` |
| `WritesAreAtomic` | shared documents and files are written whole; what is in memory is what is in the file, but for an edit or the rename of a dropped caller that memory has not heard of | `Settings`, `Stores`, `Routes`, `RemoteAccess`, `Workspaces`, `Workers`, `FileTools`, `SqliteStore`, `HostCommands` |

`Framing`, `ProviderRequest` and the last instances of `FileTools` and
`SessionQueries` check pure algorithms: every input of a bounded set is tried
and the property compares the translated algorithm with a direct definition.

Six runs show where the code departs from what the repository says of it:

| run | property | what TLC finds |
|---|---|---|
| `queue_two_senders` | `AcceptedIsAccountedFor` | two senders append and deliver in opposite orders; the claim of one splices the other out of the log, and it is lost if the agent goes away |
| `queue_edit_wake` | `NextTurnIsServed` | the driver goes idle on a front reserved by an edit and the edit's commit does not wake it |
| `turn_half_open` | `NoHalfOpenTurn` | a cancellation between the choice of the token and the gate leaves a turn open |
| `stop_while_asked` | `StopFreesSession` | a stop fires the agent's token through its pending approval, and the registry then takes the agent for cancelled already and keeps it |
| `store_torn_tail` | `CommittedStaysReadable` | an append behind a torn last record makes the whole log unreadable |
| `file_edits_race` | `OutcomeIsExact` | two edits of one step hold gates of two `Filesystem`s; one is undone though both report success |

This is also why the passing queue runs are cut the way they are:
`ReplayIsUnclaimedQueue` and `AcceptedIsAccountedFor` hold when senders are
serialised and places cannot shift (`queue_serial`), `NextTurnIsServed` when no
edit holds the front and no claim is refused (`queue_served`), and the three
properties of `queue_concurrent` hold without such restrictions: the run leaves
out the update that steers a queued message, which `queue_serial` has, only to
stay small, and the theorems on its properties are about every set of updates.
`NextTurnIsServed` is about a driver that was woken or is at work (`Roused`): what
an agent resumes from the log waits for the first wake, which a set-up without a
send does not give, and is then served with the rest. In the same way
`OutcomeIsExact` is checked in `services` of calls that share a `Filesystem`.

**Bounds.** Three messages are the least with which a claim, an update and a
third message at the shifted place coexist. Two calls are the least for a race
of setups, and the third party of every registry race is `dispose_all` or a
handle, which are not bounded. `MaxGeneration = 2` makes the counter wrap, so
that agents of different calls share a generation. Two turns of two steps reach
a new turn over an open one and a result of an earlier step. `MaxStops` bounds
cancellations, releases and crashes together; with the restoration's own
failures the bound 1 of `turn_log` still interrupts a restoration, and 2 in
`queue_serial` reaches a crash of the agent that resumed the queue. The
instances of `MCServices` have two actors of each kind that races, one of those
that do not, one fault or crash, and limits of one or two so that they are hit;
a module with several independent parts has one instance per part.
Every action fires. Three branches inside actions never do, because what comes
before them excludes the case: an approval that finds its turn over without its
token fired (`Interaction!TakeGate`), a relay that meets a gap it was not told of
(`Watch!RelayRecv`), and a reconciled profile whose bundles do not resolve
(`PluginProfile!Reconcile`); the code checks for all three.
Symmetry is used on messages, and only in runs without temporal properties.
Deadlock is not checked: once all messages are sent, all calls used or all
turns run, the modelled part really may stop.

**Fairness.** `AgentQueue`: weak fairness of the driver, of each call in
progress and of the disposal of a cancelled agent, because spawned tasks and
awaited futures are polled by the runtime until they finish. Nobody is obliged
to send, update, cancel or crash. `AgentRegistry`: weak fairness of callers,
setup tasks, disposals in progress and `run_disposal`; strong fairness only for
the registry's own dispose calls taking an agent's `dispose_gate`, a fair
(FIFO) tokio mutex that handles may take in between. A runtime's dispose is
assumed to answer, with success or failure; `dispose_abandoned_runtime`, which
retries, is assumed to succeed in the end. The services run has no fairness:
its "will get" properties are stated of states (what is owed to a reader is
still in some buffer or task on its way).

## 4. Proofs

| module | contents |
|---|---|
| `AgentRegistryProofs` | the registry's invariant and theorems |
| `AgentQueueInvariant`, `AgentQueueProofs` | induction over sets of naturals, queues as sequences (ids, distinctness, removal, replacement, splicing at a place); the queue's invariant, one lemma per action, theorems |
| `TurnLogAppends` | induction; what one append does to the log and to what the scan finds open |
| `TurnLogProofs` | the turn log's invariant, one lemma per group of actions, theorems |
| `SqliteStoreProofs` | the SQLite store's invariant, one lemma per action, theorems |
| `HostLifecycleInvariant` | what each step of the host can be; types, admission, the shutdown lock, the drain |
| `HostLifecycleProofs` | the other parts of the host's invariant, theorems |

The theorems hold for every value of the constants that satisfies the named
assumptions of the modules: `RegistryAssumption` (a session for every call, a
positive generation bound), `QueueAssumption` and `TurnAssumption` (bounds
are naturals; targets, updates and restore modes are among those of the code),
`SqliteAssumption` (session ids are ordered, the bound on events is a natural)
and `HostAssumption` (calls and sessions are finitely many, the limit on live
agents and the room of the channels are naturals, no call is named like the free
lock). The last two are
assumed of their instances by `MCServices`, so that TLC evaluates them.
Bounds enter only as guards, so the theorems cover any number of messages,
senders, turns, steps, tool calls and stops.

| theorem | statement |
|---|---|
| `AgentRegistryProofs!Invariance` | `Spec => []IInv` |
| `TypeCorrect`, `SingleRuntime`, `CleanFailure`, `OwnedStaysLive`, `CompleteDisposal` | `TypeOK`, `OneRuntimePerSession`, `FailureLeavesNothing`, `OwnedIsLive`, `DisposalDrains` are invariant |
| `AgentQueueProofs!Invariance` | `Spec => []IInv` |
| `TypeCorrect`, `MessagesAtMostOnce`, `UpdatesExcludeClaims`, `ContentsAgree` | `TypeOK`, `AtMostOnce`, `UpdateExcludesClaim`, `ContentAgrees` are invariant, with serial or concurrent senders, journaled or volatile |
| `TurnLogProofs!Invariance` | `Spec => []IInv` |
| `TypeCorrect`, `TurnsAreNumbered`, `ClosesAreMatched`, `ResultsAreUnique`, `NotStartedIsTrue` | `TypeOK`, `TurnNumbersIncrease`, `ClosesMatch`, `OneResultPerCall`, `NotStartedNeverRan` are invariant |
| `ColdRestorationCloses` | the action property `ColdRestoreCloses` |
| `RestorationResumes` | during a restoration, what is left to append is what a new scan would ask for |
| `SqliteStoreProofs!Invariance` | `Spec => []IInv` |
| `CommittedWhole`, `AcknowledgedStored`, `CorruptionRaces` | `CommittedIsWhole`, `AcknowledgedIsStored`, `CorruptionIsARace` are invariant, for any number of processes, sessions and calls |
| `RevisionsAdvance` | the action property `RevisionAdvances` |
| `HostLifecycleInvariant!TypeCorrect`, `HostLifecycleProofs!HostInvariant` | `TypeOK` and `HostInv` are invariant |
| `ShutdownIsComplete`, `DrainIsFinal`, `NoDrainIsMissed`, `LiveAgentsBounded`, `SetupsAreWhole`, `ByeComesLast` | `ShutdownReleases`, `DrainHolds`, `DrainIsNoticed`, `CapacityHolds`, `SetupIsWhole`, `ByeIsLast` are invariant, for any number of calls, sessions, faults, drops and settings changes and any room of the channels |

### The registry

None of the properties is inductive by itself. `IInv` adds:

- `Reservations`: a call whose task is running holds its session's reservation
  until it is accepted or its task ends;
- `LiveAgents`: the live agent of a session is an accepted call whose disposal
  has not removed it, and an accepted call not yet cleaned up is live;
- `Exclusion`: the reserved and the live call of a session do not coexist,
  whence one runtime per session;
- `PhaseOf`/`Phases`: which combinations of caller, task, answer, runtime,
  disposal stage and clean-up can occur together for one call;
- `Draining`: which setups and agents `run_disposal` can still meet in each of
  its stages, `reserve` and `accept_setup` being shut meanwhile.

The generation needs no uniqueness: `remove_from_registry` compares generations
that may collide after a wrap, but the session's entry is still this agent's
when its first successful disposal gets there, which is what `LiveAgents` says.
The step lemmas `CallerStep`, `TaskStep`, `DisposeStep` and `RegistryStep`
each take one group of actions.

### The queue

That a message is not posted twice depends on who still holds it. `IInv` says
where a message can be meanwhile: no queue holds it twice and no two places
share it, except that the log also names what the inbox holds (`OncePerPlace`,
`OnePlace`); what the driver claimed stays reserved until it is committed, or
the inbox was cleared with its agent (`ClaimIsHeld`); the message of an update
is reserved and in no claim, turn or transcript (`UpdateIsHeld`); what a send
has not delivered is nowhere else, and what nobody sent is nowhere
(`SendersApart`, `UnsentIsNowhere`); and two copies of one message are equal
except while an edit is being committed, when the log has the new one
(`OneContent`). Removal by place in the log is the hard case: with concurrent
senders the places shift, so the entry a splice removes need not be the one
claimed. The proof shows that this can lose a message (as `queue_two_senders`
finds) but never repeat one: the posted message is purged from the log by id
(`Purge`) when its `user/message` event is appended.

### The turn log

Whether an append keeps the log's properties depends on what
`interrupted_turn_closers` would find open. Its scan is a recursive function;
`OpenAppend` reduces it to one step per append, by induction over the length of
the log. `LogInv` ties the scan's result to the events, `DriverMatchesLog` ties
it to the control point of `run_turn`, and `ClosersMatchLog` says that a
restoration has yet to append exactly what the log as it is now still needs,
which is why a crash in the middle of one is harmless.

### The SQLite store

A transaction writes several rows, and what it has written so far is not a
session anybody may see. `IInv` says what its image holds at each statement:

- `Locked`: whoever is between BEGIN and COMMIT holds the lock of the file, alone;
- `Whole`: what is committed has header, state and every event, or nothing;
- `Meant`: what a call is about, by its kind and its next statement;
- `Agreed`: what a call read and checked in its transaction is still what is
  committed, because nobody else can commit meanwhile;
- `Written`: after each statement the image is the committed row with exactly
  the changes of the statements so far, and before COMMIT it is whole again;
- `Unmoved`, `Races`: a read outside a transaction that nobody raced with holds
  what the database holds;
- `Promises`, `Kept`: an append that is acknowledged, or committed and about to
  be, has its event in the row as long as header and incarnation are the same,
  and no later incarnation can be mistaken for its own;
- `Stamped`: the model stamps each creation with a number of its own, so that a
  deleted session and its successor of the same name are told apart.

`CorruptionIsARace` is a statement about the code as it is: `read_session`
issues three SELECTs outside any transaction, and a commit of a second process
between them makes it report `SESSION_LOG_CORRUPT` of a sound database. The
theorem says that this is the only way.

### The host

`HostInv` is the conjunction of eight parts, each kept by every step under the
ones before it:

- `TypeOK`;
- `AdmissionInv`: the count of `AdmissionState` is the number of calls inside,
  dropped futures included, and the call past its admission holds the setup
  lock; this is what makes a count of zero mean anything;
- `GateInv`: one shutdown at a time holds the shutdown lock, the host is closing
  from then on, and the one that closed it has not been overtaken by one that
  found it closed and returned;
- `DrainInv`: a shutdown asleep in `wait_drained` saw a number of notices, and
  either a call is still inside or a later notice has been given;
- `ClosingInv`: what is gone behind each stage of the shutdown, up to what the
  shutdown has noted as failed, also when a second one takes over;
- `CapacityInv`: a call that is about to own an agent still has room for it,
  because the limit was checked under the lock it still holds;
- `SetupInv`: which parts of an agent a call has installed at each of its
  points, and that all or none are there when no call is at work;
- `ByeInv`: what the settings relay has read is what it has passed on, unless it
  was overtaken by more changes than the channel keeps; it ends after the last
  change with the channel empty, or overtaken; and the SDK server sends its last
  answer behind every notice, and none at all once it has been overtaken.
  `ByeIsLast` follows: with the answer, the client has had every notice, and a
  change without one was lost to a relay more than `Kept` changes behind.

The proofs do not go through the actions once per part. `CallKinds`, `StopKinds`
and `ServerKinds` first reduce the actions of a call, of a shutdown and of the
server to a few kinds of effect (`Does`, `StopEffects`, `ServerGoes` and others),
and each part is proved of those. A shutdown dropped by a signal (`cut`) is
excluded from `ShutdownReleases`: its second caller then finds the host closed
and returns with agents alive, which is how the code behaves.

### Induction

The library's induction theorems take an operator as a parameter, which the
provers cannot instantiate. `AgentQueueInvariant` and `TurnLogAppends` state
induction for a *set* of naturals (from the existence of a least element,
`LeastNatural`), and the proofs give the set explicitly. Facts about the filter of a sequence
are proved for `Filter(s, S)`, whose second argument is a set for the same
reason; the models use it in place of `SelectSeq`.

### Only model-checked

- Liveness (`NextTurnIsServed`, `SetupReturns`, `AbandonedIsReleased`,
  `DisposalTerminates`): the prover does not treat fairness and `ENABLED`.
- `ReplayIsUnclaimedQueue` and `AcceptedIsAccountedFor`: they hold only of
  serialised senders and of updates that cannot shift places; their invariant
  relates the order of two queues through every splice and is left to TLC.
- The other service modules. Several of them use recursive operators for pure
  algorithms, which the prover does not accept.

## 5. Not modelled

- Manual compaction sharing the execution lock with the driver, and the
  once-a-step limit of the context-overflow compaction.
- Several sessions at once in the core: they share no state but the registry's
  maps.
- The credentials relay of the host, the twin of the settings relay but for the
  last check.
- `AgentHandle::update_inbox`, the in-memory update without a durable splice:
  no code of the crate calls it.
- In `TurnLog` a refused append writes nothing; `SessionStore` has the stores
  that fail after they have written.
- Pure I/O and operating-system behaviour (sandbox profiles, Windows APIs,
  HTTP), command-line parsing, prompt and catalogue assembly, and telemetry.
  `PROJECT.json` gives the reason for each part.
