# dsh-agent-plugins-market: specification and proofs

TLA+ models of the plugin market's runtime: TLC checks them on small
instances, TLAPS proves the properties that matter most for every value of the
constants. `PROJECT.json` lists components, runs, mutants, hazards, theorems
and findings, and maps every definition to the lines it translates.

Running it:

    tlc -workers 2 -config SharedDemand.cfg MCSharedDemand.tla
    tlapm SessionSelectionProofs.tla

The run's module is the one `PROJECT.json` names: a module `MCx` where an
instance needs defined values, the component's own module elsewhere.

## 1. The system

The plugin keeps a *catalog* of suites (skills, commands, hooks, MCP and LSP
servers, agent roles) read from git checkouts and local directories, lets a
user install and switch them, mounts their servers in one process, and gives
each agent session a *selection* of extensions that changes only at the stops of
a turn and between turns.
Everything runs on one Node event loop; the concurrency is that of
continuations, timers, child processes and the file system.

    sources, state.json ─► catalog ─► change pipeline ─► reconciler ─► MCP mounts ─► connections
                            (2.5)       (2.4)             (2.2)        (2.7)         (2.3)
                             │                             ▲        └► LSP mounts (2.8)
                             └► inventory of an agent ─► session selection (2.1)
                                (2.6)                     │  journal in the session log
                                                          └► hooks of the agent (2.10)
    texts of the catalog ─► translation (2.9)

| component | state | operations | meets others through |
|---|---|---|---|
| session selection, `market-runtime/.../host/extension-session-state.ts` | the session's event log, checkpoint, published selection, pending request, promotion chain | attach, initialize, replay, change, requestSelection, promote, recover, dispose | the host's turns and maintenance slot; stages demand in the reconciler through the bundle's session extension |
| runtime reconciler, `core/reconciler.ts` | validated catalog, staged and committed demand of each session, queue of jobs | reconcile, stage, commit, rollback, release, dispose | sessions call it, adapters mount for it |
| reconcile scheduler, `core/reconcile-scheduler.ts` | pass in flight, one follow-up, debounce | request, credential flush, dispose | catalog changes, settings and credentials on one side, the reconciler on the other |
| catalog, `market-catalog/src/application` | state in memory and on disk, checkouts, scan and snapshot caches | install, entry changes, add, update, remove, refresh, reads | announces changes to the scheduler; panels and runtime read it |
| MCP connection, `market-mcp/.../bridge/connection.ts` | generations of client and transport, retry budget, tool syncs | connect, reconnect, authorize, sync, dispose | the server process; the tool registry |
| extension inventory, `host/extension-runtime.ts`, `inventory-retry.ts` | epoch, stale and dirty agents, cached read, retry timers | refresh at idle, follow change, deny while stale, recover, panel reads | catalog on one side, session selection on the other |
| MCP mounts, `mcp-mounts.ts`, `core/mount-lifecycle.ts` | live mounts, names and their owners, retry budgets, queue of passes | reconcile, take over, retry, force a remount, dispose | the reconciler mounts through them; connections are what they mount |
| LSP mounts, `lsp-mounts.ts` | live providers, the seam they register with, retry budgets | reconcile, restart, dispose | the reconciler; the host's capability of language servers |
| translation, `localizer.ts`, `chain.ts`, `translation-cache.ts` | queue, cache in memory and on disk, backoffs, retired providers | read, batch, save, clear, switch, retry, dispose | panels read it; a chain of providers answers |
| hooks, `surfaces/extension-hooks.ts` | selection and its chain, passes under way, stop continuations | one handler per event of the host, reconcile, start, dispose | the host's turn, subagents and compaction; the session's grants |
| OAuth provider | durable grant record | callback leg, merge under concurrent writers | connections ask it |
| roles, skills, commands, panels | contributions per session | match, decide, render | read catalog snapshots |
| presets, settings, migration | single documents | queued writes | HTTP routes |
| web interface, contracts, scanning | none that outlives a call | rendering, parsing | |

What is hard to get right here, and to test:

* **awaits inside a decision**: state is read, an I/O call is awaited, and the
  result is applied to a state that has moved on (staging a demand, building a
  snapshot, following the catalog);
* **two owners of one resource**: a server is mounted for the base and for any
  number of sessions, each of which can withdraw;
* **coalescing**: a request joins the work in flight and must still be served by
  later work (two loops, one behind the other; shared builds, shared scans);
* **failure in the middle**: a flush, a rollback, a save, a close or one source
  of several fails after other steps took effect;
* **crash and restart**: the session's journal and `state.json` are the only
  memory, and an acknowledgement may precede the work it promises;
* **signals out of order**: exits, errors, timeouts and late answers of one
  transport; disposal at any of them;
* **answers to an older question**: a read of the catalog, a batch of texts or a
  hook command ends after the change that made it stale.

What makes each component correct is stated where its module is described;
`PROJECT.json` has the hazards line by line with the properties that cover them.

## 2. Modules

| module | models | checked by | proved in |
|---|---|---|---|
| `SessionJournal` | the envelopes of one session in its log, and their replay | through `SessionSelection` | `SessionSelectionProofs` |
| `SessionSelection` | the session's whole selection life cycle with host, turns, crash | `SessionSelection` | `SessionSelectionProofs` |
| `SelectionRegister` | what a session promises: the abstract specification | `SessionSelection` (`ImplementsRegister`) | `SessionSelectionProofs` (`SelectionIsARegister`) |
| `SharedDemand` | reconciler plus its users | `SharedDemand`, `SharedToggleRace` | `SharedDemandProofs` |
| `McpConnection` | one server's supervisor | `McpConnection` | `McpProofs` |
| `ReconcileScheduler` | the pipeline from a change to a pass | `ReconcileScheduler` | `CatalogStateProofs` |
| `CatalogState` | mutations, saving, checkouts, caches, readers | `CatalogState` | `CatalogStateProofs` |
| `ExtensionInventory` | the cached read an agent's calls are decided by | `ExtensionInventory` | `ExtensionInventoryProofs` |
| `MountLifecycle` | queue of passes and retry schedule, extended by the next two | `McpMounts`, `LspMounts` | `McpProofs`, `LspMountsProofs` |
| `McpMounts` | the registry of mounted MCP servers | `McpMounts`, `McpRetryResurrects` | `McpProofs` |
| `LspMounts` | the registry of mounted language servers | `LspMounts` | `LspMountsProofs` |
| `Translation` | the localizer, its cache and the provider chain | `Translation` | `TranslationProofs` |
| `ExtensionHooks` | the command hooks of one agent | `ExtensionHooks` | `ExtensionHooksProofs` |

`MCx` holds the instance of module `x` a run checks.

A comment that starts with "Mutant" or "Faulty" before a definition marks a variant
that a run substitutes for the one after it, to show that the property it is
paired with notices that bug. No specification uses these variants.

Every run says `CHECK_DEADLOCK FALSE`: users, servers, failures and restarts are
bounded by counters, so a behaviour may come to its end, and the code itself
has states in which nothing is left to do.

### 2.1 SessionSelection

*State.* `log` is the session's event log, of which the first `durable` events
are on disk; `checkpoint`, `states`, `unavailable`, `errors` are the fields of
the same names; `intents`, `chain`, `req` and `pai` are the pending request, the
promise chain that orders requests, the request in progress and the promotions
waiting for idle. Three activities may run a transaction: the session start, the
host's maintenance slot and the stopping hook of a turn. `tx[p]` is where each
is: commit() is split at its awaits (flush of the pending entry, adapter,
flush of the committed entry, rollback), and everything else may move in
between.

*Actions.* `InitReplay`, `Restore`, `Capture` are initialize(); `Begin` to
`Rollback` commit() and rollbackApplied(); `Request`, `RequestApplied`,
`IntentPersisted` requestSelection(); `Promote`, `PromoteAfterIdle`,
`IdleReached` the promotion; `Recover` the recovery; `Follow` the follow change
of `ExtensionRuntime.refreshAgent`; `TurnStart`, `LaterStep` the pre-step handler at
the first and at any later step, `TurnStopping` the hook that promotes at a stop;
`Crash` and `Reload` end the process or the plugin. A stop ends the turn
(`TurnEnd`) or, when a Stop hook blocks or adds context, is followed by another
step of the same turn (`LaterStep`), which runs on what the stop promoted.

*External.* The host's log is what its methods say of it as used here: a
successful flush makes everything before it durable, observing reads the live
log, a crash keeps any prefix at least as long as the durable one. The host
runs maintenance only between turns, except for what it is asked to run in the
stopping hook. A turn may be continued any number of times; the hooks do it at
most eight times in a row (2.10).

*Not an action.* An agent that is disposed while a transaction of it is under way
(`extension-session-state.ts:272`). For the log that is the crash of the session,
and what the transaction still does, append its committed entry and roll back, is
what it does after a failed flush.

*Properties.* `JournalReplayable`: no interleaving leaves a log that replay
calls corrupt. `ImplementsRegister`: the service implements `SelectionRegister`,
with the journal's last committed selection as what is stored and the
selection of a ready session as what is granted. So a grant is always what the
journal commits to, and the journal gets another selection only while nothing
is granted, under every interleaving of transactions, failures and crashes.
`SwitchesOnlyAtStops`: no start, follow, recovery or promotion gets between the
steps of a turn; its selection changes at a stop only, and then to one that a
request in the log asked for. That a turn keeps its resources to its end is what the
documentation says; it does not hold (`TurnKeepsItsResources`, section 3). `AckSurvives`:
whatever part of the log a crash leaves on disk, it holds what a request
acknowledged, pending or in effect, or a later request or transaction that was
numbered past it, unless a follow or a recovery committed over it.
`ReadyTokenCoversAck`: a ready session shows a compare-and-swap token that
covers every request it acknowledged; after a restart the same two commits are
excepted, because replay drops the requests they overtook. That a token is never
given twice is what the code says; it does not hold (`TokensNeverRepeat`, section 3).

*Bounds.* Two selections, which may be exchanged (symmetry: no definition names one, and
the forked logs are there with either); a log of 6 events (a start takes two, so a start and
two changes, or a request between them); fresh sessions and forks of two
parents; two faults; one crash or reload. A log that short still holds a
pending entry without its commit, a promotion after a request, and a restart in
the middle of each.

### 2.2 SharedDemand

*State.* `catalog` is what a read of the catalog would offer, `authority` and
`epoch` what was last published; `calls`, `staged`, `committed` are the
`StagedDemand` tokens and the two maps; `queue` and `running` are the promise
chain of shared jobs; `mounted` and `failed` what the adapters report.

*Actions.* `StageBegin`, `StageRead`, `StageReady` are stageSessionDemand split
at its two awaits; `Commit`, `Rollback`, `Withdraw` its receipt; `PassStart` and
`PassEnd` reconcileShared split at the adapters;
`RefreshCatalog` the scheduler's publication; `Toggle` the user's switches;
`AgentGone` the disposal of an agent, also while its call is pending;
`Dispose` and `Drain` the end.

*Abstractions.* The two adapters finish together. A session runs one call at a
time, which `OneWriterAtATime` (section 4) proves. A mount that fails is one not
yet mounted. Gates, overrides and disabled servers are one set `off`. Reading and
publishing a catalog is one step here and is taken apart in 2.5. The receipt itself
does not ask whether the agent is still there; the transaction does (`Durable`): a
disposed agent has lost its checkpoint, so persist() throws and the receipt is rolled
back, unless the disposal falls into the last flush, when the release that it queued is
still to run or has revoked the token. A start that restores a selection from the
log flushes nothing; that the host does not dispose an agent whose start it still
awaits is assumed.

*Properties.* `ReceiptBacked`: a held or committed receipt has its servers
mounted once a pass caught up. `RestServes`, `RestFrees`: at rest exactly what
is wanted is mounted, and a disposed reconciler holds nothing.
`OthersKeepTheirs`: no pass of the catalog in force unmounts what a session
committed, whoever asked for the pass. A pass overtaken by a newer catalog is
excepted, since it may unmount a server that only the newer catalog offers
again; `PassEnd` then owes the pass that mounts it, which `RestServes` is about.
`NobodyStranded`: once the queue is empty no call still waits for a pass, and an
agent that left holds no demand. Being about rest, these say what fairness
would have to bring about; the run itself needs none.

*Bounds.* Two sessions, three calls (one session selects again), a server of the
catalog and one configured directly; one change of the catalog, flip of a
switch or departure; one fault; 5.3 million states. Two sessions are enough for
one to disturb another, since calls only meet in the queue and in the two maps.

### 2.3 McpConnection

*State.* `gens[g].pc` is where generation g stands in connectGeneration;
`client`, `timer`, `failedAttempts`, `connectedAt`, `phase` are the supervisor's
fields; `syncChain` and `reading` the chain of tool syncs, with the list
versions an answer in flight may still carry; `tools` what is registered.

*Actions.* One for each signal and continuation: connect succeeds or fails,
the server dies, the browser leg settles, close returns or times out, the
transport's close arrives, the timer fires, a connection becomes stable, a sync
starts, swaps, meets a conflict or fails, disposal in its steps.

*Properties.* `OneServer`: never two processes of one server.
`BudgetRespected`: starts stay within attempts, plus what a stable connection or
an approved authorization buys. `PhaseTruthful`: the reported phase is what is
going on, so that no dead state looks alive. `NoListChangeLost`: once the syncs
are done the tools are the server's newest list. `EndedHoldsNothing`: a server
given up and a disposed bridge hold no tool, timer, client or attempt.
Liveness, `EverythingEnds`: every outage and every disposal ends.

The server's `settings` (reconnects, a strict first sync, authorization) are
chosen initially, so one run covers every combination.

*Bounds.* Two attempts; one stable connection, one authorization, one list
change and one conflict.
Two attempts are the first budget at which a retry can fail in a different way
than the one before. An answer that arrives for a generation already closed may
still be swapped in: the answer can have been received before the close.

*Fairness.* Connects, lists, closes and browser legs have timeouts in the code;
armed timers fire.

### 2.4 ReconcileScheduler

*State.* One version number for each input of a pass: the enabled suites, the
session declarations and the secrets. `refreshing` and `refreshQueued` are the
catalog's refresh loop; `requested` and `reconciling` the scheduler's (its fields
`requested` and `pass`); `applied` is what was last put into force of each input;
`armed` the debounce. A definition that `CatalogState` has too carries the
scheduler's name, since one module proves about both.

*Actions.* `CatalogChanges` a mutation of the catalog (`notifyChanged`), `PolicyChanges` the callers
that run the pipeline directly, `RoundEnds` the end of a round of the catalog's
loop, which its deadline of 20 s may bring before its pass has ended; `Reads`,
`Publishes`, `Mounts`, `Rejects` one pass; `CredentialUpdated`,
`FlushCredentialUpdates`; `Dispose`.

*Properties.* `RestServesNewest`: with both loops and the debounce at rest, the
newest version of every input is served unless the last pass rejected.
`DisposedPublishesNothing`. Liveness: `CatchesUp`.

*Bounds.* Four changes and three credential updates, so that a change can land
before, between and after the reads of a pass and of its follow-up.

*Fairness.* Weak fairness of each step of a pass, of the rounds' ends and of the
debounce: the event loop resumes continuations, and timers fire.

### 2.5 CatalogState

*State.* `mem` and `disk` are the state and its file; a commit numbers it.
`checkout` is a version of each source's files, raised by every change;
`present` the directories there are. `op` is the mutation at the head of the
queue: those behind it have done nothing yet and are not state. `scanCache`,
`scanPromises`, `snapshot`, `joinable`, `generation` and `revision` are the
fields of `SnapshotCache` and `CatalogContext`; `scans` and `builds` run. A scan
reads each checkout at some moment between its start and its end.

*Actions.* The mutations step by step: acquire, discover, commit, save, remove,
sync, notify, and `Reject` where a step can fail, with files left as they were,
half changed or gone. `PanelsChanged` announces without the queue. `Read`,
`KeepWarm`, `ScanEnds`, `BuildEnds`, `Expire` are the readers' side;
`RuntimeReads`, `RuntimeServed` the read behind the derived refresh; `Restart`.

*Abstractions.* A source has one suite and a checkout the market manages; local
and adopted directories are never written by it. One number stands for url and
branch. The project dimension caches in the same way but has no mutations.
Times to live may end at any moment. Migration and `mergeSources` run before
anything else and are not modelled. The derived refresh is one read here, its
coalescing is 2.4. The progress report of an addition is for display and left out.

*Properties.* `AckDurable`: what was acknowledged is in the file.
`ReadSeesAcked`: an answer holds every mutation and content change announced
before the question. `CachesCurrent`: nothing cached is older than the last
invalidation. `NobodyWaitsInVain`: what can be joined or is awaited runs.
`RuntimeCurrent`: at rest the runtime has read what was acknowledged. "Announced"
is history: the files' versions when discovery was last dropped. What the code
never announces is found by `CachesFollowCheckouts` (below), not hidden here.

*Bounds.* One source, two mutations of any kind or panel changes, with a
failure, a restart and a keep-warm refresh. Two mutations are
enough for a build to begin before one, be outdated by it and meet a build of
the next; versions and generations are only compared for equality or order. One
reader is enough beside the keep-warm refresh and the runtime's read, which
build as well.

### 2.6 ExtensionInventory

*State.* `version` is the catalog; `epoch` counts the invalidations and `seen` is
the version of the last one (history). `resources` is the cached read, `newest`
who began the newest read; `stale`, `dirty`, `registered`, `appliedEpoch` are the
marks of the one agent, `timer` and `refreshing` its retry. `task` are calls of
refreshAgent that may overlap; `commit` the selection transaction and its
callbacks; `window` a read of the panel or of a recovery. `ready`, `chosen`,
`follows` are what the session's selection shows of itself.

*Actions.* `OnChanged` and `RefreshAll` are the two halves of the change
pipeline; `CallSkips` to `TaskFails` refreshAgent, split at its awaits;
`FollowCommits` and `FollowFails` the follow change at its end; `CommitStarts` to
`CommitFails` the callbacks of a selection transaction; `RecoverReady`,
`RecoverUnready`, `RecoveryRereads` the recovery; `TimerFires`, `Dispose`.

*External.* The catalog, the host's turns and its maintenance slot; the
transaction itself is 2.1.

*Abstraction.* `Dispose` denies the agent at once; the code disposes the session's
service only when the refreshes in flight have ended. Nothing is announced in
between.

*Properties.* `RevocationHolds`: from the moment a change is announced, no call
gets through on a read that began before it, whatever order the answers
arrive in. `NobodyAbandoned`: a ready agent that is denied has a retry armed,
or a call under way that will end in one. Liveness, `Heals`: an agent that stays
ready ends up with a current inventory.

*Bounds.* Two overlapping calls, a catalog that gains a resource and withdraws
another in two changes, three events in all (changes, failures, windows,
selections, recoveries). Two calls are the first number at which one overtakes
another; agents share nothing but the epoch, so one agent is enough.

*Fairness.* Weak fairness of each continuation and of the timer: reads have
deadlines and the event loop resumes them. The turn ends.

### 2.7 MountLifecycle, McpMounts

*State.* `MountLifecycle` has `queue`, the passes not yet started, and `timers` and
`attempts` of the retry schedule. `McpMounts` adds what a pass works on: `pass`,
`work` (where each key stands), `live` (the configuration a key is mounted
with), `names` (who owns a server name), `left` (definitions a failed rollback
left behind), `forced`, `outcome`, and the world's `enabled`, `config`,
`foreign`.

*Actions.* `PassStarts`, `PassReads`, `PassRejects`, `Unmounts`, `UnmountFails`,
`PlanAdditions`, `Prepared`, `Throws`, `TakesName`, `Refused`, `Mounts`,
`MountFails`, `AdditionsEnd`, `PassEnds`: reconcileNow from its start to its end,
the mounts of one batch side by side. `Asks` is the reconciler, one pass after
another; `RetryFires` replays the last input; `ForceRemount` a re-authorization or
a manual retry; `DisposeAll`, `DisposeEnds`.

*Properties.* `NoneForgotten`: at rest every wanted server is mounted as it
resolves, about to be retried, given up after its retries, or has an excuse
that is still true: its old mount cannot be torn down, another client owns its
name, or a copy serves it. Liveness, `Recovers`: retries come to an end.

*Bounds.* Two suites that ship copies of one server under one name, two
configurations, three changes, two failing operations, one forced remount, one
retry before giving up, a disposal. Two keys on one name are what makes a
takeover. The cap of four parallel mounts never binds with two keys. For at most
two copies of a name `NoneForgotten` is a theorem, whatever the number of servers,
changes and faults (section 4); with three copies it does not hold, because two of
them may take over side by side (`OneCopyServes`, section 3).

*Fairness.* Passes go on: teardowns and handshakes have deadlines.

### 2.8 LspMounts

*State.* `MountLifecycle`'s, and `live`, `capability` (the parts of the seam held),
`seam` (resolved, and why it failed), `profile` (what another layer
registered), `leftovers` (what a failed teardown left without a handle),
`forced`, `restarting`, `outcome`.

*Actions.* One pass (`PassStarts`, `PassReads`, `PassRejects`, `Keeps`, `Unmounts`,
`UnmountFails`, `PassReleases`, `PassMounts`, `MountsPart`, `PartFails`, `Stands`,
`Mounts`, `MountFails`, `PassEnds`), the environment, `TimerFires`, `Restart`,
`Dispose`, `DisposeEnds`.

*Abstraction.* The awaits inside one teardown or one mount touch nothing others
read, so each is one step; a pass still interleaves between its servers.

*Properties.* `SeamOutlivesProviders`: no live provider without the whole seam it
registered with. `NoneForgotten`: as in 2.7, and a server the user asked to
restart was torn down, if it could be.

*Bounds.* A server of a suite and one of the user's table that claim one file
extension; three changes, two failures, a restart, a disposal.

### 2.9 Translation

*State.* `entries` and `byText` are the two caches, `pending`, `inflight`, `owners`,
`active`, `runs`, `pumpTimer`, `generation` the queue and its batches; `retry`,
`backing`, `tripped` the failures; `dirty`, `flushTimer`, `persistence`, `disk`,
`undeleted` the file. An answer is numbered by the clears before the question,
so that one from before a clear can be told from one after it.

*Actions.* `ReadsAnswer`, `Enqueue`, `PublishParagraph` are a read; `PumpFires`,
`Lands`, `HopFails`, `Exhausted`, `Dropped` the batches and their walk down the
chain; `Elapses` a backoff; `FlushFires`, `WriteSettles` the file; `Switch`,
`Clear`, `RetryDocument`, `Dispose`, `Restart`.

*Abstractions.* One target language and one chain identity, which is how the
market composes it; a provider is always available until it fails; the reads of a
paragraph's parts are reads of their own; the limit of characters in a batch is one
of texts; flipping the setting and the callback
that reacts to it are one step; providers, requests and the masking of markup
are I/O and text. Two plugin processes over one cache file are not modelled.

*Properties.* `QueueSound`: no text is queued or paid for twice at once, and the
counts agree with the batches there are. `CacheSound`: nothing in memory, in
the file or on its way to it is from before the last clear, and a paragraph is
published only if all its parts have answers, or those of another paragraph of the
same text: `localizeParagraph` answers a paragraph by its text, so a second document
gets the paragraph of the first without an answer to any part of its own. Excepted is
a clear whose deletion of the file failed, or was cut off by the end of the process
(`undeleted`): the code swallows that failure, and the next start reads the old
answers back (`ResetLasts`, section 3). Liveness, `NoneWaitsForever`: every queued text
is answered, given up or dropped; only the texts of single fields are queued.

*Bounds.* Two documents with one paragraph, which is two sentences in the one and a
single part, equal to the first of these, in the other: parts are cut by the locale
of the process, and the file outlives processes. Two providers; batches of two, one
at a time; one failure before a text is left alone; one file operation queued before
the timer queues another; two faults; two of a switch, a clear, a retry, a disposal
and a restart.

*Fairness.* The coalescing timer fires, and calls of providers settle.

### 2.10 ExtensionHooks

*State.* `revision`, `maps`, `selected`, `pending` are the selection: each request
builds a map of its own, and a pass keeps the one it began with. `passes` has
one pass for each of the events that may run side by side: the start, the
turn's event, a subagent's start, a notice (its end, a compaction), and the
disposal. `continuations` counts the stop hooks in a row, `tracked` is the
registration of the child; `disposed`, `closing`, `active`, `final`, `ended` the
disposal; `revoked` the live grants; `turn` and `result` the host. `applied` is
the pass that reaches the agent in a step, which is what disposal forbids.

*Actions.* `Reconcile`, `Read`; `Returns` a command of any pass; then a handler
each: `Prompt` to `PromptEnters` of agent/pre-step, `CallTool` to `PreGoesOn` of
tools/pre-execute, `Answers` to `PostGoesOn` of tools/post-execute, `StopTurn` and
`StopDecided` of agent/turn-stopping, `Start`, `StartRuns`, `StartDecided`,
`ChildStarts`, `ChildEnds`, `ChildDecided`, `Compacts`, `NoticeDecided`; `Dispose`,
`EndDecided`, `Closed`. Each handler is split where it waits for commands and
where it lets the listeners behind it go on.

*External.* The host's turn, from the decisions the bridge returns;
`mergeHookOutputs`, of the host's hook protocol; the user's interruption; the
session's grants.

*Abstractions.* A suite declares at most one command for a point and its
declarations do not change; a matcher is whether it matches; one tool call and
one subagent at a time. Contexts and reasons are values without text.

*Properties.* `OnlyTheSelected`: a command starts only for the selection asked
for last, while its grant stands, and none that outlives the disposal reaches
the agent. `FailureSplit`: no suite gets both events of one failed call.
`SessionEndRuns`: the grant closes only after every suite selected at the
disposal has run its SessionEnd command, or lost its grant. Liveness,
`EverythingEnds`: every turn ends, however often its stop hooks block, and every
disposal does.

*Bounds.* A suite that splits its tool events and one that does not; two
selections; one prompt and one tool call; a stop hook may continue once (`Cap`,
eight in the code: one continuation already separates counting from not); two of
a start, a subagent, its end, a compaction, a malformed suite, a withdrawn
grant, an interruption and a disposal.

*Fairness.* Commands end or are timed out, listeners and approvals answer, files
are read, and the model stops calling tools.

## 3. What the runs show

Ten runs pass, and between them every action fires. Each property of each has
a mutant of the code that violates it under the run's own configuration.

| run | question |
|---|---|
| `SessionSelection` | do starts, follows, changes, requests, failures and crashes keep the journal, the grants and the acknowledgements consistent? |
| `SharedDemand` | do sessions that select, select again and leave, a changing catalog and a failing server leave every session what it committed, and nothing else? |
| `McpConnection` | do exits, closes, syncs, retries, browser legs and disposal stay within budget and end truthfully, under every setting? |
| `ReconcileScheduler` | is any change lost between the loops, and is each one served? |
| `CatalogState` | do mutations, failures, restarts, shared builds and scans leave any reader behind? |
| `ExtensionInventory` | does any call outlive a revocation, and does every denied agent come back? |
| `McpMounts` | is any wanted server forgotten by copies, takeovers, rollbacks and retries? |
| `LspMounts` | the same for language servers, and does the seam outlive its providers? |
| `Translation` | is any text asked for twice, lost, or brought back after a clear? |
| `ExtensionHooks` | does any hook start for a selection, a grant or a bridge that is gone, and does everything end? |

Findings: each is a run that violates one sentence of the repository.

| run | what happens |
|---|---|
| `SharedToggleRace` | A server is switched off between the two reads of a stage call: the call takes the server as covered by the base, the pass unmounts it, and the session commits without it. |
| `McpRetryResurrects` | A server's retry fires while another retry's pass runs and the pass that disables the server is queued: the replay is computed from the older input, runs last, and mounts the disabled server again. |

Eight more disagreements are stated as definitions of their modules and have no
run of their own. To reproduce one, add it to the module's configuration:

| definition | as | what happens |
|---|---|---|
| `SessionSelection!TokensNeverRepeat` | invariant | A follow commits over two acknowledged requests and the process restarts: replay drops both (`extension-session-state.ts:512`), the follow was numbered past the latest transaction only (`:887`), and the next request gets the token of the second one again; `:670` says that each request carries a revision of its own rather than repeating one. |
| `SessionSelection!TurnKeepsItsResources` | property | A selection is requested during a turn. The turn stops, the stop promotes the request (`extension-session-state.ts:257`), and a Stop hook then blocks or adds context (`extension-hooks.ts:393`): the rest of the same turn runs on the new selection. `docs/reference/acceptance-fixes-2026-10-08.md:23` says that the current turn keeps its committed resources, `docs/user/settings.md:15` that a selection takes effect on the next user request, and the comment at `extension-session-state.ts:198` that a later step of a turn keeps the committed selection. |
| `Translation!ResetLasts` | invariant | The deletion of the cache file fails when the cache is cleared, or the process ends before it: nobody is told (`translation-cache.ts:123`), and the next start reads the old answers back. `docs/user/translation.md:37` says that a reset clears completed entries. |
| `ReconcileScheduler!FollowUpRemembered` | invariant | A follow-up requested while a pass runs is dropped if that pass rejects (`reconcile-scheduler.ts:66`). |
| `CatalogState!CachesFollowCheckouts` | invariant | An install that acquires its checkout keeps the cached scan from before, so neither readers nor the refresh it schedules see the suite until a time to live ends; `snapshot-cache.ts:9` lists acquire among what clears them. A refresh that fails after an earlier source changed announces nothing either (`source-store.ts:296`). |
| `ExtensionInventory!DefaultFollowsCatalog` | invariant | A default capture read before a change and committed after it leaves the agent clean, so the new rows do not join it until the next change. |
| `LspMounts!RetriesWhatFailed` | invariant | After the tool of the seam failed to mount, the next pass mounts the service a second time and blames the profile for a conflict with its own handle, until the last server is gone. |
| `McpMounts!OneCopyServes` | invariant, with three keys of one name | The first copy fails to mount, and the other two, both claimants, take over in one batch (`mcp-mounts.ts:234`). Each finds the name free before it waits for its backend (`:381`) and takes it after, so both mount, unless their tools collide. One is live while the name is the other's; when its configuration moves it is reported as a redundant copy and keeps serving the old one. `mcp-toggle-latency.test.ts:231` says that exactly one copy ends up owning the name. For at most two copies of each name it is a theorem, `OneCopyIsLive`. |

Behaviour of the code that the models have and that no run asks the contrary of:

* *Sessions.* A follow change commits outside the order of requests, and replay
  drops intents written before a commit (`extension-runtime.ts:396`): an
  acknowledged pending request is gone after the next restart; `AckSurvives`
  excepts it by name.
  A promotion that fails has dropped its intent before, and a session that is not
  ready then shows a smaller revision than one it acknowledged;
  `ReadyTokenCoversAck` is stated for ready sessions. A reload of
  the plugin republishes a commit whose flush failed, so `Stored` is the log in
  memory, not the file.
* *Catalog.* A mutation whose save fails is rejected but stays in memory, and the
  next one persists it (`catalog-context.ts:163`); `state-store.ts:6` says the
  file is authoritative.
* *MCP mounts.* A name kept after a failed rollback reports that the server is mounted from
  itself. The flag of a forced remount is spent before the teardown that may
  fail. A retry's pass that rejects is swallowed. `disposeAll` cancels the
  retries only behind its pass, so a timer that fires meanwhile queues one more.
* *Translation.* A failed write is tried again only with the next record.
* *Hooks.* While a selection is being read no suite is selected at all, so the
  hooks of that moment do not run, and a disposal then runs no SessionEnd. A
  selection that is replaced during SessionStart drops the rest of its commands,
  and the start is never replayed; a bridge made for a restarted fiber has no
  selection until the next one. A stop hook's block steers a turn that was
  cancelled meanwhile, and a hook's allow answers an ask after the disposal: both
  check only part of what `collect` checks. Any selected suite that declares the
  failure event silences the PostToolUse fallback of every other
  (`declaresFailureFor`), where `docs/reference/hooks-event-coverage.md:26` says
  that "a suite that declares no matching `PostToolUseFailure` group keeps running
  its `PostToolUse` hooks for failed calls".

## 4. Proofs

All proofs hold for any number of selections, sources, events, faults and
restarts; the assumptions are those named in the modules (such as
`BoundsAssumption`, `ForkedLogsAssumption`, `DirectAssumption`), which TLC evaluates in the runs.

**SessionSelectionProofs.** `TypesHold`,
`JournalAlwaysReplays`, `OneWriterAtATime`, `ReadyGrantsCommitted`. None of the three
safety properties is inductive.
The invariant is

    IInv == TypeOK /\ JournalReplayable /\ Exclusive /\ Hosted /\ Marked
            /\ Linked /\ ReadyLinked /\ StepsKeepSelection

`Exclusive` says which activities may be under way together and what the
published state is meanwhile (a session in a transaction is denied); `Hosted`
ties activities to the host's turn and maintenance; `Marked` bounds flush marks
by the log; `Linked` says that the checkpoint in memory is what a replay of the
log would give, and that the transaction in progress is the log's latest
entry; `ReadyLinked` that a ready session has the committed selection applied;
`StepsKeepSelection` that the steps of a turn since its start or its last stop run
on one selection.
`Linked` is the heart: a transaction's next entry is legal for replay because
the checkpoint it was computed from agrees with the log. That rests on lemmas
about the journal alone: a replay of a prefix agrees with the whole up to there
(`BeforeAgree`), a replayable log stays replayable when cut or when a legal
entry is appended (`PrefixReplays`, `AppendReplays`), and what replay returns
after an append (`AppendFinds`, `CommittedIsLatest`, `TargetOfReplay`). The step
proof has one lemma for each action.

`AcknowledgedRequestsSurvive` (`AckSurvives`) and `ReadyTokensCoverAcks`
(`ReadyTokenCoversAck`) need a second invariant over the first:

    AInv == Serial /\ Forked /\ Recorded /\ Loaded /\ Carried /\ InRequest /\ Held

`Recorded` is what the disk keeps. The last acknowledged request has an envelope
in the durable prefix, its intent or the commit that served it, with a commit of
the session's own before or at it; and every envelope behind that one is `Sound`
for it or stands after a commit that overtook it: a later intent has a greater
token, a commit covers the request, and so does a pending transaction once
something was committed after the record. The form is closed under cutting the log
(`RecordKept`), which is a crash, and under appending a sound envelope
(`RecordAppended`), which is everything else; `RecordCovered` reads the property
off it. What makes each append sound is what memory holds of the request
meanwhile: `Held` says that the pending request, or else the latest transaction,
covers it, with two exceptions: `Lost`, a restart after a recovery or a follow
committed over the request, and `Stuck`, a session that a restart has left behind
an unfinished transaction, whose recovery will commit over the intent (a failed
start loads the checkpoint but not the intents). `Carried` says what a transaction
in progress was begun with: a start runs only before anything was acknowledged, a
recovery names what it gives up, a change writes the token of the request in
progress. `InRequest` does the same for a request that is being flushed or was just
served, `Loaded` for the checkpoint, and `Serial` has the order of requests and
promotions (`chain`) that the code keeps. A transaction that no request names is numbered past
its predecessor (`TokenGrows`), so it covers whatever that one covered: this is why
only a commit over a request that is still live can lose it. The step proof has one lemma
for each action that writes the log, publishes or reads it back, and
one (`QuietKeeps`) for all the others.

`TurnsSwitchOnlyAtStops` (`SwitchesOnlyAtStops`) needs to know where a promotion takes
its selection from, which a stop does not show. A third invariant follows it back
to the request:

    TInv == Numbered /\ HeldAsked /\ PromotionsAsked /\ StopPromotes /\ TurnGrants /\ StopsAsked

`HeldAsked` says that the log has the pending request, `PromotionsAsked` that it has
the request of the transaction that a promotion is about, `StopPromotes` that a stop
runs nothing but promotions, `TurnGrants` that no turn has a selection while none runs
or the session starts. `StopsAsked` is the property at a stop. `Numbered`, that
requests carry positive tokens, keeps a transaction without a request from being taken
for one.

`SelectionIsARegister` is the refinement: with `IInv` at hand, every action of
the service is a step of `SelectionRegister` or leaves its two variables alone.
The lemma behind it is that the step which commits runs while the gates deny
(`Exclusive`), and that the one which opens them publishes what the checkpoint
holds, which by `Linked` is what the log commits to.

**CatalogStateProofs.** `AcknowledgedIsDurable` (`AckDurable`). Memory is ahead of
the file only while a mutation saves or after a save failed; a mutation about to
notify, or to delete the checkout of a source it removed, has saved. Without
the last part an acknowledgement could follow a failed save.

The other four properties are about what is shared: `CachesAreCurrent`
(`CachesCurrent`), `NobodyWaits` (`NobodyWaitsInVain`), `RuntimeIsCurrent`
(`RuntimeCurrent`) and `ReadersSeeAcked` (`ReadSeesAcked`, an action property).
They have one invariant, `CachesInductive`:

    CInv == Shaped /\ ScansCurrent /\ Discovered /\ BuildsCurrent /\ SnapshotCurrent
            /\ Answered /\ ServedCurrent /\ NobodyWaitsInVain

A scan and a build may end after the invalidation that dropped them, so no
property of the caches can be proved from the caches alone. `ScansCurrent` says
what a scan under way will find: one of the generation in force began after the
last invalidation, and only such a scan may be joined. `BuildsCurrent` carries
that to the builds, which hold a scan's result or wait for it, and says that one
revision has one build, so that a reader who waits for a revision knows its
answer. `Answered` and `ServedCurrent` are promises: the build a reader waits
for, or the pass of the runtime, covers what was owed when it was asked, or
will cover it whichever scan it is given.

The same module has the loops that carry a change to the runtime
(`ReconcileScheduler`): `SchedulerTypesHold`, `NothingIsLost` (`RestServesNewest`),
`NothingAfterDisposal` (`DisposedPublishesNothing`). The invariant, `SchedulerInv`,
adds: a queued round has a loop to run it; a pass has read the newest version of an
input, or has not read it, or the input will be read again; a mounting pass has
published what it read; between passes the newest is served or owed. `NothingIsLost`
follows when nothing is owed.

**ExtensionHooksProofs.** `NoSuiteHearsTwice` (`FailureSplit`), `SessionEndIsServed`
(`SessionEndRuns`), `OnlyTheSelectedStart` (`OnlyTheSelected`), for any number of
suites, selections, prompts and calls. The invariant, `InvariantHolds`, is

    IInv == Bridge /\ InForce /\ AllSound /\ Ending

`InForce` says that only the map of the selection asked for last has suites, and
none after the disposal: a pass keeps the map it began with, so a command that
finds itself in its map is of the selection in force. `AllSound` says that a pass
only has suites that declare its point, and that a PostToolUse pass of a failed
call has none that declared the failure event; `Ending` that every suite which
owes its SessionEnd command has run it, lost its grant, or is ahead of the final
pass. `AdvanceOutcome` is the lemma about the loop: it starts the first command
that may run and passes over no other. That a first one exists rests on the
well-foundedness of the naturals (`FirstSuite`).

**McpProofs, the supervisor.** All five safety properties of `McpConnection`:
`OneServerRuns` (`OneServer`), `RestartsArePaid` (`BudgetRespected`), `PhaseIsTrue`
(`PhaseTruthful`), `ListStaysInStep` (`NoListChangeLost`), `NothingIsLeft`
(`EndedHoldsNothing`). The invariant, `InvariantHolds`, is

    IInv == Sup /\ QInv
    Sup  == Typed /\ Lineage /\ Reported /\ Budget

`Lineage` says that only the newest generation is alive and that its predecessors
have ended with their processes; `Reported` tells the phase from the newest
generation; `Budget` is an account: each generation is charged to the first start,
to an authorization, or to the attempts of the start and of each connection that
outlived the stability window, and an armed retry is charged before it fires.
`BudgetRespected` alone is not inductive, because the attempts spent since the
last renewal are forgotten when the next one is granted; the account carries
them. `QInv` adds the queue of syncs: the first sync of the newest generation is
queued exactly while it is awaited, tools of a given-up server have their
disposal queued, and a list that is not registered is being read or will be.

**McpProofs, the registry.** `NoServerIsForgotten` (`NoneForgotten`) and
`OneCopyIsLive` (`OneCopyServes`) of `McpMounts`, for any number of servers, names,
configurations, changes, faults and forced remounts. They have one hypothesis,

    TwoCopies == \A i, j, k \in Keys : NameOf[i] = NameOf[j] /\ NameOf[j] = NameOf[k] => i = j \/ j = k \/ i = k

that no server is shipped by more than two suites. It is not a convenience: with
three copies TLC finds both properties violated, since two claimants of one name
may take it over in the same batch. The invariant, `MountsInvariantHolds`, is

    MountsInv == TwoCopies /\ MountsType /\ Counters /\ Orderly /\ CarriedOut /\ NoneForgotten
    Orderly   == Disposing /\ Staged /\ Placed /\ Named /\ Single /\ Redundant

`NoneForgotten` speaks of a registry at rest and says nothing of how it came there.
`CarriedOut` is its counterpart while a pass is at work: unless something is pending
behind it, the pass wants what the world wants, and each server it wants is being
mounted, has thrown and will be retried at the end of the batch, waits as a
claimant, or is covered already: live as wanted, due for a retry, given up, or
excused. The excuse "a copy serves the name" is the delicate one, since that copy
may itself be torn down or fail: `Named` says that a name which is owned is served
or was taken for a handshake under way, `Single` that a batch has one addition of a
name (here the hypothesis is used: at most one claimant is left to take over), and
`Redundant` which copies can have been reported redundant at each stage.
`AdditionCovers` and `OthersCovered` show that a step of one addition leaves its
own key covered when it is over, and the others as they were. Two consequences are worth
a reader's time: `AloneWithItsName`, that while one copy of a server is being mounted
the other is not worked on, and `NothingToFree`, that when a batch is
over every owned name is served, so that the cleanup of `unexpectedFailure`
(`mcp-mounts.ts:311`) never deletes one.

**ExtensionInventoryProofs.** `RevocationIsSeen` (`RevocationHolds`), for any number
of readers, changes and failures. The invariant, `InventoryCurrent`, says that a
read whose epoch is the current one began after the change that opened the
epoch, whoever holds it (a refresh, a commit, a panel), so that a cache which is
not stale is no older than that change. A read is published only in its own
epoch, which is what makes it inductive.

`NobodyIsAbandoned` (`NobodyAbandoned`) needs more, since a call that ends, a
commit that fails and a timer that fires all take away what would have refreshed
a denied agent. Its invariant, `DeniedIsCarried`, is

    RInv == RTyped /\ Exclusive /\ Marked /\ Halted /\ Owing

`Owing` says that a dirty agent is carried (by a timer, a refresh, a call before
or in its read, a recovery), or that the inventory is current, the commit in
flight applies the newest epoch, and the agent, if ready, is followed by a call
that is catching up with its selection. The second case is where a hand-over could be dropped: such a call ends with a
commit that declares the agent clean, or arms the retry. `Exclusive` keeps a turn
or a second commit from running beside a refresh, and `Marked` says that a
refresh of the newest epoch has not been overtaken by a change. `CallsAssumption`
says that no call is named like a kind of commit, which is how a commit
tells whom it serves.

**LspMountsProofs.** `TypesHold`, `NobodyOutlivesTheSeam` (`SeamOutlivesProviders`),
`NobodyIsForgotten` (`NoneForgotten`), for any number of servers, changes, faults
and restarts. Both properties speak of what is left when passes are over, and
neither is inductive. The invariant, `InvariantHolds`, is

    IInv  == TypeOK /\ Counters /\ Sound /\ InStep /\ NoneForgotten
    Sound == Disposing /\ Staged /\ Seamed /\ Flagged

`Seamed` says what is mounted of the seam at each stage of a pass: a seam is
mounted while no server is up, tool after service, and what was resolved stays
whole until a pass finds nothing left to serve. `InStep` speaks of a pass behind
which nothing is `Pending`: it was given the configurations in force, what it has
dealt with is as it wants it (`Covered`), and what it has not is still `Ahead`. Any
change of the environment makes something pending (`EnvironmentPends`), so the
steps that count are those of a pass: of one server (`ServerInStep`, from what a
step does to its own server and leaves of the others, `OneServed` and
`OthersStay`) or of the seam. `NoneForgotten` is what `InStep` says at the end of a
pass. `RetryOutcome` is the lemma about the schedule of `MountLifecycle`.

**SharedDemandProofs.** All five properties of the reconciler: `ReceiptsAreBacked`
(`ReceiptBacked`), `RestIsServed` (`RestServes`), `RestIsFree` (`RestFrees`),
`NobodyIsStranded` (`NobodyStranded`), `OthersAreLeftAlone` (`OthersKeepTheirs`),
for any number of sessions, calls, changes and faults and any finite set of
servers. The invariant, `InvariantHolds`, is

    IInv == Typed /\ Tokens /\ Work /\ Refusable /\ Balance /\ Backed
            /\ Ends /\ Departed

The properties speak of rest, so by themselves they say nothing about the steps
on the way there. `Tokens` ties every call to the slot of its session. `Work`
gives each waiting call exactly one job, queued or running, and is what makes
`NobodyStranded` hold when the queue is empty. `Balance` says that what is
mounted is what is wanted, or a pass is queued, requested or running that plans
for it; it survives a refused activation only because of `Refusable`: the refresh
that withdrew its servers is queued behind it. `Backed` says that the servers of a
held or committed receipt are in the plan of every pass of the catalog in force,
the one under way included; `OthersKeepTheirs` is that invariant at the step that
lands a pass. `Departed` says that what an agent left behind
is released, or that the release is queued.

**TranslationProofs.** `QueueIsSound` (`QueueSound`) and `CacheIsSound`
(`CacheSound`), for any number of fields, texts, paragraphs, providers, batches,
failures, clears and restarts. The invariant, `InvariantHolds`, is

    IInv == Typed /\ QInv /\ FInv
    QInv == Sorted(pending, inflight, active, runs) /\ OneEach(Jobs) /\ Owned /\ Gone
    FInv == Tainted /\ Lasting /\ Saved /\ Complete

`Sorted` is about the queue as it is handed from `Ends` or `Enqueue` to `Pump`, so
it is an operator of four arguments and not of the variables: the batches in force
hold disjoint, non-empty sets of jobs whose union is what runs, and none of these
jobs is queued. That a pump keeps it is arithmetic of the slices it cuts
(`BatchSpan`, `BatchesSplit`): n batches are n disjoint pieces of the queue, and
what is left is the rest in its order. Without the disjointness `active` could
count two batches that are one set.

`CacheSound` speaks of the end of the file's queue, and nothing about it can be
shown from the end alone. `Lasting` says of every operation on its way, and of the
file, that it is fresh or that a deletion stands behind it; a failed deletion
shows in `undeleted`. `Tainted` is the other case, memory that was itself loaded
from a file that should have been deleted: it says that such a memory keeps an
answer which no batch will replace (`Anchored`), and that no operation in the queue
is fresh. It is needed because a later write of that memory must not clear
`undeleted`. `Saved` says that the last write holds the entries or a write is owed,
and that a write which may have to be repeated is of the present era. `Complete` says of
the memory, the file and every write on its way that a paragraph in it is served
(`Served`) by the parts of a paragraph of its text, and of the answers by text that
memory has those parts: the second half is what a paragraph answered from another
document rests on, and it holds because a clear drops both at once. Most steps are
alike to the cache: they are instances of `Remembers /\ Tells`, for which one lemma
(`RemembersKeeps`) shows all four.

Only model-checked: liveness under fairness, which is out of the prover's reach.
Every invariant that a passing run checks is stated by a theorem.
`SessionJournal` avoids recursion over the log, since induction over data is out
of the prover's reach: replay is stated by the latest entry that satisfies a
condition, which is what the loop in the code computes.

## 5. Not modelled, and why

Data and I/O without state between calls: suite scanning, tool projection and
transports, contracts and redaction, rendering in the web interface, the HTTP
routes, the skills and scripts of the plugins the repository ships, and its
build and release tools. They are most of the repository's lines; a model of
them would be a copy.

With state, and left out:

* The OAuth grant: a merge of one record by two processes, racing in a file
  outside either. The lost update is evident from `oauth.ts:394`; a model would
  add the browser's leg, of which 2.3 has the outcome.
* Presets, settings, output style, tab layout and direct servers: single
  documents, each behind its own queue, with a read, a change and a write.
* Role router and teammates: composition of prompts and calls of the host.
* Of the modelled parts: local and adopted sources, whose files the market does
  not write, and `mergeSources`, which runs before anything else (2.5); the
  contributors a session mounts besides hooks; two processes over one
  translation cache.

What would come next: `McpMounts` as an implementation of
the adapter of `SharedDemand`; the OAuth grant; the allocator of command names
against a reference definition.
