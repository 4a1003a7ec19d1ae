# Formal model of trainingapp

TLA+ modules, TLC configurations and TLAPS proofs for the concurrent and
stateful core of trainingapp v3, the offline document question-answering
application. The modules follow the TypeScript of `desktop/main` and `web_ui/src`;
paths below are relative to the repository, `backend/` stands for
`desktop/main/backend/` and `web/` for `web_ui/src/`.

- [1. The system](#1-the-system)
- [2. The modules](#2-the-modules)
- [3. Runs](#3-runs)
- [4. Disagreements found](#4-disagreements-found)
- [5. Fairness](#5-fairness)
- [6. Proofs](#6-proofs)
- [7. Not modelled](#7-not-modelled)
- [8. Plan](#8-plan)

## 1. The system

An Electron main process hosts a Node backend (`NodeBackendHost`) that serves
an HTTP API to the renderer. The backend is single-threaded: between two
`await`s nothing else runs. Concurrency comes from the awaits, from timers, from
the retrieval worker thread and from child processes. The same user interface
runs in a browser without that backend: there the tabs of one origin are the
processes, and IndexedDB, OPFS, `localStorage` and Web Locks are what they share.

| component | state | operations | hard behaviour |
|---|---|---|---|
| Corpus store (`backend/store/sqlite-store.ts`, `migrate.ts`, `contracts/store.schema.sql`) | documents, chunks, vectors, FTS rows, claims, pack registry, meta | open/migrate, reconcile claims, backup, recover | crash between staging and commit; reconciliation on every open |
| Pack manager (`store/pack-manager.ts`) | promise queue of verbs, managed directories | install, supersede, rollback, remove | registry read before the embed await and written after it; content shared between packs and the user |
| Ingest pipeline (`ingest/pipeline.ts`, `store/document-surface.ts`) | promise queue of uploads, bound store handle | ingest file/directory, Clear Cache | extraction and embedding awaited before the write; Clear Cache swaps the store under everybody |
| Retrieval (`retrieval/hybrid.ts`, `reranker.ts`, `rerank-worker.ts`, `memory/idle-unload.ts`) | worker runner generations, pending jobs, idle timer, failure latch | search, embed, score, unload, dispose | unload and crash against jobs in flight; one onnxruntime thread |
| Scheduler (`memory/scheduler.ts`) | FIFO of generations, running set, paused ingests | runGeneration, waitForGenerationEnd, rejectQueued | lost wake-ups, slot accounting |
| Memory governance (`memory/budget.ts`, `backend/index.ts` memoryTick) | streaks and latches of the monitor, tick exclusion, profile override | sample, downgrade, upgrade | a tick suspended across stop and start; oscillation |
| Inference engine (`inference/llama-engine.ts`, `gpu-probe.ts`) | resident model, load in flight, generation queue, admission gate | load, warm up, query, stream, GPU test, shutdown | profile and lifecycle captured before awaits; load replaced under a generation |
| Host (`backend/index.ts`) | start flight, server, surfaces | start, stop, restart | start during stop's awaits |
| HTTP server (`server.ts`) | open streams | routes, SSE | one terminal event, cancellation |
| Sidecar manager (`sidecar-manager.ts`) | child, restart budget, timer | start, stop, restart with backoff | a timer that outlives stop |
| Backup and recovery (`store/backup.ts`, `recovery.ts`, `recoverOrDegradeStore`) | store file and log, backup directories | back up, check integrity, restore, start fresh | the log of a foreign reader; a crash between two file operations; what counts as damage |
| Update checker, first-run wizard, security policy, logging (`desktop/main`) | persisted flags, channel | check, download, verify | mostly sequential |
| Browser conversations (`web/db/conv-protocol.ts`, `hooks/useConversations.ts`, `lib/session`, `lib/storage`) | a database per profile with its epoch, the clear record, what each tab shows | save, stream, clear, replay, switch profile | a write that lands after another tab's clear; tabs that die during one; events that do not come |
| Browser packs (`web/lib/packs`) | registry rows, version directories, keyword and vector index | install, roll back, remove, embed, check, sweep | rows read before a long write; hooks after the commit; sweeps against installs |
| Rest of the browser app (`web_ui/src`) | models, workers, settings | load, watch, answer | watchdogs against late answers |
| packtool, legacy Python | files | build, serve | sequential |

How they interact: the server calls the engine, the engine calls the retrieval
surface and the document surface; uploads and generations meet in the scheduler;
the pipeline and the pack manager write the same store through two unordered
queues and share content through `doc_claims`; query, pack and ingest embeddings
all go through the one retrieval worker; the memory tick asks that worker for
its counters and sets the engine's profile override; Clear Cache replaces the
store handle and re-binds the pack manager. The host's start opens the store and falls
into recovery when that fails. In the browser a pack change calls the index hooks,
which start the embedding pass; a clear reaches other tabs as a storage event.

What makes each part correct, and the properties that say it, is in section 2;
what can go wrong, line by line, is the `hazards` list of `PROJECT.json`.

## 2. The modules

| module | models | composes |
|---|---|---|
| `SharedContent` | what the store promises about shared content | |
| `PackStore` | store, pack manager, pipeline writes, Clear Cache, stop/crash/start | implements `SharedContent` |
| `PackStoreProofs` | theorems about `PackStore` | extends `PackStore` |
| `GenerationScheduler` | `ConcurrencyScheduler` and the ingest seam | |
| `MemoryGovernor` | pressure monitor, `memoryTick`, stop and start of the sampler | extends `GenerationScheduler` |
| `MemoryGovernorProofs` | theorems about the scheduler and the governor | extends `MemoryGovernor` |
| `RetrievalWorker` | `WorkerReranker`, `ResumableReranker`, idle unload, the search latch | |
| `RetrievalWorkerProofs` | theorems about `RetrievalWorker` | extends `RetrievalWorker` |
| `LlamaEngine` | the local inference engine: resident model, queue, load, gate, pause, stop, verdict | |
| `NodeBackendHost` | boot admission, GPU test, start and stop of the host around the engine | extends `LlamaEngine` |
| `NodeBackendHostProofs` | theorems about `NodeBackendHost` and its engine | extends `NodeBackendHost` |
| `NodeBackendDeviceProofs` | theorems about who holds the GPU | extends `NodeBackendHostProofs` |
| `StoreRecovery` | the store file through backups, damage, starts and recovery | |
| `StoreRecoveryProofs` | theorems about `StoreRecovery` | extends `StoreRecovery` |
| `ConversationTabs` | tabs over one conversation database per profile | |
| `ConversationTabsProofs` | theorems about `ConversationTabs` | extends `ConversationTabs` |
| `BrowserPacks` | packs in the browser: registry, files, indexes, embedding, health check, sweep | |
| `BrowserPacksProofs` | theorems about `BrowserPacks` | extends `BrowserPacks` |
| `MC*` | instances for TLC | |

### PackStore

A document is its sha256. `path`, `cut`, `claims`, `status` and `pending` are
the tables `docs`, `chunks`(+vectors, FTS), `doc_claims`, `packs` and the
`doc_claims_reconciled` marker; `managed` and `unreadable` are the retained
`pack.json` files; `handle`, `opens` and `retrieval` say which opened store the
host and the retrieval surface hold. A document's chunk rows are one value, the
*cut* that produced them: chunk ids hash document, index and text, so equal cuts
give equal ids and different cuts collide on `UNIQUE(doc_id, chunk_index)`.

A verb that embeds is two steps. `BeginInstall`, `BeginRollback` and
`BeginSupersede` do what the code does before it awaits the embedder: the guards,
the outgoing rows, the staged directory. `CommitInstall` and `CommitActivation`
are the transaction with all of its deletes, inserts and flags. `FailVerb` is
the embedder's rejection, a constraint violation or a closed handle. Verbs that
do not embed (`Remove`, `SupersedeToActive`) are one step. `op` holds at most
one verb, which is the pack manager's promise queue; `ingests` holds at most one
upload per pipeline, and a pipeline belongs to one handle. Nothing orders the
two, nor Clear Cache, as in the code.

`Deleted`, `Claimed` and `Write` are the claimant-aware writer shared by
`deleteDocumentLocked`, `insertDocsAndClaimLocked`, the chunk writers and the
pipeline's stale cascade.

`Scope` selects optional behaviour, so that a run can ask what holds with and
without it: `supersede` (a method of `PackManager` that no route calls),
`remove_version` (`POST /packs/remove` with a version), `clear`
(`DELETE /documents`), `damage` and `damage_live` (a `pack.json` that becomes
unreadable while the host is down, or at any time).

`SharedContent` is the contract: each transaction moves only its actor's hold
(the user's, or the packs'), a document is live exactly while it is held, and
the store can be wiped. The refinement maps `holders` to `claims` and `live` to
the stored documents.

### GenerationScheduler

`queue`, `running` and each ingest's place on the seam; a module of actions,
checked in `MemoryGovernor`, whose host stops and replaces the scheduler. The `finally` callback of
a generation decrements, releases the waiters and pumps in one go, so `Finish`
is one step.

### MemoryGovernor

Extends the scheduler. Free memory is one bit (below the threshold or not);
streaks are ages that saturate at their window. A tick is `BeginTick` (admission,
up to the await of the worker's report) and `EndTick` or `FailTick`;
`ticks[e]` counts the suspended ticks of epoch `e`, so that a tick of a stopped
host can come back at any later time. `SkipTick` is the timer firing while a
tick is suspended. `Stop` is `stop()` up to its first await, `Stopped` the rest
of it.

### RetrievalWorker

`runner` is `ResumableReranker.runner`, `worker[k]` the `worker` field of the
k-th `WorkerReranker`, `thread[t]` the runner of the t-th worker thread and `up`
the threads that still run: a disposed runner's thread runs on until
`terminate()` resolves. A job is a caller in an asking phase together with the
runner that holds it; `PendingOn(k)` is the `pending` map. A search embeds,
scores, and on a failure turns the surface's latch off and embeds again for the
fused ordering; an ingest or pack build embeds once; a memory tick probes.
`Exit`, `WorkerError` and `Terminated` are the thread's `exit` and `error`
events and the tail of `dispose()`, each with the catch branches that the
rejections run before the next event (`Fail`). Error texts that make the
catch branch dispose the runner are a Boolean; a job error reported by the
worker is taken not to match, and an SQL error after the embedding counts as
such a job error. The surface, its wrapper and the idle controller are built
once: a restart builds new ones, with no shared state.

### LlamaEngine

`ops` holds every operation on the engine with its place: at the admission gate,
in retrieval, on the queue, in its load, generating, or freeing. An operation is
a query, an external query, a warmup (named for the GPU test or the boot that
runs it) or the release that a switch to an external endpoint chains on the
queue. `queue` is the chain of promises `this.queue`; its head is the section
that runs. `loadInFlight` is the head's being in one of the load's stages, for
only the queued section loads. `call` and `waits` are the awaited
`joinLoadAndQueue` and `dispose` of a GPU test or a stop, which run beside the
queue: `waits` is the tail they captured. `contexts` counts native contexts from
the start of their construction to the end of their teardown; `resident` is the
field, set to null before the teardown is awaited.

`Section` is the head's turn: the second check of a query, the identity test of
`ensureResident`, and the start of a load, which releases the old model first
(`StartLoad`, `Released`). `LoadFails` is the chain of fallbacks: an admission
estimate is retried without the check, any other GPU failure publishes a CPU
verdict and builds on the CPU, whose failure fails the operation.

The profile is any of two at each reading (free memory, the setting and the
pressure override decide it in the code); `inference.vulkan` is `auto`.

### NodeBackendHost

Extends the engine. `Start` is the first lines of `runStart`; `Listening` its
success, with the begin of `runBootAdmission`; `boot[l]` is the flight of life
`l`: device query, full probe, `ended` (its gate resolved), `done` (the warmup
that follows it called). `tests[f]` is one `coordinatedGpuTest`, each step one
stretch between two of its awaits, with the fence on `stoppedAt` that the stretch
begins with. `stop()` is `StopCalled` (the stamp, and the wait for a start),
`Teardown` (the synchronous block, which kills the probe children),
`DrainForStop` (the tail: resume and join), `Shutdown` and `StopEnds`.

A child is killed by a stop and not awaited: its flight settles later, also
after the next start, when `Overlap` is set. Promise reactions run before the
event loop takes the next task, so `Next` takes a task only when nothing is
`Pending`; which of several reactions comes first is left open, but for a
release behind a dispose that was called before it. A start during a stop is
left out: the comment at `index.ts:1252-1260` says that callers await in
sequence.

### StoreRecovery

What a database holds is the set of its commits. `main` and `wal` are the store
file and its log; a log leads from one set to a later one, and over a file it
does not lead on from SQLite's result is `Mixed`. Damage is `broken` (the open
fails) or `hidden` (only the integrity check does); a file that does not `fit`
has other dims or a newer schema. `BackupCopies` is `createBackup` up to the
rename: the checkpoint with its refusal, and the copy to the `.part`;
`BackupPublished` the rename. `Start`, `StartLocked` and `StartWithoutAddon` are
the open of a host's start with `checkStoreIntegrity` when it fails. The recovery
is split where a process can die: `ChooseRestore` (the copy begins), `Copied`,
`RemoveLog`, or `ChooseFresh`, `Emptied`; then `Reopen`. Each of these can fail.
The copy throws and leaves what it had written (`CopyFails`); the removals of the
log and of the file fail and the recovery goes on (a disjunct of `RemoveLog`,
`ChooseFresh` and `Emptied`), as `backup.ts` and `recovery.ts` catch such errors;
the open is refused by a lock or an extension that does not load (`ReopenRefused`).
After a failed copy or open the host has no store. `headless` says that no
`onStoreCorruption` prompt is wired, `DimsConfigured` that the host is given
`storeEmbeddingDims`.

Two history variables relate what a host serves to the recovery it comes from,
which may be some deaths and failed starts ago: `promised` is what the recovery
put in place, and `mishaps` what failed or was cut of it (`copy`, `file`, `log`,
`open`), both until a host serves (`Settled`).

### ConversationTabs

A stored conversation is its age, the epoch of the database when its oldest
message was written: a row older than its database's epoch has come back from a
clear. `epoch` and `rows` are the databases by profile, `pending` and `completed`
the record in `localStorage`, `home` the profile key, `shared` and `exclusive`
the Web Lock `docqa-session-active`. Of each tab: `profile` is the database its
document opened (fixed at import, so a tab can outlive a switch), `bound` is
`stateEpochRef`, `view` and `listed` what it shows, `turn` the question under
way, `saves` its transactions in flight, `job` the clear or replay it runs,
`notices` the storage events it has not handled, `armed` its inactivity timer.

`Send` saves with the epoch the tab is bound to, `Land` is `withEpochGate`'s
transaction, `Finish` the end of a stream with its save. A clear is `IdleClears`
(exclusive lock, handlers), `Record`, `Apply`, `Complete`, one per await;
`ApplyFails` its transaction's failure; `IdleReplays` and `BootReplays` start a
replay of a recorded one.

A person may act in every open tab at any time. A clear stops nobody: the shared
lock that `Active` asks for is refused while one runs, and `handleSend` goes on
without it, which the turn remembers (`held`). Acts in a tab that a clear has
overtaken (it runs, its event is not handled, or its text is still on screen) are
counted by `late`, so that properties can say what holds of the others.

A boot adopts the conversations of older builds, which lie in one database that
all profiles shared (`legacy`). `claim` is the claim in that database, `marker` the
done marker in `localStorage`, `adopt` the adoption a booting tab runs:
`AdoptBegins` (the claim, or under the marker the epoch read anew), `AdoptCopies`
(gated on that epoch; superseded when a clear came between), `AdoptMarks`,
`AdoptDeletes`. `AdoptFails` is any await of these that rejects, and a tab may be
closed between any two. The history variables `copied` and `readopted` say how old
the adopted text is and whether it has been copied again after a clear.

`Scope` admits what a run may leave out: `switch`, `fail`, `legacy`.

### BrowserPacks

`rows` is the registry, `dirs` the version directories, named by the install that
wrote them, `keyword` and `vector` what the two indexes hold at each document's
place: 0 or the version whose text is there (a place is the same for all versions
of a pack). `lock` is the Web Lock of a pack. A tab's `op` is a lifecycle
operation at one of its awaits, with the rows it read before them in `out`: an
install is `BeginInstall`, `InstallWritten`, `InstallCommits`, `InstallCleans` (the
last three under the lock) and `InstallHooks` (after it). `pass` is the embedding
pass, with its rerun flag `again`; `health` the index check of a start, `sweep`
the orphan sweep. `Crash` closes a tab at any point; `MaxFaults` bounds crashes
and failing writes together, `MaxRequests` what a person asks for.

## 3. Runs

Instances are small but hold what matters:
two packs that share a document, two or three versions, two paths, two chunkings
(a pack's and the pipeline's) and up to two opens of the store are enough for
every pair of writers to meet over one document; two epochs and a suspended
tick per epoch are enough for an old tick to meet a new one; two tabs and two
profiles for a clear to meet a writer and a stale reader; two versions in one
pack for a flip to meet everything that reads the registry.

| run | shows |
|---|---|
| `content` | with supersede, single-version removal, different chunkings and Clear Cache in scope, content is stored exactly while claimed, no verb takes the user's claim, and the store implements `SharedContent` |
| `registry` | three versions, one superseding another pack, manifests damaged while the host is down: at most one active version per pack; packs' claims are those of active versions and go only with their own pack's rows; the user's documents are retrievable |
| `governor` | one slot, the default: slot accounting, every queued generation and paused ingest goes on; ticks exclude each other across restarts, the override follows the monitor, profile switches only on sustained evidence and between generations, and lasting pressure and recovery do switch it |
| `host` | two lives, two query slots, a GPU test: one native context, no disposal under a generation, probes of an unloaded device, an unloaded engine after a stop, nothing of an old life served in a new one |
| `host_progress` | every query is answered or refused, every pause of a test lifted, every stop resolved |
| `jobs` | no thread or runner leaks from the idle unload, old failures take no replacement down, every job is answered or rejected |
| `tabs` | two tabs, two profiles, switches, adoptions and failing clears: nothing comes back from a clear but by a repeated adoption (acts in overtaken tabs are left to the other run) |
| `tabs_progress` | a clear that is cut off twice, or a person who acts while one runs: no clear runs under a turn that got the lock, a stale screen is going to be told; a recorded clear happens and its text leaves every screen |
| `recovery` | a published backup is complete and an undamaged store loses nothing to locks, missing addons and crashes. With copies, removals and opens that fail: a recovery serves exactly the newest backup or nothing unless the old file or log outlived it, and a host without a prompt recovers unless something of its recovery fails |
| `browser_packs` | one active version per pack, no row without its files, what is activated gets embedded, a start finds what a dead tab left unindexed |

`remove_version` and `restore_dims` each exhibit one disagreement of section 4.

Bounds: `MaxOpens` (opens of the store file), `MaxLives` (starts of the host),
`Flights` (GPU tests, each called once), `MaxEpochs` (stops of the sampler's host),
`MaxTicks` (suspended ticks per epoch), `MaxCrashes` (threads and jobs that fail
by themselves), `MaxEpoch` (clears of one profile), `MaxCuts` (clears that die or
fail; processes that die during a recovery), `MaxLate` (acts in tabs that a clear
has overtaken), `MaxSaves` (saves in flight of a tab whose user sends),
`MaxCommits`, `MaxBackups`,
`MaxDamages`, `MaxRequests` (operations on packs) and `MaxFaults` (tabs that die,
and writes that fail). `RetrievalWorker` needs no bound on runners and threads: each
caller asks at most three jobs. That makes its instances finite, and they stop
when every caller has been served and the host is closed, so deadlock is not an
error there.

`host` has the two lives that a stop and a start need, and no `Overlap`: section
4 shows what a flight of an earlier life does. Queries there come again without
bound; two slots let one wait behind the other. `host_progress` has one life, for
a later one differs by the flights left over, and one slot; with a test's and
the boot's warmup the queue still holds three operations. A host may be stopped
and never started again, so deadlock is not an error in either.

`tabs` has two profiles, for the adoption goes to whichever profile boots, and one
clear of each. The text of a cleared conversation comes back in two ways, which
section 4 names: an act in a tab that the clear has overtaken, and a repeated
adoption. `ClearedStaysCleared` and `StaleViewIsNotified` say what holds when
neither has been taken (`Unspoilt`). `MaxLate` is 0 in `tabs`, and the constraint
`NothingReadopted` ends a behaviour there at a repeated adoption, beyond which the
property says nothing.

`tabs_progress` allows two cut-off clears, so that a clear meets the record another
one left: recording the same goal again changes nothing in `localStorage`, for which
the browser sends no event, and the replay still owed has to make up for it. It has
one profile, for the record holds one pending clear and a clear of another profile
overwrites it. The constraint `LateOrCut` searches acts in overtaken tabs and
cut-off clears one apart from the other; the premise of the liveness properties is
that there are no such acts.

`recovery` has `storeEmbeddingDims` configured, since without it no recovery
succeeds (section 4), and no exclusive lock. Two commits, two backups, two damages
and two crashes put a log, a backup and a file of three different ages together.
What fails of a recovery needs no bound.

`browser_packs` has one tab, which can die and be opened again; its background
work (embedding, health check, sweep) and its requests interleave as tabs do. Two
tabs with fewer requests show no violation either, in a run too long to keep.
The browser can always be closed for good, so deadlock is no error.

The properties of `registry` are checked without `supersede`, `remove_version`
and `clear`: section 4 shows what those break. (Superseding a version by itself
also drops and re-adds content without a change of the flags that
`PackClaimsKept` reads.) `PausedIngestGoesOn` is a property of one slot,
the default; with more slots overlapping generations need not leave a gap.

## 4. Disagreements found

Two have a `violation` run and an entry under `findings`, with the text they
contradict.

1. `remove_version`: removing an inactive version releases the claim of the
   pack's active version on shared documents.
2. `restore_dims`: `recoverOrDegradeStore` compares backups with
   `storeEmbeddingDims ?? 0`, no shipped host sets it, and so every valid backup
   is refused and the host goes on without a store.

More follow from the same modules. These have a definition that says what does
not hold, and no run of their own:

- `RetrievalIsBound`: searches keep using the store handle that Clear Cache
  closed, although `document-surface.ts:144-146` says that "the host keeps
  serving from the same path immediately".
- `UnloadIsIdle`: a job longer than the idle window is terminated by the idle
  unload. A document is embedded in one job, so a large one may be.
- `OneThread`: after an unload two onnxruntime threads can run at once, which
  `rerank-worker.ts:5-8` says aborts the process.
- `StopEndsTheTest`: a GPU test that a stop should have ended goes on in the next
  life. Its fences compare `stoppedAt` with the null it captured, and the start
  has set it to null again (`index.ts:518-520`).
- `BootShowsNothingPending`: the watch that `App.tsx` starts before
  `useConversations` takes the tab's own shared lock, so the boot replay, which
  needs the exclusive one, defers to its own tab (`conv-protocol.ts:434-435`).
- `NoClearUnderATurn`: "An idle tab can never clear under an active colleague"
  (`conv-protocol.ts:13-14`). A question sent while a clear runs is refused the
  shared lock and goes on (`conv-protocol.ts:130-133`, `inactivity.ts:105-113`).
  While its first save is awaited the handlers do not cancel it; what it saves
  later carries the text from before the clear with the epoch bound since, so that
  `ClearedStaysCleared` would fail without its premise. `NoClearUnderAHeldTurn` is
  what does hold.
- `NoResurrection`: "No resurrection is possible" (`conv-protocol.ts:559-560`). A
  tab dies between the done marker (724) and the deletion of the older database
  (725) and the copy is cleared; the next boot copies the rows once more, under the
  epoch it reads then (617), so the gate admits them. A claim that is done names no
  epoch, so without the marker a claim is bound anew too (690). A superseded
  adoption drops its claim (736-741) and a later boot makes another. The surviving
  database also goes to whichever profile boots next, and a conversation that the
  user has removed comes back with it.
- `RecoveryIsExact`: "Replace the active store with a VALIDATED backup"
  (`backup.ts:172-174`), and "deletion failures resurface on the open below"
  (`recovery.ts:122`). The removal of the old log fails, or the process dies between
  the copy and that removal: SQLite applies the old log to the backup. Or the
  deletion of the file fails when starting fresh, where a lock of another program
  had kept the store from opening and the damage is one that only the integrity
  check sees: once the lock is gone the open succeeds on the damaged store.
- `IndexFollowsActive`: an embedding pass that awaits the encoder while its
  version is removed or replaced adds its vectors afterwards, for good
  (`browser-pack-manager.ts:363-365` says that only the active version is in the
  indexes; the health check never removes anything).
- `InstallCanCommit`: a pack with another chunking cannot be installed while
  somebody else keeps one of its documents, although `pack-manager.ts:1138-1139`
  says that content is shared.
- `EmbeddingStartsIdle`: a finished generation releases the paused ingests and
  starts the next one in the same callback, although `pipeline.ts:269-271` says
  that the seam "resolves the moment no generation runs".
- `StopFreesTheDevice`: a stop does not wait for a GPU test, whose unload may
  still be freeing the model when it resolves. It also lifts the test's pause, so
  that while the host stops a query can load beside that model; therefore
  `OneContext` and `GeneratesOnResident` speak of a host that is up.
- With `supersede` in scope, the superseded pack's claim on a document that the
  new pack keeps survives and later hides the document from a user who holds it
  (`UserDocsRetrievable`). The same comes of an install that supersedes another
  pack and carries a document of it at the same path, since the delete before the
  re-ingest goes by path; and of a manifest that becomes unreadable while the host
  is up, since the verb that follows releases nothing for it
  (`PackClaimsAreActive`).

An install that supersedes an inactive version of another pack takes content from that pack's active version, as in 1. A rollback that is
embedding when the cache is cleared commits content for a pack without a row.
`supersede(from, to)` with `from` inactive and a third version active leaves two
active versions; no route calls it. A search whose worker fails degrades to a
search that embeds through the same worker. A boot admission whose killed child
settles after the next start warms the engine of that life.

Recovery: `checkStoreIntegrity` takes every error of the check for damage, a lock
included (`recovery.ts:87`), although `index.ts:1508-1511` says that a locked file
degrades. ADR 0006 has integrity checked at each start and the latest *valid*
backup restored; the code checks after a failed open only, and takes the latest.
A copy that throws, or a death of the process during one, leaves a part of the
backup. When that part opens it is served without a prompt at the next start, for
only a failed open is checked, although `recovery.ts:3-6` has the prompt before
anything is served from a store that cannot be trusted.

Conversations: after a switch of profile a clear overwrites the one pending slot
of the record and the other profile's clear is lost. Choosing another
conversation while a save is awaited merges the two turns (`Kept`). A clear whose
transaction fails leaves the watch without a timer until the next activity.

Browser packs: an install that supersedes a version of another pack writes that
row back as it read it before the long write and outside the other pack's lock;
it can resurrect a removed row without files. `clearAll` takes no lock and can
leave an install's row without files. The health check compares documents, not
versions, so the text of a replaced version can stay. One version that fails to
embed ends the pass for all.

## 5. Fairness

- `Finish` of a generation is weakly fair: token budgets and endpoint timeouts
  end it.
- The sampler's interval timer and the clock are weakly fair.
- `ProfileFollowsMemory` has the premise that the worker
  keeps answering (`WorkerAnswers`, strong fairness of `EndTick`, since stops may
  interrupt it). Nothing in the code enforces that, so it is no part of the
  specification.
- In `RetrievalWorker`, a thread that stays up answers, and `terminate()`
  resolves. A session that hangs without exiting is outside the assumption: the
  code has no job timeout.
- In `NodeBackendHost`, reactions are weakly fair and each task strongly fair: a
  task is not enabled while reactions are pending, and the event loop takes every
  ready task at some time. Tasks complete because children exit or run into their
  deadline, and retrievals, loads, generations and native teardowns end. Nothing
  is assumed of clients, settings, tests, starts and stops.

- In `ConversationTabs`, a tab's transactions, events, replays and timers are
  weakly fair. Nothing is assumed of persons, nor of streams: the properties have
  the premise that the workstation becomes quiet (`QuietWatched`).
- In `StoreRecovery`, the steps of a backup and a recovery that has its answer are
  weakly fair; a prompt waits for a person.
- In `BrowserPacks`, each tab's operation, embedding pass and health check are
  weakly fair. A pack's lock is free again and again at the end, because requests
  are bounded, so whoever waits for one gets it.

`PackStore` is checked for safety only. No progress is claimed for verbs, whose
embedder has no timeout.

## 6. Proofs

`PackStoreProofs` proves, for any sets of packs, versions, documents, paths and
chunkings, any catalogue of manifests over them and any scope:

- `TypeInvariant`, `ContentInvariant`: `TypeOK` and `ContentExactlyWhileClaimed`.
  Their conjunction is inductive. The core is lemma `WriteContent`: one writer's
  releases, deletions and additions keep content and claims in step whatever the
  released pairs are; the lemmas `ManifestWrite`, `ReleaseWrite` and `UploadWrite`
  instantiate it for the three kinds of transaction, so that each action's step
  only names its transaction.
- `UserClaimsSafe`: the action property follows from `TypeOK` and the shape of
  the released pairs (`ReleasedByPacks`: a verb releases pairs of packs only).
- `Refinement`: every step is a `SharedContent` step or a stutter, from
  `ContentExactlyWhileClaimed` before and after the step.
- `OneActiveInvariant`, under the assumption that `supersede` is not in scope.
  `OneActive` alone is not inductive: a verb commits what it read before its
  await. The strengthening `AwaitingVerbKnowsActives` says that the active rows
  of the verb's pack are still among the rows it is going to deactivate, which
  holds because the queue keeps other verbs out and Clear Cache can only empty
  the registry. Section 4 says why the assumption is needed.
- `PackClaimsSafe`: the action property `PackClaimsKept`, without `supersede`.
  A verb that commits releases what it read before its await, so the invariant
  `VerbInv` adds to the registry's what an awaiting verb still knows of it: its own
  row is not active and it releases for rows of its pack and those it supersedes
  only (`AwaitingVerbIsAhead`); a rollback's row is still inactive, unless the cache
  was cleared and nothing is active at all (`AwaitingRollbackIsAhead`).
- `PackClaimsInvariant`, `UserDocsFound`: `PackClaimsAreActive` and
  `UserDocsRetrievable`, when only `damage` and `remove_version` are in scope and no
  pack supersedes another that has a document at the same path
  (`MovesWhatItSupersedes`). The invariant `ClaimsInv` says in addition that a
  managed directory holds its row's manifest, that an open host whose reconciliation
  is not pending can read the manifest of every active row, and that an awaiting
  verb's directory is as it left it and it releases for exactly the rows it
  deactivates. TLC finds the property violated when `clear`, `damage_live` or such a pack is
  admitted, so each exclusion is needed; section 4 has what happens then.
- `ActiveContentInvariant`: `ActiveContentLive`, which the run `remove_version`
  violates, holds when neither `supersede` nor `remove_version` is in scope and who
  supersedes a version of another pack supersedes all of that pack
  (`SupersedesWholePacks`), also with `clear` and `damage_live`. What remains is
  that the disagreement is the removal of single versions. The invariant
  `CarriedInv` says that an active version's documents are claimed, that the
  directory an awaiting verb activates is the one it staged or read, and that every active
  version an install supersedes goes out with it.

`MemoryGovernorProofs` proves, for any finite set of clients, any ingests, slots,
windows and bounds:

- `GovTypeCorrect`, `SlotsStayUsed`, `TicksExclude`, `LatchesAgree`: `GovTypeOK`,
  `SlotsAreUsed`, `OneTickAtATime` and `OverrideFollowsMonitor`. For the scheduler
  the core is lemma `PumpKeeps`: a pump that takes the head of the queue fills
  exactly the free slots, because the queue has no repetition (`PrefixCounts`)
  and nobody in it runs. For the governor the strengthening adds that no epoch
  to come has a tick (`LaterIsQuiet`), that a host that is down has none
  (`DownIsQuiet`), and that a latched recovery has lasted (`RecoveryLasts`).
- `DowngradesAreSustained`, `UpgradesAreSafe`: the action properties
  `DowngradeIsSustained` and `UpgradeIsSafe`, from the same invariant.

`RetrievalWorkerProofs` proves, for any searches, ingests and probes (disjoint)
and any number of crashes:

- `TypeCorrect`, `ThreadsAreOwned`, `RunnersAreUnloaded`: `TypeOK`,
  `NoOrphanThread` and `IdleWindowCovers`. Their conjunction is inductive. A step
  of the worker is a chain of spawns, disposals and callers that move on; `Sound`
  says what must hold of the runner in the middle of such a chain, and one lemma
  per link keeps it.
- `ReplacementsSurvive`: the action property `ReplacementSurvives`. A failure
  disposes a runner only if the job that failed was its own.

`NodeBackendHostProofs` proves, for any queries, GPU tests and lives, also when
flights of earlier lives are still under way (`Overlap`):

- `DownHasNoModel`: `DownIsUnloaded`. The core is `Unloads`: what may still use
  the model is among what the dispose of a stop waits for, and once that dispose
  has taken the model nothing is left that would load again.
- `OnlyThisLifeLoads`: `OldQueriesFail`. From `Captured`, which says what an
  operation's generation may be at each place it can be in and in each phase of
  the host.

Both hold together, by the invariant `IInv`. It adds that only the queue's head is
under way (`Ordered`), with a lemma for each way the queue changes, and that a host
that is down or starting lets no warmup through: it is stopped, or its gate is armed
and its boot has not begun (`Shut`, `InTurn`).

`NodeBackendDeviceProofs` proves, for any queries, any finite set of GPU tests and
any number of lives, when a start finds earlier flights settled (`~Overlap`):

- `OneContextWhileUp`, `QueriesKeepTheirModel`, `ProbesMeasureAFreeDevice`:
  `OneContext`, `GeneratesOnResident` and `ProbesFindTheDeviceFree`. They hold
  together, by the invariant `Inv`. Its core is `Counted`: every native context
  has one owner, which is the engine (its resident model, or the model its head is
  freeing or building), the stop, or a GPU test. `Exclusive` says that the engine
  holds one only, `TestQuiet` and `BootQuiet` that it holds none while a test has
  taken the model or a probe measures: the test's pause keeps queries out of the queue, its
  join waits for those that are in, and its dispose waits for a prefix of the queue
  (`FrontOfQueue`), so that a release queued before it has taken the model before.
  `PhaseInv` relates the phases of boots, tests and stops. Every step of an
  operation is summarised by `OpMoves`, so that the device's conjuncts are proved
  once for all of them.
- `OnlyATestOutlivesAStop`: when the host is down every native context is freed
  but the one a GPU test is freeing. `StopFreesTheDevice` (section 4) fails for
  that test alone.
- `HostTypeCorrect`: `TypeOK` of engine and host. The strengthening counts: a life
  takes two generations of operations (`GenerationFits`), and each flight
  publishes at most one verdict, when it settles (`VerdictsCounted`).

With `Overlap` TLC finds `OneContext` and `ProbesFindTheDeviceFree` violated: a test
of an earlier life passes its fences again.

`StoreRecoveryProofs` proves, for any number of commits, backups, damages and
deaths of the process, with `storeEmbeddingDims` configured or not:

- `StoreTypeCorrect`, `BackupsKeepTheCommits`: `TypeOK` and `BackupsAreComplete`.
  The strengthening says that the log of a store in use leads on from its file
  (`UseInStep`), that a foreign reader's snapshot is part of what is there
  (`ReaderSees`), and how far a recovery has come (`Progress`).
- `RecoveryServesTheBackup`: `RecoveredIsBackup`, over any number of deaths and failed
  starts between the recovery and the open that serves. From `PromiseStands`: as
  long as no host serves and neither the old file nor the old log has outlived the
  recovery, the file is what the recovery put there, without a log once the copy's
  has been removed, or there is none. The premise on `mishaps` is part of the
  property: section 4 has what happens without it (`RecoveryIsExact`).
- `UndamagedLosesNothing`: `NothingLostUndamaged`, when no foreign connection may
  lock the file exclusively. Section 4 says why the assumption is needed: the
  integrity check takes such a lock for damage.
- `ConfiguredDimsRecover`: where `storeEmbeddingDims` is configured
  `ValidBackupIsRestored` holds, and a recovery that has begun to replace the file
  ends without a store only when one of its copies, removals or opens has failed
  (`ReplacementServes`). The disagreement that the run `restore_dims` shows is thus
  due to the missing configuration alone. The strengthening `Chosen` says that what
  was copied over the store is a backup that the host takes.

`ConversationTabsProofs` proves, for any sets of tabs and profiles, any bounds and
any scope:

- `TypeInvariant`: `TypeOK`.
- `ClearedTextStaysAway`: `ClearedStaysCleared`. The strengthening `Fresh` says of
  every tab that what it would still write is text of its database's epoch, or
  carries an older epoch, which the gate refuses. Its premise `Unspoilt` excludes
  the two ways in which the code does bring text back: acts in a tab that a clear has
  overtaken, and an adoption that is repeated after a clear (section 4). A first
  adoption, and one that is repeated before any clear, are covered.
- `ClearsWaitForTurns`: `NoClearUnderAHeldTurn`, with acts during clears and
  repeated adoptions included. It follows from `Locked`: a turn that was granted the
  lock holds it in shared mode, a clear or a replay in exclusive mode.
- `CutOffClearsAreTold`: `StaleViewIsNotified`, however many clears are cut off.
  It is not inductive: a clear that dies takes away what excused a stale view. The
  invariant `NoticeInv` says in its place that a stale view has an event under way
  or a replay due, also while a clear runs (`Told`), because a clear records its goal
  before it applies it, and no completed goal covers it before it has been applied
  (`Recorded`, `CompletedBehind`). With acts in overtaken tabs TLC finds a view
  that nobody will clear, hence the premise `Unspoilt`.

`BrowserPacksProofs` proves, for any tabs, packs, versions and bounds, when no
pack supersedes a version of another (`Independent`; section 4 says why):

- `TypeInvariant`: `TypeOK`.
- `OneVersionActive`: `OneActive`, and `RowsKeepTheirFiles`: `RowsHaveFiles`.
  They hold together, by the invariant `IInv`: an operation between its awaits
  holds its pack's lock (`Locked`), what an install read of its pack is still what
  the registry says (`Current`), a directory not begun yet is named nowhere
  (`Fresh`), the directories an operation writes or is going to remove belong to
  its pack and to no row (`Owned`), and nothing takes the directory of an install
  away (`Kept`).

Assumptions: the named `ASSUME`s of the modules (manifests are well formed, the
special values are not members of the sets they complete), which TLC evaluates
in every run. They are as weak as the code justifies: `NoModel`, `NoFlight` and
`Nothing` stand for null, which is no model, no test and no clear, and a host is
asked for finitely many tests (`FlightsAreFinite`, which only the bound on
`verdictSeq` needs).

Every invariant and action property that a run checks is proved. Only
model-checked is liveness, which is out of the prover's reach:
`QueuedGenerationLeaves`, `PausedIngestGoesOn`, `ProfileFollowsMemory`,
`CallsSettle`, `QueriesSettle`, `PauseEnds`, `StopCompletes`, `ClearSpreads`,
`PendingClearsHappen`, `HeadlessRecovers`, `ActivatedIsEmbedded` and `StartsRepair`.

## 7. Not modelled

- Links and training slides: recomputed in the writers' own transactions.
- Embedding models and the prebuilt index's vectors: `meta.embedding_model_id`
  and the pipeline's latch on it (`pipeline.ts:432`).
- Signatures and archive extraction: they decide which manifests reach the
  catalogue.
- The engine's reported load state (which stays `ready` after a disposal),
  settings, prompts and token streams; profiles whose model file is missing.
- Starting the host while it stops, and the surfaces a stop closes.
- Scores, fusion, recency, prompt budgets, telemetry numbers, events, logging.
- In `StoreRecovery`, a second host on the same store and the file steps of Clear
  Cache, and SQLite's shared-memory index (`-shm`), which the log decides; in
  `ConversationTabs`, the clear of the Settings page and the limit 0 that turns the
  watch off, the inactivity timer of a tab that still boots, older builds that go on
  writing the shared database, `localStorage` that refuses the clear record, and
  adoptions that end between two pages of their copy (the older conversations
  are one row); in `BrowserPacks`, Clear Cache, the update controller,
  and an index hook that fails in a tab that lives on (the next start finds the
  same as after a crash there).
- The sidecar manager. Reading it shows that an exit while an answered ping is in
  flight lets `start()` resolve without a child, and that the exit of an old child
  clears a newer one.
- The components marked `not_modelled` in `PROJECT.json`; section 8 says which
  come next.

## 8. Plan

1. `PackStore`, `SharedContent` and their proofs: done. Open: the embedding
   model of the store and the prebuilt import.
2. `GenerationScheduler`, `MemoryGovernor` and their proofs: done.
3. `RetrievalWorker` and its proofs: done.
4. `LlamaEngine` and its proofs: done. Open: an abstract specification of the
   device, whose one context passes from owner to owner, with `Counted` as the
   refinement mapping.
5. `NodeBackendHost` and proofs: done. Open: a start during a stop, the teardown of the
   surfaces and the store.
6. `StoreRecovery` and its proofs: done. Open: a second host.
7. `ConversationTabs` and its proofs: done.
8. `BrowserPacks` and its proofs: done. Open: Clear Cache, the update controller,
   versions that supersede other packs.
9. `SidecarManager` (restart budget and timer), `UpdateChecker`, `AskStream` (SSE:
   one terminal event), `TrainingRelay`, `ModelWatchdog`.
10. Pure algorithms against reference definitions: chunk windows, reciprocal rank
   fusion, version order, prompt budget.
