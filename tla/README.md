# KernelInfo-Parser: a verification project

KernelInfo-Parser parses the releases of a Git repository (the Linux kernel),
stores files, symbols and their history in MariaDB, and serves them with a web
application. This directory holds TLA+ models of the parts where correctness
depends on order, failure and recovery, the TLC configurations that check them,
and machine-checked proofs, for every value of the constants, of what eleven of the
models promise.

Line numbers are those of the commit the project was written for; every
definition that models code is listed with its lines in `PROJECT.json` (`map`).

Contents: 1 inventory · 2 models and code · 3 runs · 4 bounds · 5 fairness ·
6 proofs · 7 disagreements and observations · 8 what is not modelled ·
9 plan.

## 1. Inventory

### How the parts interact

```
 main.py  pipelines: release / branch / --ref / --repair / --backfill     RefPipelines
             │  which reference next, against which base
             v
          update(version) ──> ingest_git_dag ──> stages
             │  VersionIngest (begin / marks / rollback / DONE)
             v
   worker stage: parent process                      worker processes (forked)
   ┌─────────────────────────────────────┐  tasks   ┌─────────────────────────┐
   │ reader thread ──frames──> main thread│ ───────> │ parser ──> serializer   │
   └─────────────┬───────────────────────┘ <─────── └──────┬──────────────────┘
                 v                            results      │ WorkerStage
   ingest_batch: ChangeSets, references between files      │ commits to link
     DependencyScheduler, ChangeSetStore => Dictionary     v
                 v                                   mailing list client ──> daemon
   table engine: ids, staging, background commits          MailResolution
     TableEngine => IdDirectory, CarriedHashes
                 v
   DBHandling: transactions and chunked inserts ──> MariaDB
                                                        │ read only
   web back end:  pool of connections (ConnectionPool) <┘
                  tokens and caches (SyncCaches)   Kconfig engine (Kconfig)
                 │ HTTP
   browser windows: token sync (SyncCaches), sessions and tabs (BrowserSessions)
```

### Components

**Pipelines** (`main.py`, `core/ingest_state.py`). *State* (in the database):
which reference has which status, row sets and base. *Operations*: ingest a list
of releases, a branch or a commit, repair the gaps of the history, backfill.
*Hard*: any pipeline may be started after any other was stopped anywhere; a
repair puts a version in front of one that was compared with another base.
*Correct when*: a finished version is not begun again and keeps its rows; a repair leaves
no gap; starting the release pipeline again finishes every release. Each of these has
exceptions in the code, which the properties name.

**Ingestion state and recovery** (`core/ingest_state.py`, `main.py`). *State*
(in the database): the status of a version, the watermarks of every
id-allocating table, the blobs parsed again, the ref table. *Operations*:
begin, mark, dedup, parse and store, complete, rollback, resume. *Hard*: the
process may die between any two statements, in the rollback too; content is
shared between versions. *Correct when*: a rollback restores the database, a
finished version is whole and stays so, everything is finished in the end.

**Parse worker stage** (`main.py`, `_run_worker_stage`, `file_processing_worker`).
*State*: batches pending, assigned to each worker and received; the pipes; the
queue between the reader and the main thread; the suspects; the files lost.
*Operations*: deal tasks, parse, serialize and send, read a result / a done
frame / a start failure / end of file, ingest, retry round, deadline.
*Hard*: three kinds of threads over bounded pipes and queues; workers killed at
any time (libclang aborts, OOM); a batch parsed and not sent is
indistinguishable from one that killed the worker; recursion of retry rounds.
*Correct when*: every batch is in exactly one place; no file is ingested twice
or disappears unreported; the stage ends, or hangs only in the one way section 7 describes.

**ChangeSet execution scheduler** (`main.py`, `_IngestScheduler`,
`execute_phase2_parallel_waves`, the staged driver; `core/TableHandling.py`,
`ChangeSet.execute` and reference resolution). *State*: which ChangeSets have
arrived, which have completed, whom they wait for, the deferred queue, the
answers their operations have. *Operations*: ingest a batch, hold, execute,
park, wake, retry an epoch, run a wave, break a cycle with stubs, evacuate.
*Hard*: results arrive in any order; references form cycles; some files never
arrive; the previous version's rows are still in the database. *Correct when*:
stale rows and stubs stand in for a symbol only where a binding is impossible, no
operation is dropped, the update ends.

**ChangeSet store** (`core/GreatProcessor.py`, `CompressedChangeSetDict`).
*State*: the LRU of objects, pickled entries, executed entries. *Operations*: put,
load, work on an entry, put it back, evacuate, clear. *Hard*: loading one entry
evicts another that its caller is still changing; some entries cannot be
pickled. *Correct when*: it behaves as a dictionary.

**Table engine** (`table_engine/te_direct_db.py`, `te_cached_db.py`). *State*:
staging queues, per-table caches and indexes, keys known committed or absent,
next ids, the batch a background thread is writing, the AST hashes carried from
version to version. *Operations*: `set`, `view_set`, `get`, `commit`,
`commit_all`, `wait_for_commit`, `start_new_db`, restore after failure. *Hard*:
the caller goes on while the batch is written; a failed table is merged back
under newer rows; several indexes must agree; a connection can be lost after
the server committed; a carried snapshot outlives failures and rollbacks.
*Correct when*: one id per content and one content per id, no row lost, a
lookup finds what `set` returned, the carried rows are those of the database.

**Database handler** (`db_engine/DBHandling.py`): reconnects, transactions,
chunked inserts. Its failure modes are actions of the table engine's model.

**Mailing list client, server and store** (`parser/mailing_list`). *State*: the
client's queue of chunks, the daemon's slots and memory, the start-up lock.
*Operations*: probe, start, post, answer, defer, halve, drop, reconnect, admit,
release, exit. *Hard*: every request can be refused, answered in part, lost or
time out; several processes start the daemon at once. *Correct when*: every
commit is resolved or reported as dropped, once; slots do not leak; a start-up
does not kill a healthy daemon; every call ends.

**Kconfig engine** (`parser/kconfig_ast`). *State*: the user's choices and the values
computed from them. *Operations*: set a value, load, preset, save, save a
defconfig. *Hard*: select, imply, choices and visibility act on each other, and
the rules changed from kernel to kernel. *Correct when*: what is saved loads back
to the same values, and an accepted change takes effect.

**Web connection pool** (`webapp/backend/database/pool.py`). *State*: the current
pool, its idle and open connections and who waits for one, the creation lock.
*Operations*: create, acquire, release, forget, reset, close, retry. *Hard*:
request threads meet failures at the same time, each resets the pool it used;
waiters have a timeout; a notification can go to one that is about to give up.
*Correct when*: connections are counted right, no free place is overlooked, no
replaced pool stays open, every request ends.

**Web sync tokens and caches** (`webapp/backend/services/sync_service.py`,
`catalog_cache.py`, `frontend/js/sync.js`, `api.js`). *State*: tokens with a time to live,
the caches they clear, the labelled catalog; the page's tokens, stamps and
stored data. *Operations*: compute, share, expire, clear, build, ask, apply, refetch,
reload. *Hard*: the database changes between any two steps of a request;
answers overtake each other; the page can be reloaded between storing a token
and acting on it. *Correct when*: nothing is labelled newer than it is, and the
page shows the last state in the end.

**Browser sessions** (`frontend/js/session_manager.js`, `state.js`,
`components/tabs.js`). *State*: records in localStorage, the session each window
holds, its tabs, pending saves and pushes. *Operations*: open, reload, close, switch,
create, delete; close, take, push and elevate tabs. *Hard*: no lock, only
messages, timers and delayed saves that overwrite whole records. *Correct
when*: a session is held once and a tab that moves is not lost.

**Without a model**: the shared insert buffer (`table_engine/shared_buffer.py`), the
file handler and Git reader (`core/FileHandler.py`, `parser/git_ast`), schema, rows,
configuration, profiler (`core/`), quit listener, SSH tunnel, mock database,
the language parsers (`parser/c_ast`, `rust_ast`, `asm_ast`, `raw_ast`), Kbuild,
make evaluation, include graph, maintainers and documentation, the web routers and
views, tools. Section 8 has the reasons.

What is hard to test in each is listed with its line under `hazards` in
`PROJECT.json`, with the property that covers it or the reason none does.

## 2. Models and code

From the batch pipeline down to the database, then what is around it.

### WorkerStage

One call of `_run_worker_stage`. A retry is the next `round` of the same state
machine, as the code calls itself with the batches left over.

| Code | Model |
|---|---|
| `pending`, `assigned`, `stopped`, task pipes | `disp`, changed by `Dispatch`, `GiveBack` |
| parser thread of a worker | `WorkerInit`, `WorkerRecv`, `WorkerParse`, `WorkerQueue`, `WorkerFinish` |
| its serializer thread | `SerializerSend` |
| reader thread, by kind of frame | `ReadDone`, `ReadInitFailed`, `ReadResult`, `ReadUnreadable`, `ReadEOF`, `ReaderOffer` |
| ingest loop of the main thread | `Ingest`, `IngestFails` |
| verdict after the end marker | `StageRaises`, `StageReturns`, `StageRetries` |
| deadline | `DeadlineHit` |
| killed worker, failed start | `WorkerKilled`, `WorkerCrash`, `WorkerInitFails` |

A file is a name; that it kills its worker, raises, or is rejected by the
parent is a constant. A pipe holds `PipeFrames` frames instead of bytes. `NoFileTwice`
assumes what the callers give: the change list of a version names a file once and is
cut into batches. The shape of the code is kept where it looks odd, such as a batch blamed because it is the
oldest unreturned one.

### TableEngine and IdDirectory

`IdDirectory` is the promise to callers: each key of a table gets one id that no
other key has; a stored row keeps its id; what was never stored may be forgotten
at a restart. `TableEngine` is the machinery: `queued` (`queued_set`), `index`
(`_nodup_index`), `memo` and `absent` (`_committed_nodup_keys`), `complete`
(`_nodup_complete`), `nextId`, and the pending batch (`writing`, `staged`,
`added`, `toWrite`, `failed`, `purge`). `set` is one of `SetKnown`, `SetStored`,
`SetNew`; `get` of a full key is `GetReads`; `commit_all` and `commit` are
`CommitInBackground` and `CommitAndWait`; the writer's steps are `WriteTable`,
`WriteFails`, `WriteIsDuplicate`, `WriteAckLost`; `wait_for_commit` and
`_restore_batch` are `JoinSucceeds` and `JoinFails`; `Restart` and
`CrashAndStart` are `start_new_db` after a clean end or a death, with any choice
of preloaded and packed tables. `promised` is a history variable: the rows `set`
returned since the start.

`MayRead` is the write barrier: a read of a table the batch writes waits.
A table written alone without a writer thread is inserted in autocommitted
statements of `ChunkRows` rows (`InStatements`), any other one as a transaction.

### CarriedHashes

`view_set` gives an AST the id its hash has in `m_ast_hash` (`Known`, `ReuseAst`) or stages
a row of `m_ast` and its hash (`StoreAst`). `snapshot`, `overlay` and `carried` are what
`TECachedDB` keeps of the hashes from version to version; `memo`, `queued`, `newAsts` the
staging; the two tables are written by transactions of their own (`WriteTable`,
`FailTable`). `Start` uses the carried rows again, packs them, or reads the database;
`Restore` after a failed batch (`_restore_batch`) stops trusting them. `Begin`,
`RollBack`, `Crash` are what the pipeline does around it.

The model shows when a second id can be minted for a stored AST, which the code's
documentation (`core/API.md:217, 225, 563-566`) accepts as a loss of sharing: after
`_restore_batch` has detached the table, and in heap mode after the first commit,
the rows of earlier versions are not found. So `StoredKeepsItsId` is about a
carried table.

### VersionIngest

The database survives, the process does not. The schema is cut to one table per
role: `commit`, `blob` and `tag` with allocated ids; `def` with an id and two
parents; the link table `bridge`; the version's rows `checkpoint`; and the
bookkeeping `ref`, `state`, `mark`, `reparse`. `pc` is where the process is:

`Launch` (skip finished versions) → `CheckVersion` / `SkipFinished` /
`RegisterAlias` → `Recover` → `DeleteRows`, `DeletesDone` (one DELETE of at most
`DeleteChunk` rows per step) → `RegisterCommits`, `RegisterRef` → `MarkTable`,
`MarkParsing` (`begin`, one autocommitted statement each) → `Dedup` (reuse and
`_record_reparsed_blobs`) → `ParseFile`, `StageTouched`, `CommitAll`,
`WriteTable` → `Finish`. `Crash` is enabled between any two of them.

A file stands for a path and a content. Ids are those the table engine promises
(one per content); the rollback done by the resume code of `main()` and the one
of `ingest_git_dag` are one action, as they call the same function on the same
state. `before` is a history variable: the content when the run began.

`rollback_plan` walks the schema; with the schema fixed its plan is written out:
`VersionRows`, `DerivedRows` (step 1), then per marked table, children first, its
`LinksOf` and its own new rows (step 2). `Those` of `Lists` is what a comprehension keeps
of a list, in its order (`NewCommits`). `OldestFirst` is what `get_version_tags` gives: a
list starts at the start version whatever its end, so the releases before one it names are
named before it. It is not an assumption of the model: the lists of `VersionIngest.cfg`
satisfy it, those of `VersionIngest_stale.cfg` do not (`--ref`, or a list made with
pre-releases after one made without), and the theorems have it as their hypothesis.

### RefPipelines

The pipelines around `ingest_git_dag`, over whole versions: `status`, `rows`, `baseOf` are
the database; `tasks` is what the running pipeline has left, and `vid` its base.
`LaunchRelease`, `LaunchBranches`, `LaunchRepair`, `LaunchBackfill` start one;
`GapTasks` and `BackfillTasks` make the list; `Undo`, `PurgeSuccessor`, `StartUpdate`,
`StartNext`, `StopsEarly`, `Rescan`, `AllTasksDone` go through it; `SkipDone`, `Recover`,
`Begin`, `Write`, `Finish`, `ReturnEarly` are one `update()`. `Expire` is the deadline or
the quit key, `Crash` is enabled everywhere. What `VersionIngest` does table by
table is one step here. The status DONE and the removal of the marks are one commit of
`set_status` (`ingest_state.py:247-258`), and so one step, `Finish`.

Of the rows of a version the model keeps the extent of its checkpoint: none, a part,
most of it (the 90% from which `_previous_ingest` takes a version without a state for a
complete one), or the whole. The marks of a run are kept as `mark`, the number of commits
below them, and `above`, the versions begun since, whose rows may refer to rows above
the marks whatever their own commit id is. `RollBack` is `rollback_version`:

* without marks, or when a version with a later commit has finished, it discards them and
  purges the version's own rows (`Purge`);
* else `DeleteAbove` takes the commits above the marks with their references and states, the
  checkpoint of the version itself, and of each version in `above` what refers to a
  row above the marks: all of it, a part or nothing. So a version that was registered
  earlier and finished later loses rows and stays DONE. The checkpoint of a commit that
  goes may stay behind, as `m_bridge_checkpoint` has no foreign key to `m_commit`. What
  is left of a version counts as a part, even when nothing is;
* `Refuse` is the `RecoveryError` of `precheck_queries`, when a row below the marks refers
  to one above them. This takes marks that were set over rows of today which another
  rollback has overtaken; `disturbed` has those versions.

Marks have no foreign keys either (`DBLayout.py:1075`): the marks of a version survive the
rollback that takes its commit, and meet the commit again under the same id, since the
next id is the highest one plus one (`DBHandling.py:702`).

Versions from before the state table (`Legacy`) are complete or partial without
a state, which `StateOf` has to tell apart. A branch or a bare commit is no
checkpoint unless it is one of the first two of a process: an interrupted run of it is
begun again over its old rows, and a finished one is begun again as well.

The lists are those of a start reference and those the operator types (`--ref`);
a repair or a backfill takes the tags from the first reference on (`From`).

`Those` (in `Lists`, which `WorkerStage` uses as well) is the list comprehension that
keeps the elements of a list that are in a set.

### DependencyScheduler

One update. `version` gives the files of the header stage, of the source stage,
the ones missing from the previous version, the ones no worker delivers
(symlinks and files of dead workers are in `_changed_paths_set` but never get a
ChangeSet executed), and what each file's operations refer to. The parent is
sequential: `agenda` is the stack of loops it is in, and a step is one turn of
the innermost loop. `Execute`, `Publish`, `Park`, `Wake`, `Hold`, `IngestPlain`
model `ingest_batch` and `_execute`; `Resolve` and `Executed` the resolution of
one reference and one pass of `ChangeSet.execute`; the wave pass, cycle breaking
and forced stubs follow `execute_phase2_parallel_waves`. `answer` has for every operation:

* "none": it is still blocked;
* "bound": the symbol of the file referred to, published or at hand;
* "database": a row that was stored before this update. For a file outside the update that
  is right. For a file of the update it happens with `force_stubs` only: `resolve_ref`
  then looks for the symbol by name, last in the database (`TableHandling.py:542-549`), which
  still describes the previous version;
* "stub": what the same lookup by name gives otherwise, a stub or a row that some file
  of this run staged under that name.

Which of the last two a forced operation gets depends on names and rows that the model
does not have, so `fallback` is any choice of them, one for each operation (`ByName`).

Orders that come from sets, dictionaries or sorting ties are left open (any
element). `AtHand` leaves open which unexecuted ChangeSets happen to be
decompressed, as that depends on the LRU and the batches.

### ChangeSetStore and Dictionary

`Dictionary` is what callers rely on. `ChangeSetStore` has the three places an entry
can be in (`lru`, the pickles, the evacuated ones), `Place`, `EvictLru`, `Compress`,
`Unpack`, `Load`, and one caller that takes an entry, works on it while others are
looked at (`LookAt`, which may push it out of the LRU), and puts it back (`PutBack`).
An entry is how many of its operations have been executed. That `PutBack` follows
`Work` on an entry that is no longer attached is what the refinement rests on.
An entry that cannot be pickled stays in the LRU, which then exceeds its size.

`_evict_lru` is a loop: it takes the oldest entry, packs it, and stops when the LRU
has its size or the entry fails to pack. `EvictLru` says where it ends: `TooOld`
are the entries before the youngest `LruSize`, `Fails` those that cannot be pickled,
`Leaving` the ones that go. The one that failed is put back as the youngest.

### MailResolution

A client in `resolve_commits`: `pc`, its `queue` of chunks and the chunk in flight. `Post`
sends it; `Answer` (some commits tried, the rest deferred), `Backpressure`, `ServerError`,
`ConnectionLost`, `SocketTimeout` are the branches of the loop, with `Halves`, `Requeue`,
`DropChunk`. The daemon: `Admit`, `ReleaseSlot`, `MemoryExit`, and `orphans`, the requests
whose client has given up (`AdmitOrphan`, `RefuseOrphan`, `FinishOrphan`). Start-up:
`FindHealthy`, `FindNone`, `StartTimesOut` of a client and the script it runs over ssh,
`TakeLock`, `ProbeInLock`, `KillListener`, `Launch`, `Unlock`, with `Bind` and `BootFails` of the
new process. How much memory a daemon has and how far a request gets is open.

`HoldCoversBoot` is an assumption on time: a daemon that comes up does so before
the script gives the lock back (`LOCK_HOLD_SECONDS`). Without it the next script
may kill a daemon that has just become healthy. The model's health probe is exact:
`Healthy` is what it answers. A daemon that is up and too slow for the probe's
timeout counts as unhealthy in the code and may be killed, which `HealthyNotKilled` does
not exclude.

### ConnectionPool

A request is a thread in `get_db_cursor`; `pc` names where it is. `FindPool`,
`NoPoolYet`, `CreatedMeanwhile`, `StartCreation`, `CreatePool`, `CreationFails`
are `get_db_pool` and `_create_pool` (the lock is held from `StartCreation` to the
end of the check). `PoolIsClosed`, `TakeIdle`, `OpenNew`, `Wait`, `WaitEnds`,
`Exhausted` are the branches of the loop in `acquire`; `Connect`, `ConnectFails`
the attempt after it; `GiveBack` and `GiveBackBroken` `release`; `Detach`,
`ClosePool`, `DropIdle`, `TryAgain` the reset. `Forget` and `NotifyAndGoTo` are
`_forget` and the notification in it. Each `with self._cond` block is one step. A
waiter whose time is over stays in the condition's queue until it has the lock
again, so a notification may go to it; that it then looks at the pool itself is
what saves `NoLostWakeup`.

Two things the model shows about the code, neither an error against its text. A
closed pool's waiters are not woken by `close()` but one by one, as lent
connections come back, or by their timeout, and get a `PoolError` that is not
retried on the new pool. And `get_db_pool()` inside the retry loop connects once
itself, so while the database is away a retry ends the request at once: the
remaining retries are only used when that check succeeds and a later connect fails.

### SyncCaches

One version of one repository; every change makes the next `gen`, and tokens,
catalogs, stamps and data are the generation they were read from. A call is one
request: `TokenHit`, `TokenMiss`, `TokenShared`, `TokenCompute`, `TokenStore` are `_Ttl.get`
with its gate; `EntryHit`, `EntryBuild`, `EntryKeep` `TokenCache.get`; `DataHit`, `DataRead`,
`DataFill` a cache without a token, which `TokenStore` clears. The page: `AskSync`,
`SyncAnswered`, `Apply`, `CatalogAnswered`, `CatalogLost`, `CatalogOrphaned`, `Reload`, `AskData`,
`DataAnswered`. The parsed and the git token go through the same steps and are one.

`apply()` stores the tokens before it refetches. A refetch that fails, or a
reload in between, is not repeated until the next change; the model records
that in `missed`, and `PageCatchesUp` promises nothing then.

### BrowserSessions

`stored` is localStorage, `pin` and `holds` the session a window is pinned to and holds,
`tabs` its tabs in memory, `dirty` its pending save, `inbox` the channel. A page goes from
`OpenPage` (the script: channel, `loadState`) over `Rehydrate` or `NothingPinned` to `Mount`.
`OpenSession`, `NewSession`, `DeleteSession`, `CloseTab`, `TakeTab`, `DropTab`, `PushTab`,
`ElevateTab`, `PageGoes` are what a user does; `TakenOver`, `HearGone`, `TakePushed`,
`IgnorePushed`, `HearAccepted` what a message does; `FlushState` and `PushUnanswered` the
timers. What window presence says is only a hint and may be anything.

Users are slower than messages: a gesture needs all inboxes empty, a loading page or a
timer does not. One inbox per window stands for the channel, and the list of sessions for
the records. `settled` names the histories in which the transfer protocol itself
promises nothing; section 7 has examples of each.

### Kconfig

`Finalized` is a menu after `kconfig_model.py`; a configuration is the model, what the
user chose, and per option whether it was set. `Values` is one pass of the evaluator:
`Visibility`, `ActiveDefaults`, `ChosenMember`, `MemberByPriority`, `ComputedChoice`. `SetTristate`
with `Accepts`, `Promote`, `ChoiceSetValue` is an edit; `LoadConfig`, `SetAllNew`,
`WriteConfig`, `WriteDefconfig` the files. `SetValue`, `Load`, `Preset` are the actions.

An expression is its disjunctive normal form, which Kleene's logic allows, and a
pass in menu order stands for computing on demand. The detected behaviours of a
kernel's own `conf` (`conf_semantics`) are a set of flags of the tree. A file has lines for
the members of a choice and none for the choice; `Recorded` says that the members show
its value, which is not so in every kernel, and the two laws of files assume it.
Since 6.11 taking y from
the member of a choice makes the engine pick a member again, possibly the same.

### Composition

`VersionIngest` uses the promise of `IdDirectory` for its ids, which
`TableEngine` implements. `DependencyScheduler` assumes of the worker stage that
each file is delivered at most once and possibly never, which `NoDoubleIngest`
and `AccountedFor` of `WorkerStage` justify, and of the ChangeSets that they are in a
dictionary, which `ChangeSetStore` implements. `VersionIngest` takes the outcome
of a version's parse as one row set per file, which `EvacuatedWhole` of the
scheduler justifies for a run without a deadline. `RefPipelines` takes a version as
one step. It does not lean on `RollbackRestores` and `FinishedIsKept`, which hold for lists
that name the older releases first: its lists are any, and its rollback deletes what the
code's does, rows of finished versions included. `MCStores` puts three parts that do not meet, `ChangeSetStore`, `CarriedHashes` and
`BrowserSessions`, into one run; a behaviour is of one of them.

## 3. Runs

| Run | Shows | Distinct states |
|---|---|---|
| `worker_stage` | custody of every batch, accounting and termination of the stage under two unreadable frames, one fault of each other kind and a deadline | 172 225 |
| `table_engine` | unique ids, no lost row, lookups, refinement of `IdDirectory`, with failures, lost answers, restarts and crashes | 269 305 |
| `table_engine_live` | a promised row is stored although writes fail | 2 817 |
| `version_ingest` | recovery from two crashes anywhere, finished versions whole and kept, all finished in the end | 56 767 |
| `version_ingest_stale` | stale marks take a finished version down (violation) | small |
| `dependency_scheduler` | stale answers and stubs only where they are forced, nothing forgotten, ends | 234 246 |
| `connection_pool` | connections counted, no lost wake-up, no stranded pool, every request ends | 460 030 |
| `ref_pipelines` | repairs align the history, finished versions stay but for the named cases, releases finish, whatever was launched and stopped before | 2 246 917 |
| `stores` | ChangeSets are a dictionary; carried hashes mirror the database; sessions are held once and tabs not lost | 668 517 |
| `mail_resolution` | each commit in one place, slots counted, healthy daemons left alone, every client ends | 753 694 |
| `sync_caches` | no catalog labelled newer than it is, no stale shared token, the page catches up | 256 323 |
| `kconfig` | saved files load back to the same values, accepted changes take effect | 27 117 |

### Properties

WorkerStage. `Custody`: a batch is in exactly one place. `NoDoubleIngest`,
`AccountedFor`: every file is ingested once, or has an error or a true loss
report. `Termination`: the stage ends, or a worker that is not killed is starved: it has
delivered as many unreadable frames as it is given tasks ahead, waits for a task, and
is waited for. Whatever else is blocked comes free again.

TableEngine. `UniqueIds`: over database, staging and batch together. `NoLostRow`:
a row `set` returned is somewhere until the engine restarts. `ReadYourWrites`:
a lookup that need not wait gives the id `set` gave. `ImplementsDirectory`: the
refinement. `EventuallyStored`: a promised row reaches the database.

VersionIngest. `FinishedIsWhole`: a DONE version has the rows of its tree, each
file parsed completely. `RollbackRestores`: after a rollback, repeated or not,
the content is what it was before the run. `FinishedIsKept`: no step takes a row
from a finished version. `AllIngested`: once crashes end, everything is finished
and stays so.

DependencyScheduler. `NoStaleAnswer` ("Rule 24", `TableHandling.py:474`): the database
answers for a file of the update only where the reference is `Forced`: no worker delivers the
target, or only after the stage that asks, or the references lead into a cycle. A file
that is woken, retried or put into a wave too early violates it, as do missing files that are
not counted among the changed ones. `StubsAreForced`: the same for stubs and for other rows of
this run. Together: where nothing forces it, every reference into the update is bound to its
symbol.
`NothingForgotten`: a held or parked file has somebody to wake it.
`EvacuatedWhole`: no operation is dropped at evacuation unless the code says so.
`ComesToEnd`.

ConnectionPool. `CountsConnections`: `_open` is the number of connections in
whatever hands, at most the size. `NoLostWakeup`: while a request sleeps on an
open pool, each free place is about to be looked at by somebody awake.
`NoPoolStranded`: every pool but the current one is closed or about to be.
`EveryRequestEnds`.

RefPipelines. `FinishedStaysFinished`: a finished version is opened again only by a repair,
as the successor of what that has just put in place, or when it is no tag and named behind two
other references; it loses rows only to such a repair, or to the rollback of a version
that began before it and has the later commit. `RepairAligns`: a repair that was
not stopped leaves no gap, and its purged successors are finished against the version
before them. `ReleasesFinish`: the release pipeline, started again and again, gives every
release its rows, except those that a rollback has overtaken; unless the rollback of
one of these may be refused at every launch.

Stores. `ImplementsDictionary`: the refinement. `CarriedMirrorsDatabase`: the carried
hashes are those of the database. `StoredKeepsItsId`: a stored AST gets no second id
while its table is carried. `OneHolder`: two windows hold a session only until one
hears the claim that is on its way to it. `NeverLostWhenSettled`: a tab
that was not closed is in a window, in a record nobody overwrites without it,
or on its way, unless its session changed hands meanwhile.

MailResolution. `EachCommitOnce`: in one chunk, or answered, or dropped. `SlotsAreRequests`:
the semaphore counts the requests that run. `HealthyNotKilled`: a start-up
leaves a healthy daemon of the right version alone. `ClientsFinish`.

SyncCaches. `CatalogAsNewAsLabel`; `SharedTokenIsFresh`: who waits for the computation of
another gets no token from before its own request. `PageCatchesUp`: after the last
change the page has the last stamps for good, unless a refetch was missed.

Kconfig. `SavedIsFixedPoint`, `DefconfigRestores`: `.config` and defconfig stand for the
configuration. `AcceptedTakesEffect`: the value accepted is the value had, after selects,
implies and choices have been computed again.

Every property has a mutant in `PROJECT.json`: a change of one definition, of
the kind a bug would make, under which TLC reports the property violated.

## 4. Bounds

* `WorkerStage.cfg`: two workers, five files in four batches (more batches than
  two workers take ahead with one of them dead), `TasksAhead = 2`,
  `SerializeDepth = 3`, `PrefetchDepth = 1`, `PipeFrames = 2`: every queue fills
  up. One file kills, one raises, one is rejected; one kill, one failed start and two
  unreadable frames at any point; so all combinations of two dying workers, both
  kinds of retry, no worker left, and a worker with nothing but undecoded batches
  (`TasksAhead` of them) occur. 
* `TableEngine.cfg`: two tables (one commits while the other fails), two keys
  (two rows compete for an id), three ids (one is wasted in a crash), one
  failure, one lost answer, statements of one row. Tables and keys are symmetric:
  no definition distinguishes them and the run has no temporal property but the
  refinement of a safety specification. `table_engine_live` has no symmetry.
* `VersionIngest.cfg`: two commits, three tags, one of them an alias of a finished
  version, files that are unchanged, new, and first seen in an intermediate
  commit, two files with the same tag; two crashes, so that a rollback is
  interrupted and the repeated one is checked; deletes of two rows, so that a
  table takes several.
* `DependencyScheduler.cfg`: all reference graphs of two headers and a source and
  of three sources, each with every choice of at most one undelivered file, plus five
  larger versions with two cycles, a chain through a missing file, references
  out of the repository, lost headers and plain files. Every batching and order
  of arrival, a deadline at any step, two retry epochs (`MaxEpochs`; an epoch
  starts only when the stage waits, more of them repeat the same retries).
* `ConnectionPool.cfg`: four requests on two connections (two lend, two wait, so
  a notification can go to the wrong one; three can fail on one pool and reset it
  late), two retries instead of three, the database goes away twice (a new pool
  fails as well).
* `RefPipelines.cfg`: four tags and a branch; a new database or one with a complete and a
  partial version of old. The lists are all tags, two of them (so that a repair has two gaps,
  and that the versions left out are registered first and finished later), two tags and the
  branch, and the branch alone; repairs and backfills (`RepairLists`) start from the first
  two. `MaxLaunches = 3` pipelines besides the plain release pipeline (which is
  not bounded), so that a repair follows a stopped repair; `MaxStops = 2` crashes or
  deadlines, so that the recovery is stopped as well.
* `Stores.cfg`: ChangeSets: four keys for an LRU of one, one key unpicklable, two
  operations each, so that an entry is evicted between two of them. Hashes: two
  contents, three versions (carry, carry again, pack), three ids (one is wasted), two failed
  tables, two crashes. Sessions: two windows, three sessions (one each and one to create),
  one tab that may be copied once, `MaxActs = 5` acts of the user: a tab is pushed while its target
  opens, closes and opens again. Contents and versions, windows and sessions are
  symmetric. With six acts and with three windows and four acts the sessions were
  checked on their own, without an error.
* `MailResolution.cfg`: a client with a chunk of three commits (halved into one and two)
  and one with a single commit, which compete for one slot:
  `MaxConcurrent = 1`. Two attempts instead of three per chunk, two start attempts, two
  daemons one after the other (one that is outdated, dies, or is replaced).
* `SyncCaches.cfg`: one change, at any point of every request, and one fault
  (`MaxGen = 1`, `MaxFaults = 1`); next to the token and the catalog a view's data or a second page's
  catalog (`Company`), so that a computation is shared and a cache is filled late.
* `Kconfig.cfg`: four menus (select and imply over a dependency, the same without imply
  for the oldest kernel, a choice of bools with a
  conditional member and default, choices of tristates, optional and not, with an m-only and a
  bool member), each under the kernels that can have it: 3.0, 4.14, 5.10, 6.12.
  Files written by hand of up to two lines (`MaxLines`), every preset, and then every
  sequence of changes. Files and presets start from a blank evaluator.

Deadlock is checked except where a cfg says otherwise: an update that is done
stops (`DependencyScheduler.cfg`), clients that have returned leave nothing to
do (`MailResolution.cfg`), and so do keys, acts and versions that are used up (`Stores.cfg`).

## 5. Fairness

* WorkerStage: weak fairness of "some thread or process can step". The operating
  system runs whoever can run; no fairness between threads is used. Faults and
  the deadline are never obliged to happen.
* TableEngine: weak fairness of the writer thread's writes and of joining a
  finished batch; strong fairness of committing everything, because the ingest
  loop commits at intervals for as long as it runs and other calls may come in
  between. Failures are not fair and are bounded: a table that can never be
  written stays in staging, which is what `NoLostRow` says.
* VersionIngest: weak fairness of the process's own steps, `Launch` included: a
  process that is not killed goes on, and the operator starts it again.
* DependencyScheduler: weak fairness of the parent's next step and of arrivals
  from live workers. The deadline is not fair.
* ConnectionPool: weak fairness of each request's thread: threads are scheduled,
  connection attempts and queries have timeouts, `Condition.wait` has one too. The
  database need not come back.
* RefPipelines: weak fairness of the process's steps and of starting the release
  pipeline over all tags while one of them is missing. No other pipeline need be started.
  A rollback that may be refused is refused or not; if it is refused at every launch the
  releases do not finish, and `ReleasesFinish` says so.
* MailResolution: weak fairness of each client's steps, and of nothing else: every wait
  of a client has a timer of its own, so it ends without the daemon and the scripts.
* SyncCaches: tokens expire and the heartbeat asks (clocks); the page's answers and
  its queue are handled (the event loop); strong fairness of each request at the server,
  since a gate that is free again and again is not starved. No view need be opened.
* `stores`, `kconfig`: safety only.

## 6. Proofs

Seven modules prove theorems about eleven models, for every value of the constants that
satisfies the assumptions of the model; `QueueLemmas` has the lemmas on queues, lists and
iteration that they share. The bounds of TLC do not enter: sets of keys, clients, files or windows of any
size, any number of failures and versions.

| Module | Theorems | State |
|---|---|---|
| `TableEngine_proofs` | `Typing`, `Invariance`, `Refinement` | types; the inductive invariant; ids refine `IdDirectory` |
| | `IdsAreUnique`, `RowsAreKept`, `LookupsFindRows` | `UniqueIds`, `NoLostRow`, `ReadYourWrites` |
| `WorkerStage_proofs` | `BatchesInOnePlace`, `FilesIngestedOnce`, `NoFileDisappears` | `Custody`, `NoDoubleIngest`, `AccountedFor` |
| `VersionIngest_proofs` | `IngestInvariant` | the inductive invariant |
| | `RollbackRestored`, `FinishedKept`, `FinishedWhole` | `RollbackRestores`, `FinishedIsKept`, `FinishedIsWhole` |
| `Custody_proofs` | `AnswersAreCurrent`, `EvacuatedComplete` | `NoStaleAnswer`, `EvacuatedWhole` |
| | `NoneForgotten`, `StubsAreNecessary` | `NothingForgotten`, `StubsAreForced` |
| | `NoCommitLost`, `SlotsCounted`, `HealthyDaemonSurvives` | `EachCommitOnce`, `SlotsAreRequests`, `HealthyNotKilled` |
| `RefPipelines_proofs` | `PlanHolds` | types, what a state and the rows of a version go with, the plan of the running process |
| | `FinishedStays`, `RepairsAlign` | `FinishedStaysFinished`, `RepairAligns` |
| `Backend_proofs` | `PoolsAreClosed`, `WakeupsArrive`, `ConnectionsCounted` | `NoPoolStranded`, `NoLostWakeup`, `CountsConnections` |
| | `CatalogIsCurrent`, `SharedTokens` | `CatalogAsNewAsLabel`, `SharedTokenIsFresh` |
| `Stores_proofs` | `StoreIsDictionary` | `ImplementsDictionary` |
| | `CarriedIsDatabase`, `StoredIdsAreKept` | `CarriedMirrorsDatabase`, `StoredKeepsItsId` |
| | `OneWindowHolds`, `TabsAreNeverLost` | `OneHolder`, `NeverLostWhenSettled` |

None of these properties is inductive as it stands. Each proof has an invariant that
is, a lemma per action (or per group of actions that do the same to the state the
invariant is about), and the temporal step at the end.

*TableEngine*, from `EngineAssumptions`. That a key gets no second id depends
on what each index may be trusted with. `Inv` states it: every row's id is below
the counter; one id per key and one key per id wherever the row is; an index
entry is the id of a row; a key among the committed ones is in the database or
in the pending batch; a key memoized as absent is neither in the database nor
among the keys the batch adds (it may be staged); a complete index
has every row of its table; and a key of the batch still has its entry among
the committed keys until the batch is joined. The last one is why a restored
batch must take its keys out again: without it the next commit would skip them.
For the refinement, each action lemma also says what becomes of the ids: `SetNew` is
`Assign`, a write is `Store`, restart and crash are `Forget`, everything else leaves
the directory as it is.

*WorkerStage*, from `StageAssumptions` and `NoFileTwice`. That a file is not ingested
twice depends on where every batch is, also the ones in the pipe of a worker that has
died. `StageInv` says that while the stage runs:

* `Sound`: every batch is pending, assigned to one worker, or `Elsewhere` (`OnePlace`),
  and what a worker has in its hands or is told to parse is assigned to it and told
  once (`Told`). This is why a batch that is given back, or blamed, cannot still arrive:
  the end of the pipe is read after everything in it.
* `Fits`: pipe, outbox and task of a worker have no batch in common, and a worker that
  is gone has only what its pipe has.
* `OnTheWay`: blamed, in flight and received exclude each other, and the end marker is
  the last thing offered.
* `FilesOpen`: the files of a batch that has not been received are neither ingested nor
  lost, and every file of the call is in a batch of this round or settled.

A retry begins the same state again (`Fresh`), with batches that are cut from the ones
left over (`OnceEach`). `_dispatch`, the loops that deal out, and the selection of the
lost batches are recursive functions. What the proofs need of each is an invariant of
its steps, and the lemmas `Climb` and `Iterated` of `QueueLemmas` carry it to the end.

*DependencyScheduler*, from `SchedulerAssumptions` (finitely many files; the files of the
stages are disjoint, a file does not refer to itself, plain files refer to nothing).
`AnswersInv` adds to `EvacuatedWhole` that nothing is executed before the set of
changed files is the whole update (`UpdateKnown`): the missing files are found before
the first ChangeSet runs, which is why a reference to one of them is not taken for one to an
unchanged file. `CustodyInv` is about who will wake a ChangeSet. Between two
batches it is `NothingForgotten`; inside the loops it must name what is on the agenda:
a ChangeSet that has arrived and not been completed is among those executed next
(`Due`), or waits on a file that is still to complete, or refers elsewhere and is left
over (`InCustody`); what a held header waits for has the header among its waiters
(`Linked`); and in `resolve_headers` what remains is in `remaining`, unless the
deadline has passed (`ResolvingInv`).

`AnswersAreCurrent` and `StubsAreNecessary` are one invariant, `StandInsForced`: what
stands in for a symbol of the update, a row of the previous version or a stub, is `Forced`. It
needs to know what a wave pass has before it. `AgendaInv`: a wave pass
follows its selection. `PassInv`: unless the deadline cuts it off, all that has arrived is
published or remains, and a wave refers to nothing that remains. `ArrivalInv`: when a stage
ends, what has not arrived is what no worker delivers, and in Stage 1 only files of that
stage have arrived. So what a wave answers by name has not arrived. The pass breaks a
cycle only when each file that remains refers to another one that does; `LeadsToCycle`
proves that there is one then, by a file from which the fewest are reached. The deadline
may pass in the middle of a wave: the wave is finished (the clock is looked at
between waves, `main.py:1403`), and both invariants hold on as long as it lasts.

*RefPipelines*, from `PipelineAssumptions` (the history names no reference twice; the
lists and the legacy versions are of its references); the lists are otherwise any. What a
process may do to a finished version depends on the task it has, so the invariant is about
the whole plan. `PlanInv` is `Types` and

* `Registered`: only registered references have states, and their commits have rows;
* `Progress`: where the process stands in `update()` agrees with the head of the plan, and the
  plan is in order (`IsPlan`): a purge stands between the update of its base and that of
  its version and finds the base as the current version (`Links`, `UntilHead`); an
  interrupted version is undone before it is updated (`UndoneFirst`);
* `NotAgain`: at `begin` a version is finished only if it is no checkpoint, and so the third
  or a later one of the process and no tag;
* `Unfinished`: what is still to be undone is not finished.

That the list makers (`GapTasks`, `BackfillTasks`, `Rest`) give such plans is proved
once, by lemmas on flattened and filtered lists (`Flattening`, `ThoseOf`).

`FinishedStays` has no hypothesis: what the code does to a finished version is named in
the property, and the theorem says that there is nothing else, for lists of any order and
kind. What a rollback may take is where the marks come in (`Loses`, `LosesOnly`): it
deletes a commit above the marks only if no finished version has one, since the marks
would be stale otherwise, so the finished versions among those it overtakes have their
commits below the marks.

`RepairsAlign` has no hypothesis either. `RepairInv` says of a repair that is not stopped, for
the list it scanned: what is done together with what is still planned has no gap
(`Closed`), and a successor that was purged is finished with the version before it
as its base, or is the next update and that version is the current one (`Aligned`). It
uses that the legacy versions were decided by the launch (`Decided`): otherwise a
version could cease to be done while the repair is on its way.

*VersionIngest*, from `IngestAssumptions` (no commit twice in the history, trees are finite
sets of files) and `OldestFirst` as the hypothesis of each theorem. The invariant relates the
tables to `Stable`, the content at the last point a rollback goes back to: `before` while a
version is begun, the tables themselves otherwise. `IInv` is the conjunction of

* `Registered`: whatever has a ref, a state, a mark or a recorded blob has a commit row, and
  the versions before it are done (`Reached`). With it at most one version is being parsed
  at a time, and this is what fails without `OldestFirst`.
* `Sound` and `Whole`: in the stable content a blob that is parsed has its one tag and its
  one definition, a row of `checkpoint` belongs to a finished version and to a file of its
  tree, and a finished version has its whole tree.
* `Since`: what the tables, the staging queues and the batch hold beyond the stable content is
  above the highest stable id, or derived from a blob the run recorded as parsed again
  (`Redone`), or a checkpoint row of the version in parsing; and if there is anything, all the
  marks of that version have been taken.
* `Recorded`: a mark of a version in parsing is the highest stable id, and a blob that is
  recorded had no derived row before.
* `Deleted`, for a rollback on its way: no delete that is still to come takes a stable row
  (`Spares`), and each row beyond the stable content is reached by one of them before
  the marks and the recorded blobs go (`Reaches`). So a rollback that is interrupted leaves
  `Since` and `Recorded` as they are, and the next one makes a plan that has both again.
* `Parsing`: what the run in progress has still to do for a file of its tree, so that at
  `Finish` the version is whole.

`Position` ties the place of the process to these. TLC checked `IInv` on the instance of
`VersionIngest.cfg` and on a history of three commits. The proof shows what the order of `begin` is for: all
the marks, then the state, then the recorded blobs, and only then the first row of a batch;
and why the rollback deletes the marks and the recorded blobs last.

*MailResolution*, from `MailAssumption` (finitely many clients; no commit twice in what
a client is given). `CommitsInv` says that a commit is in one chunk at one place, or in
flight, or answered, or dropped, and that these exclude each other; the lemmas are
about cutting a sequence into chunks (`ChunksSplit`, `HalvesSplit`) and putting chunks
back, for every size. `SlotsCounted` needs only types besides itself.
`HealthyDaemonSurvives` has `HoldCoversBoot` as its hypothesis, the assumption on time
of section 2; `ScriptInv` says that a daemon boots only while the script that launched
it holds the lock.

*ConnectionPool*, from `PoolAssumptions` (finitely many requests). `Base` has the types,
that a request past `get_db_pool` has a pool, that a pool is made only under the lock
and when there is none, and that who sleeps is in the queue of its pool once. On it rest
two more invariants. `Wakened`: if anybody is queued on an open pool, the free places are
at most the requests that are awake, out of the queue, and about to look; it counts a
waiter whose time is over as queued until it has the lock again. `Counted`: `_open` is
what is idle, lent and about to be closed.

*ChangeSetStore*, from `StoreAssumptions`. `StoreInv`: no key is in the LRU twice, or in
the LRU and evacuated, and the entry a caller works on is what the dictionary has. The
heart is `Evicted`: whatever `EvictLru` moves, packs or fails to pack, no key changes
its value. That is why the model states the loop of `_evict_lru` in closed form
(section 2); TLC compared it with the loop.

*CarriedHashes*, without assumptions. `HashInv` says by how much the carried
rows may be ahead of the database: by what is staged, and by what of the batch is not
written yet; a row that is staged or in the batch is nowhere else (`Ahead`).

*BrowserSessions*, from `SessionAssumption` (no session is called `None`). `HolderInv` adds
that a window that holds a session listens to the channel, so a claim reaches it. A claim
is in the inbox until the window handles it, and then the window signs out.

`NeverLostWhenSettled` needs more (`LostInv`), since a tab is safe only where nobody is about
to overwrite it. Always (`MoveInv`): a session not given out is in no record and no window,
only a page that shows its tabs has running timers, and the messages about a transfer are all
about one tab of one window, none of them beside the end of a session (`OneTransfer`); this
is where the model's users, slower than messages, count. While `settled` (`SettledInv`), every
name the user did not close is `Located`: in the memory of a window with a session, offered to
one, or in a record whose session no window holds. The rest says why each step may
take a place away: a session has one holder (`OneEach`); a window with nothing to save, or
about to hear that it lost its session, has saved (`CleanSaved`, `ClaimedSaved`), and no
offer waits beside that claim (`OffersStand`), so what is left behind is in the record; a tab
that was taken is located without the window it came from (`TakenStay`), so that window may
close it; and while the time of a push runs, who holds the target has the offer still
or has answered (`TimersWait`), so that the fallback writes only records nobody holds, or
of a tab that is elsewhere. The proof has a lemma for entering a session, one for
leaving and one for staying, and an application of one of them per action.

*SyncCaches*, from `SyncAssumption`. `SyncInv`: a token comes from the past, whoever computes
one holds the gate, the calls it is for wait at the gate and asked before it was
computed, and a catalog is built after the tokens it is labelled with were read.
`SharedTokens` is an action property.

TLC also checks each of these invariants on the instance of its run (a module that extends
the MC module and the proofs, with the invariant in the cfg).

What is only model-checked:

* `SavedIsFixedPoint`, `DefconfigRestores` and `AcceptedTakesEffect` of *Kconfig*: they are
  about what `Values` computes, option by option along the menu, so a proof of them is an
  induction over the menu.
* Every liveness property, and what is said with ENABLED.

## 7. Disagreements between code and text, and other observations

One run checks a sentence of the repository and finds that the program does
otherwise (`findings` in `PROJECT.json`): `ingest_state.py` says stale marks "cannot
take a finished version down". The check looks for finished versions with a higher
commit id; a version that was registered earlier and finished later has a lower one.

The following was met while modelling. The models follow the code, and the
properties are stated so that they hold with it; where one names an exception, TLC finds a
behaviour in which the exception happens as soon as it is left out.

*Worker stage.* The files reported as having "killed a worker twice" can be
innocent: a batch that waits in the serializer queue is the oldest unreturned one
and is blamed (`main.py:1903`). The comment on an unreadable result (1930) says "The batch
stays unreceived and is parsed again", but nothing is dispatched to the worker in return
(1932). After two of them (`TASKS_AHEAD`) it waits for a task, the reader waits for it, and
the stage hangs: nothing is parsed again, and the batches stay assigned. `Termination`
names this state (`Starved`) and says that there is no other way to hang; without
the clause TLC finds it violated on the same instance.

*References.* `TableHandling.py:474` says of a changed file that has not executed "the DB still
describes its previous version, so neither may answer for it". A forced reference
is looked up by name all the same, and `G.TE.get` (549) may give a row of that name that
the previous version stored. `NoStaleAnswer` and `StubsAreForced` say where that happens: in a
cycle, at a file that is not delivered or comes too late.

*Table engine.* After a lost answer to COMMIT the batch is written again, meets its
own rows, and the table fails for good although its rows are stored
(`DBHandling.py:565`). A single table is written in autocommitted statements; a failure
between two leaves rows that every later commit collides with (1018).
An AST whose row was lost between the commits of the two tables leaves a hash without
an AST; the mark of the version covers it until another version is ingested first
(`te_direct_db.py:721`; `core/API.md:269` describes the marks).

*Pipelines.* The base that the resume code announces is overwritten by the next
statement (`main.py:3609`). A repair that is stopped between the repaired version and its
successor is not noticed by the next repair (2436, 2443): `RepairAligns` is about repairs
that were not stopped. `main.py:3529` and `core/API.md:171` say that a finished version is
skipped, but its state is looked up for a checkpoint only, which a reference is if it is a
tag or one of the first two of a process (3527, 3536): with `--ref v1 v2 dev` a branch
that is finished counts as new, and `begin()` sets its state back to parsing (3607). The
lists of the run have this case, and `FinishedStaysFinished` names it (`again`).

The rollback of an interrupted version takes what refers to rows above its marks, also from a
version that was registered earlier and finished since (the finding above): with v2 and v4
ingested first and v4 stopped, v1 and v3 finished, and then v4 rolled back. They stay DONE
without these rows and are never parsed again. `FinishedStaysFinished` (`overtook`) and
`ReleasesFinish` (`disturbed`) name it. If such a version was itself stopped, its marks may
have been set above rows that are gone, a row below them may refer to one above, and
`rollback_version` refuses (313) at every launch.

`ingest_state.py:402` lists "done" as "fully ingested version (INGEST_DONE)". `RefPipelines`
has a behaviour in which a version becomes DONE without being parsed: v1 is stopped, v3 is
backfilled on top of it and stopped after 90% of its checkpoint, of files that were there before;
the rollback of v1 takes the commit, the reference and the state of v3 but not its
checkpoint; `--ref v1 v2 dev` registers the commit again under the same id; and the next
launch finds no state and 90% of a checkpoint, sets DONE (3638) and registers v3 as an
alias. TLC finds it in 27 steps, with one complete legacy version and the invariant that
no version has both `status` "done" and `rows` "most". `ReleasesFinish` leaves v3 out as
one that a rollback has overtaken.

*Mailing list.* A lost connection is re-established once per call. The second
loss ends the call with an error and what was answered before is discarded with it
(`ml_client.py:443`); `EachCommitOnce` says nothing of a call that failed.

*Caches.* A reader that queried before a change may fill a cache after it was
cleared (`helpers.py:207, 275`, `sync_service.py:185`); a page may store data older than the
stamp in its key when the two requests straddle a change. Both last until the next
change. A failed token is the empty token, adopted for 15 s.

*Sessions.* A pushed tab can be lost when the target session changes hands within
its 400 ms: the target page is still loading and drops the push, the fallback writes
the record, and the page's first save overwrites it (`tabs.js:614-640`, `app.js:73-88`);
the same if the window is reloaded or opened in between. A takeover discards up to 300 ms of
unsaved changes, a tab accepted just before among them. A save due before the claim
is heard overwrites the new holder's record. The timer of an earlier push of the same
tab ends the later one (`pendingPushes` is keyed by the tab alone). Opening a session the window
already holds reads the record before the pending save. A pending save writes a session
back that another window deleted. `settled` is false in these histories and
`NeverLostWhenSettled` shows that there are no others, for any number of windows, sessions
and tabs (`TabsAreNeverLost`); each clause of `settled` is needed.

## 8. What is not modelled, and why

WorkerStage: progress counters, the report of blob symbols, a batch that cannot
be pickled, `reader_failures` (an exception of the reader itself, raised at the end).

TableEngine: `set()` with an explicit id on a deduplicated table, rows inserted
at initialisation, in-place updates, version-scoped tables (no ids are minted there),
errors swallowed by `get_next_id`. CarriedHashes: the seed row of `m_ast_hash`, the layout
of the packed snapshot.

VersionIngest: versions from before the state table, branches and bare commits
(`RefPipelines` has them), parse failures, and the architecture, maintainer and
mailing-list tables. A deadline there is a crash after a commit. The first version of
a process is compared with the empty tree, as in the code (3609).

RefPipelines: rows of single tables (which of them a rollback takes from a version it
overtakes is left open, none to all), tags that move, several references to one commit
(`VersionIngest` has them).

DependencyScheduler: pre-resolution in the workers, negative caches, references of a file to
itself, a symbol its target never defines, exceptions inside `execute`, chunk
commits, and which row a forced lookup by name finds.

ChangeSetStore: `pop`, `setdefault`, `copy`, `flush` and pickling of the store itself.

MailResolution: the store and the matching of mails to commits (queries), HTTP framing,
sizes of memory (a daemon may be short of it at any time).

ConnectionPool: `close_db_pool` at shutdown, the Unix socket tried before TCP, the
start of the tunnel, and `reconnect` of a lent connection, whose failure is one
way for the connection to be broken. `get_db_pool` reads `_POOL` twice without the
lock (129-130); CPython's interpreter (3.11 in the Dockerfile) switches threads
at calls and backward jumps only, so the model reads once. On an interpreter without
that guarantee a reset in between would make it return None.

SyncCaches: the db, projects and frontend tokens (of the same kinds as the two modelled
as one), deltas, the service worker.

BrowserSessions: Kconfig engines shared between windows, heartbeats (presence is any
answer), duplicated and renamed sessions, the suspension of saving. The script's start is
one step.

Kconfig: the parser; int, hex and string values, ranges and comparisons; transitional symbols,
`allnoconfig_y`, `toggle`, `solve()`, implicit submenus, menu visibility, history. The evaluator
in the browser (`kconfig_engine.js`) is a second copy of the one modelled.

Whole components: the language parsers and the maintainer and documentation parsers are
functions of one file over libclang, tree-sitter or text, in the models an outcome of
a worker's step; `shared_buffer.py` is a layout of memory; `FileHandler` and `git_ast` read;
schema and row builders, configuration, profiler and mock database have no protocol;
the tunnel's hazards lie in external processes and ports; Kbuild, make evaluation and
the include graph transform text and are order-free for their callers; routers are
read-only queries; the front end's views draw.

## 9. Plan

Done: the parts whose correctness depends on order, failure and recovery have a
module each, composed into one run per question.

Next, in the order of what matters most:

1. The content of `VersionIngest` without `OldestFirst`, for a `_completed_after` that looks at
   when a version was finished.
2. An exception inside `ChangeSet.execute`, and `WorkerStage` composed with the table
   engine at the write barrier, for the two hazards of ingestion without a property.
3. Int and hex values with ranges in `Kconfig`.
4. The include graph's order and the make evaluator against reference definitions
   over bounded inputs.
