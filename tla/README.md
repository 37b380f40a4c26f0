# Enfold: a TLA+ verification project

Enfold (`src/enfold`) is a local memory store for AI agents: one SQLite database
of facts, owned by one daemon process, written by several agents (clients) with
different powers, embedded and fed by background workers, read by searches, and
maintained offline by operator commands. An older in-process provider (the "legacy"
plugin) works on the same kind of database without the daemon. This directory models
the parts whose state several actors change, checks them with TLC on small instances,
and proves every safety property that is checked with TLAPS, for every value of the
constants.

    tlc -workers 2 -config MCFactStore.cfg MCFactStore     # one run
    tlapm FactProofs.tla                                   # the proofs of a component

`PROJECT.json` lists the components, runs, mutants, hazards and theorems, and maps
every definition to the lines it models.

## 1. The system

### Components, their state and their operations

| Component | Source | State | Operations | Module |
|---|---|---|---|---|
| Fact table, state slots | `core_store.py`, `state_slots.py` | `facts` with valid-time and transaction-time columns, `superseded_by`, `conflict_group`; `fact_conflicts` and members | decide a write, insert, supersede, open / join / resolve a conflict | FactStore, FactLife |
| Write service and policy | `write_service.py`, `provenance.py`, `policy.py` | sessions, `memory_write_log`, observations, provenance, grants | `write`, `write_batch`, `promote`: idempotency, dedup, merge, contradiction, supersession | FactStore, WriteLog, OutcomeRegister |
| Privacy erasure | `erasure.py` | every table | `erase_fact` | in the module of each table |
| Near-duplicate merge | `cluster_merge.py` | facts, links, tags | write-time merge; `execute_merge` | FactStore, ClusterMerge |
| Reads | `temporal.py`, `projections.py`, `service.py` | - | as-of search, history, changes, conflicts, dossier | FactReads |
| Retrieval | `hybrid_retrieval.py`, `sqlite_vec_index.py`, `embed_store.py` | derived vector index and its ledger | search in many statements, rebuild | Recall |
| Context packing | `context.py` | - | `pack_context`, `_context` | ContextPack |
| Embedding outbox, worker | `embedding_jobs.py` | `embedding_jobs`, `fact_embeddings`, the worker's claim | enqueue, backfill, claim, embed, settle, commit, fail, health | EmbeddingJobs, FactLife |
| Extraction queue, processor | `extraction_enqueue.py`, `extraction_processor.py`, `extraction_worker.py` | `extract_queue`, the worker's claim and proposals | enqueue, claim, extract with heartbeat, persist snapshot, write batch + delete row, fail, refund | ExtractionJobs |
| Extractor hosts, evidence | `host_extractor.py`, `*_extractor_child.py`, `extraction_contract.py`, `extraction_spans.py`, `evidence_verifier.py` | - | spans, child, contract, verification, screens | Extractor |
| Daemon transport | `daemon.py`, `protocol.py`, `client.py`, `read_pool.py` | connections, negotiated records, handler threads, the mutation lane | greet, admit, handle with a deadline, shut down | Frames, Daemon |
| Server start-up, ownership | `server.py` | ownership lock, workers, database connections | start, serve, ordered or degraded close | Daemon, Installation |
| Set-up and launchers | `setup_cli.py`, `bootstrap.py`, `mcp_launcher.py` | store, configuration, credentials, lock sidecar, socket, pid file | create, grant, start, probe, roll back, uninstall | Installation |
| Backup, migration | `backup.py`, `schema.py`, `ops.py` | sidecar locks, copies, schema version, WAL | verified copy, replace, migrate | Maintenance |
| Legacy provider | `__init__.py`, `extract_queue.py`, `reflection.py`, `embed_store.py`, `mcp_server.py` | in-process queue, fact table, insights, vectors, caches | drain, add, replace, update, remove, reflect, embed | LegacyQueue, LegacyFacts |
| Write lock | `write_lock.py` | registry per module copy, flock | take, nest, wait, release, fork | WriteLock, AdvisoryLock |
| MCP front ends | `mcp_stdio.py`, `mcp_server.py` | keys, retries | remember, correct, write | WriteLog, LegacyFacts |

### How they interact

All writes of a running daemon go through one writer; each is one `BEGIN IMMEDIATE`
transaction, so transactions are atomic against each other. What interleaves is what
happens *between* transactions:

* A worker claims a job in one transaction, calls a model outside any, and closes the
  job in a later one. Meanwhile the fact may be disputed, resolved or replaced, the
  lease may expire and be taken over, and the daemon may die.
* A search has a read connection without a transaction; any commit may fall between
  two of its statements.
* Clients of different power write to the same slot in any order. A write reads the
  slot, decides, and changes up to three rows and a conflict record.
* A front end opens a connection per request and may lose the answer of a write that
  was committed; a handler may outlive the deadline of its request.
* Operator commands take `maintenance_database_lock` (`backup.py:41`), which the
  running daemon holds. They see what a stopped or dead daemon left: leased jobs
  without a worker, conflicts, queued transcripts, WAL frames.
* Launchers, set-up and uninstall share a directory of files without a common lock.
* The legacy provider and its MCP server are two processes; additions take the
  cross-process write lock, updates and removals of the parent plugin do not.

### What is hard about it, and what correct means

* **Fact table.** One settled value per slot or a visible conflict, whatever the
  order, authority and dates of the writes; conflicts that stay well formed through
  resolution, erasure and merging; a history that is acyclic and never loses a link.
* **Policy.** Truth is replaced only by what outranks it, also when a write resolves
  a conflict as a side effect.
* **Reads.** A past moment answers the same once every transaction prepared by it is done; the read paths agree; nothing in
  force is hidden.
* **Embedding and search.** No settled fact silently without a vector; no vector of an
  erased text; an index that is used only when it is right; no fact missed for what
  happened to others; a prompt that keeps its budget and its order of precedence.
* **Extraction.** A queue row is applied once, from one model answer; what is written
  was said by the user; erased transcripts do not come back; no row stays queued.
* **Write log.** One outcome per key whatever is lost and retried; evidence that
  survives the erasure of others and goes with its own.
* **Daemon.** One process has the database open for writing; nothing that may still
  write loses it at shutdown; every request ends and no answer goes to another; what runs
  was granted.
* **Maintenance and installation.** A crash or a race between two steps loses no
  commit and no store, and leaves nothing a daemon would wrongly serve.
* **Legacy.** No fact stored twice in other words; batches replayed until accounted
  for; insights grounded; caches coherent; the lock exclusive and always passed on.

The hazards behind these are listed with their lines in `PROJECT.json`.

## 2. Modules and their correspondence to the code

One committed transaction is one action; a transaction that raises is rolled back and
is no step, so each condition under which the code raises is a conjunct of a guard.
Steps of one actor between which others may run are actions of their own.

### FactStore

State: `facts` (fact_id -> row), `conflicts` (conflict_id -> record and members) and
the two last assigned ids. Answers that change neither table (dedup, `needs_review`,
rejection, replay) are no steps.

| Action | Code |
|---|---|
| `AddState`, `SupersedeState`, `OpenStateConflict`, `JoinConflict`, `SettleConflict` | the outcomes of `decide_state_write` as carried out by `MemoryWriteService.write` and `_prepare_state_mutation` for typed state |
| `AddUntyped`, `ContradictUntyped`, `MergeNearDuplicate`, `ReplaceUntyped`, `ReplaceByDuplicate` | the outcomes of `write` for untyped memories |
| `ResolveConflict` | `EnfoldService._resolve_conflict`, `resolve_state_conflict` |
| `EraseFact` | `erase_fact`, with the conflicts of the fact and the insights citing it |

Abstractions. One access scope. `invalid_at` and `expired_at` are "is not NULL" flags;
`valid_from` and `valid_to` are numbers, 0 for NULL, compared as in
`_intervals_overlap`. Content and object value are one abstract value. A confirmed
correction and one that is visible in the provenance only are kept apart (`claims`),
because the code protects only the first. Whether two texts contradict or nearly repeat
each other is left open, as is the trust and time rule that picks the survivor of a
merge. The partial unique index on current slots is **not** a guard: `OneSettledValue`
therefore says that the decisions alone never violate it.

### FactLife

The abstract specification of a fact's life: absent, settled, a member of a conflict,
history, erased. Its seven actions say what a transaction may do to the stages: one new fact
is settled, over a settled one or over a whole conflict (`NewSettled`), is a closed interval
(`NewClosed`), disputes (`NewDisputed`) or is merged away (`NewMerged`); a settled one gives
way to another (`Replaced`); a member is elected over all the others (`Elected`); one is
erased with the insights on it (`Wiped`). FactStore implements it (`ImplementsFactLife`,
where `LifeStage` reads the stage off the row), and the fact transactions of EmbeddingJobs
and Recall *are* its actions with what they do to jobs and vectors. So the environment that
the outbox and the searches are checked and proved in is one that allows all that the fact
table can do. The deletions of the offline merge are not in it: they need a stopped daemon,
and take the vectors and jobs of the deleted facts along.

### FactReads

Extends FactStore with a clock and the two transaction-time stamps of each row, and
defines the reads as operators: `Active` (plain search), `SearchAsOf`
(`row_matches_as_of`), `CreatedIn` and `SupersededIn` (`changes`), `History`,
`Listed` (conflicts) and the dossier. A writer reads the clock (`Prepare`), waits for
`BEGIN IMMEDIATE` as long as it takes, and then commits a step of FactStore (`Commit`) or
nothing (`GiveUp`); other connections see the rows from the commit on. What it puts out of
force is stamped with the clock it read, a new row with one that `insert_fact` reads after
it was let in. `Writers` are the connections that write: any number in the proofs, the
daemon's in the run. Windows of `changes` are cut by `julianday()`, that is at
milliseconds (`Julian`, any map that keeps the order of moments), while `SearchAsOf`
compares the exact stamps. An answer is what a query that matches every text returns.

### ClusterMerge

Extends FactStore with the deleted facts and the tag lists of insights. `Serve` is a
transaction of the daemon, `ExecuteMerge` the offline merge: any clustering of the
settled facts, any survivor, all references rewritten in the order of the code. The
merge's own check for orphaned references is left out of the action, so `MergeSound`
says it never refuses. Only the tag list that erasure parses is cited.

### EmbeddingJobs

State: the life stage of each fact (FactLife), the vectors, the job rows in
job-id order, the step each worker's `process_one` is at, whether the daemon runs.
`WriteSettled`, `WriteClosed`, `WriteDisputed`, `WriteMerged`, `ReplaceByDuplicate`,
`ResolveConflict` and `EraseFact` are the actions of FactLife with the jobs they queue or
close. A closed interval is history at once and its job is queued nevertheless
(`write_service.py:702`), to be completed without a vector. `Claim`, `ReadFact`, `Embed`, `Settle`, `Commit`, `Fail`, `LoseLease` are
the steps of `process_one`; `LeaseLapses` and `BackoffEnds` are time; `Crash` and `Start`
the daemon, the latter with `enqueue_backfill` and the `activation_safe` check. A lease
token is represented by its holder. `EraseFact` needs a stopped daemon because the
command takes the maintenance lock. A claim reads the table once: `BuriedJobs` is what the
first UPDATE leaves, and the claimed row is the claimable one of the lowest job id. The
backfill appends its new rows in the order of the fact ids (`Ascending`).

### Recall and ContextPack

Recall extends EmbeddingJobs with the derived index and its ledger (a trigger counts
changes of the vectors, a writer with the index open copies the count) and one search
whose statements are actions: `BeginSearch`, `OpenIndex`, `Lexical`, `Eligible`,
`Score` or `Recent`, `Load`, `Rescore`, `Vectors`, `Jobs`, `Receipts`, `Reply`.
`Rebuild` is the operator's rebuild with its crash points. Scores are left open: any
order of the found facts may come out. `memory.context` then packs them with the
operators of ContextPack, which measure text by its length: `PackContext` puts
conflicts first, then reviewed facts, then the others, cuts or omits what does not fit
the token budget, and `Contexts` drops candidates until the reply fits. What reviewed
facts are promised is exactly this: when an unreviewed fact is shown, no reviewed one was
cut, and one that is left out has its slot taken by a fact that is shown, or could not be
fitted where a shorter unreviewed text still could (`Shorter`; `context.py:390-425` goes
on with the next row after one that does not fit).

### Extractor and ExtractionJobs

Extractor has the pure part as operators: spans of a transcript, the input limit, the
child process and its provider with every way a run may go (`Call`), the contract check
of its answer, the verifier and its fallbacks, the screen before a proposal is persisted
and the preparation of write requests from a persisted snapshot.

ExtractionJobs has the queue rows, the write log (one entry per committed batch), the
step and the data in hand of each worker, and whether the daemon runs. `Enqueue` is
`enqueue_after_commit`; `Claim` through `Fail` are `process_one`; `LeaseLapses`,
`BackoffEnds`, `Ages` are time; `Revive`, `Acknowledge`, `EraseMemory` are operator
commands on a stopped daemon. A payload stands for an envelope and its hash, a snapshot
for the items of one model call and their hash. Idempotency keys of a batch follow from
the two hashes and the request hash also covers the queue id, which is why the same
batch from another row clashes.

### WriteLog and OutcomeRegister

WriteLog has the tables a durable write touches (facts, observations, provenance, write
log), the sessions and grants, the calls in the daemon and what each front end has been
told. `Ask`, `Retry`, `GiveUp` are the front end and its time-outs; `Refuse`, `Replay`,
`Reject`, `Hold`, `Write`, `Merge`, `Fail` what the daemon does with a request; `Kill`,
`Regrant` restarts; `Erase` the part of `erase_fact` about evidence: shared observations are
cloned, log rows repointed, the details of the erased fact's rows emptied. Each clone gets a
row of its own that is not in use, any one. `Merge` stores a fact beside a near duplicate
and retires one of the two at once; the outcome names the survivor, to which alone the
evidence is attached (`write_service.py:631`, `705`), and whether two texts are near
duplicates is left open. A row of the log has every field an answer shows (`service.py:680`:
outcome, fact, existing fact, observation, detail; the write id is the row itself). A write
that is stored in conflict with what it contradicts counts as an insert. The rule that
details which contain the erased text are scrubbed wherever they are (`erasure.py:362`) is
left out, because the details of writes quote ids and slots only.
A promotion names the fact it promotes (`WriteLogAssumption`), because
`EnfoldService` parses `fact_id` as a positive integer before it writes; no hash that a
write computes is one made up for a clone (`NullAssumption`), as those are random.
`OutcomeRegister` is the abstract promise of idempotency
keys: `Record` the first outcome, `Tell` the recorded one, and `Erase`, which takes the detail
from the outcomes of the erased fact, may move the observation of others and changes nothing
else (`Amended`). `OneOutcomePerKey` is the refinement.

### Frames and Daemon

Frames says which lines decode, which greetings are negotiated, with which capabilities,
and which requests a connection admits. `DaemonAssumption` says of the lines that a
protocol of a decoded one is not None, which `ProtocolVersion.from_dict` refuses. Daemon has who holds the flock on the
database's sidecar, where each server's main thread is, whether its connections are
open, its worker, the connection threads with their negotiated records and the handler
threads. A restart is another member of `Servers`.

| Action | Code |
|---|---|
| `Acquire`, `Open`, `StartFails`, `Serve` | `DatabaseOwnership.acquire`, `ServerApplication.__init__` with its error path, `serve_forever` |
| `Accept`, `Greet`, `Request`, `TakeHandlerLock`, `Finish`, `Deadline`, `Hangup` | the accept loop, the first frame, a later frame with the handler thread it starts and waits for at most `handler_timeout` |
| `WorkerClaims`, `WorkerFinishes`, `WorkerExits` | the loop of a supervised worker and its stop flag |
| `Stop`, `ShutdownDaemon`, `JoinWorkers`, `CloseConnections`, `Release` | the signal, `UnixJsonDaemon.shutdown`, `ServerApplication.close`, orderly or degraded |
| `Exit`, `Kill`, `Maintain`, `EndMaintenance` | the end of the process, `maintenance_database_lock` |

The worker stands for the embedding and the extraction worker, which are started,
stopped and joined alike. `db` says whether the long-lived connections are open, on which
all mutations and the workers' transactions run; a read handler opens one of its own
(`read_pool.py:78`) and may have it for as long as it runs. A handler that outlives its
deadline is in nobody's list and goes on until it ends or the process does, also after the
server has released the database. What a reply says is left out.

### Maintenance

State: the generations of the database file and which of them is at the path, the WAL
sidecars and whose frames for which generation they hold, the frames that were
checkpointed into a file other than their own (`astray`), the backup file, the two sidecar
locks, and for each process the generation it has open and the step it is at. A generation
has the stage of its schema, with what the log adds to it. The daemon acquires, serves,
writes and closes; a legacy provider probes the schema, opens, writes under the write lock
(`LegacyWrite`) or without it (`LegacyWriteUnlocked`: updates and removals of `fact_store`,
the queue's bookkeeping, the vector store); commands back up without a lock, or take both
locks in order and migrate (one transaction per patch) or restore (sidecar check, copy,
`os.replace`). `Kill` may fall anywhere.

SQLite is external. The last connection to the file at the path that closes checkpoints
the log and removes it (`RemoveLog`), a read-only one or a killed process leaves it. A
*stray*, a legacy provider that opened the file before a restore replaced it, shares the log
at the path with those who open the new file. How it then behaves was tried out with
SQLite 3.40.1: when a stray closes, it neither checkpoints nor removes the log, because
its file is no longer the one at the path (`Disconnect`); but the checkpoint that its
commits make from time to time writes the frames of the daemon into the replaced file,
where they are lost (`CommitTo`, `Checkpoint`); when the daemon closes as the last one on
the new file, the log goes and the stray has none at the path any more (`RemoveLog` sets
`conn` to 0); and a reader of the one file may see the content of the other (`CopyOut`).
What a database is into which foreign frames were replayed is left open (`Coherent`): no
process opens one here.

### Installation

State: database, configuration, credentials, lock sidecar, socket and pid file as
inodes, the daemons with what they have locked, opened and bound, and each installer's
step and memory. `Create`, `Grant`, `Attach` and `Finish` group the steps of
`ensure_instance`, `run_setup`, the launcher's probe / unlink / spawn / wait / stop, and
rollback or uninstall; `DaemonStep` the steps of a server between which a launcher may
look. `KillDaemon` kills a daemon; `KillInstaller` kills or interrupts an installer at any
step: it runs no rollback (`setup_cli.py:567-574` catches no `KeyboardInterrupt`), what it wrote
stays, and if it was removing files some of them may be gone. A launcher that is killed is
gone; what its host starts then is another launcher. An inode number names one incarnation of a file; there are enough of them for every
reference that installers and servers can hold at a time, and one more.

### WriteLock and AdvisoryLock

WriteLock has, per process and module copy, the registry guarded by the condition
variable, each thread's step, the open file descriptions and who holds flock. Threads
register or wait, lock or fail, nest, leave, unlock and notify in separate steps; a
fork copies descriptors. AdvisoryLock is the promise: at most one thread inside, ended
only by its return or death.

### Legacy, LegacyQueue and LegacyFacts

Legacy declares what the two halves of the in-process provider share: its processes and
texts, which of them restate or update one another. Their other names are distinct (as are
those of Installation and Maintenance), so that one module can extend both.

LegacyQueue has the queue rows with leases and fences, the facts by text, the
generations of each process's provider, its workers and its in-memory failure counts.
`Drain` groups the steps of the worker; `Teardown` and `Start` re-initialise the
provider, `KillProcess` kills it; the tools meanwhile add facts (`ToolAdd`, with the search
for duplicates, under the lock), replace them (`ToolReplace`, under the lock, without a
search), edit and remove them (`ToolEdit`, `ToolRemove`, neither) or store them in other
ways that search for nothing or search before they take the lock (`StoreUnchecked`: the
memory mirror, the regular expressions at a session's end, insights). A search for
duplicates or for a value to update may fail, which counts as nothing found (`Unsearched`).
`checked` has the texts that were stored after a search that answered. Proposals that
`insert_facts` drops by its credential or ephemeral screen (`llm_extract.py:389-403`) are not
among `Extractions`. LegacyFacts
has the fact rows, the lock's holder, additions and reflections half way, embedding tasks,
the backfill, stored vectors and each connection's cached matrix. What an addition or an
update may write is any text, that of an insight included, because nothing tells the two
apart; a reflection draws on facts in force that cite nothing. The second transaction of an
addition that replaces a fact (`SupersedeAdd`) may commit, be refused, in which case the new
fact is withdrawn, or fail after it began, in which case it is rolled back and nothing is
withdrawn. `McpReplace` commits also when its cascade to insights failed; the retired row
then carries `cascade = "failed"`.

### MC modules

The MC modules declare model values, symmetry sets and the structured constants
(greetings, transcripts, runs of a child, budgets). `MCFactStore` also defines `MixSpec`,
which restricts the inputs of FactStore to two populations, each explored to the end:
typed writes with valid times by clients of every authority, and all kinds of writes
without valid times by one owner.

## 3. Runs

| Run | States | What it shows |
|---|---|---|
| `facts` | 1,086k | Three clients, two authority levels, dated, undated and closed intervals of one slot; typed and untyped facts with equal texts, insights, corrections, resolutions, erasures: one settled value, sound conflicts, disjoint intervals, acyclic links, nothing out of force silently, replacement only with authority |
| `fact_reads` | 507k | Reads agree with each other and with the past while a writer that reads the clock, waits and commits later writes, disputes, resolves and erases facts of two slots; the table implements FactLife |
| `cluster_merge` | 602k | Merges between writes leave no dangling link and sound conflicts |
| `extraction` | 299k | Two workers, two rows, 36 ways a run of the extractor may go: applied once, said by the user, no erased text in hand, drained in the end |
| `embedding_recall` | 459k | Outbox, search and index: coverage, faithful index, nothing missed, sound prompt, embedded in the end |
| `daemon` | 50k | A server and a successor with fewer grants, an operator, 20 kinds of lines: ownership, also with handlers left behind, one mutation, granted work, nobody waits for ever |
| `maintenance` | 1,354k | Backup, restore, migration with kills, legacy writes with and without a lock, strays: maintenance alone, complete files served, commits stay with their file unless a stray checkpoints them |
| `write_lock` | 18k | Three threads, two copies, a fork: implements AdvisoryLock and is passed on |
| `legacy_queue` | 254k | Lost leases, re-initialisation, crash, quota, writers that search for nothing, searches that fail: no restated facts among those stored after a search, one saved answer, completed rows accounted for, every row settles |
| `legacy_facts` | 369k | Two processes add, replace, reflect, embed, with a second transaction that is refused or rolled back and a cascade that fails: grounded insights, coherent caches, replacements settle |
| `write_log` | 102k | Lost answers, retries, races, kills, regrants, near-duplicate merges, erasures: one outcome per key, amended by erasures only, evidence intact at its holder, every request answered |
| `installation` | 422k | Pairs of launchers, set-up and uninstall, one of which or a daemon is killed: one writer, whole grants, no store lost to a race, served at last |

A property that is a conjunction (`OutboxSound`, `Ownership`, `QueueSound`, ...) names its
parts, which are defined and explained just before it.

**Bounds.** `MaxFacts` = 3 reaches every outcome of a typed write, because a decision
looks at the slot's facts through one target or one conflict: two facts make a conflict,
the third settles it, joins it, or opens the next one after a resolution; three facts are
also what a chain X -> Y -> X needs (that no chain of any length closes is proved). Two
time points give touching, nested and disjoint intervals together with the unbounded
ends. `fact_reads` has three clock values, a moment before, at and after a change, of which
the last two share a millisecond, one writer, which may wait for any time (that another
overtakes it while it waits is in the proofs only), and no insights, whose erasure is in
`facts` and in the proofs.
`cluster_merge` has four facts: two clusters, or a cluster and a conflict, or a merge
after a merge. `MaxAttempts` = 2 has one retry and a last attempt; two queue rows of one
payload are the duplicate enqueue; one revival lets a row die, return and die again.
Two servers are a process and its successor; two connections let a request queue behind
another's mutation, and a handler is left behind by a request that timed out. Three
generations are a database before and after a restore, and after a second one that meets
what strays of the first left. `CandidateLimit` = 1 with three
facts makes every limit of a search bite; the token budgets fit a conflict line only, a
cut fact, and two facts. Two installers at a time, three daemons known at a time: one
that serves, one that is dying and one that is being started; one kill, of an
installer or of a daemon.

**Scenes.** `MCRecall`, `MCWriteLog`, `MCLegacyQueue`, `MCLegacyFacts` and `Installation`
bound the world by budgets (or casts), of which the initial state chooses one: the run is
the union of a few small worlds, each with one combination of misfortunes (for instance
two lost leases and a removal; a crash and a duplicate enqueue), instead of one world
with all of them. Combinations of more than two kinds of misfortune are not explored.

**Symmetry** is used over values (`facts`), slots (`fact_reads`) and operator commands
(`maintenance`), which only equality tells apart, and in no run with a liveness property.

**Deadlock** is checked in `facts`, `fact_reads`, `cluster_merge`, `extraction`,
`embedding_recall`, `daemon` and `maintenance`, where something can always happen. It is
off in the others, whose processes may all have died or whose budgets end.

**Fairness.** Workers poll for ever and their calls have time-outs (`Work`, `Drain`);
leases, backoffs and quota windows pass; a daemon, or a legacy process, that is down is
started again by its supervisor. `NobodyWaitsForEver` assumes that `done.wait` returns
after `handler_timeout`, that the main thread's joins are bounded once it shuts down, and
that a worker's current call ends; handlers are not fair, one may hang for ever.
`LockPassedOn` assumes that threads that have begun go on, that a body ends, and excludes
a flock that fails for ever. `EveryAskAnswered` assumes that the daemon serves what it
holds, clients time out and hosts retry. `ServedAtLast` assumes that processes that run
go on; nobody need start a launcher again. Writes, crashes, operators and erasures are never fair, and the number of crashes
is bounded, without which no worker need ever finish.

**Mutants.** For every property there is a mutated definition, next to the original,
that a plausible slip in the code would produce (no expiry stamped, lease not compared,
fact not read again, lock not taken, limit applied too early, ...) and under which TLC
finds the property violated.

## 4. Proofs

Each `...Proofs` module holds the theorems of one component or of a few that belong
together, from the assumptions on their constants alone and for every value of them; each bound of a run (facts, workers,
attempts, crashes, budgets) is a constant with no limit there. The layout is the same
everywhere: an inductive invariant, one lemma per action that shows that it is kept, and
the theorems that follow from it. The inductive invariants were checked by TLC on the
instances of section 3 before they were proved, but for `PackFits` of Recall, which speaks of
the whole course of a pack.

| Module | Theorem | Statement |
|---|---|---|
| FactProofs | `FactStoreInvariant`, `FactStoreTypes` | `Spec => []IInv`, `Spec => []TypeOK` |
| | `SettledValueUnique` | `Spec => []OneSettledValue` |
| | `HistoryEnds` | `Spec => []HistorySound` |
| | `NothingLostSilently` | `Spec => HistoryKept` |
| | `TruthInvariant` | `Spec => []TInv` |
| | `ConflictsAreSound` | `Spec => []ConflictsSound` |
| | `IntervalsDisjoint` | `Spec => []BelievedIntervalsDisjoint` |
| | `TruthIsEarned` | `Spec => TruthReplacement` |
| | `ReadsInvariant` | `ReadSpec => []RInv` |
| | `ThePastIsStable` | `ReadSpec => AsOfStable` |
| | `ChangesBridge` | `ReadSpec => []ChangesBridgeReads` |
| | `NothingIsHidden` | `ReadSpec => []NoFactHidden` |
| | `FactStoreImplementsLife` | `Spec \/ ReadSpec => ImplementsFactLife`, that is `FactLife!LifeSpec` |
| | `MergeInvariant` | `MergeSpec => []MInv` |
| | `MergesAreSound` | `MergeSpec => []MergeSound` |
| RecallProofs | `OutboxIsSound` | `Spec => []OutboxSound`, of EmbeddingJobs alone |
| | `RecallInvariant`, `NothingLeftUnindexed` | `RecallSpec => []IInv`, `RecallSpec => []OutboxSound` |
| | `IndexIsFaithful` | `RecallSpec => []IndexFaithful` |
| | `SearchMissesNothing` | `RecallSpec => []NothingMissed` |
| | `PromptsAreSound` | `RecallSpec => []PromptSound` |
| ExtractionJobsProofs | `ExtractionInvariant` | `Spec => []IInv` |
| | `RowsApplyOnce` | `Spec => []AppliedOnce` |
| | `RowsStaySound` | `Spec => []RowsSound` |
| | `OnlyWhatWasSaid` | `Spec => []WrittenAsSaid` |
| WriteLogProofs | `WriteLogInvariant` | `Spec => []IInv` |
| | `EvidenceIsSound` | `Spec => []EvidenceSound` |
| | `OutcomeIsFinal` | `Spec => OneOutcomePerKey`, that is `OutcomeRegister!Spec` |
| DaemonProofs | `DaemonInvariant` | `Spec => []IInv` |
| | `DatabaseHasOneOwner` | `Spec => []Ownership` |
| | `HandlersStayOrderly` | `Spec => []HandlersOrderly` |
| | `EveryHandlerIsGranted` | `Spec => []WorkIsGranted` |
| OperationsProofs | `MaintenanceInvariant` | `Spec => []IInv` |
| | `MaintenanceIsSafe` | `Spec => []MaintenanceSafe` |
| | `CommittedFramesStay` | `Spec => CommitsStay` |
| | `InstallInvariant` | `InstallSpec => []InstallInv` |
| | `InstallationIsSound` | `InstallSpec => []InstallationSound` |
| | `StoreIsKept` | `InstallSpec => StoreKept` |
| WriteLockProofs | `WriteLockInvariant`, `TheDeadUnlock` | `Spec => []IInv`, `Spec => [](TypeOK /\ DeathUnlocks)` |
| | `LockIsImplemented` | `Spec => ImplementsAdvisoryLock`, that is `AdvisoryLock!Spec` |
| LegacyProofs | `FactsAreSound` | `Spec => []FactsSound`, of LegacyFacts |
| | `CachesAreCoherent` | `Spec => []CacheCoherent` |
| | `ReplacementsAreSettled` | `Spec => ReplacementsSettle` |
| | `QueueIsSound` | `QueueSpec => []QueueSound` |
| | `NothingIsRestated` | `QueueSpec => []NoRestatedFacts` |
| | `CompletionLosesNothing` | `QueueSpec => CompletedIsAccounted`, the safety half of `RowsEndWell` |

### The fact table

`IInv` is the conjunction of `TypeOK`, `FewerConflictsThanFacts` (each new conflict comes
with a new fact, which bounds the conflict ids), `RowsSound` (a row that has ended or
expired is out of force; a row marked with a conflict is a member of it),
`SupersededIsHistory`, `ShareOnlyInConflict` and `NoSupersessionCycle`.

`OneSettledValue` is not inductive. A conflict that is resolved makes one of its
members settled, which is safe only if no *other* fact in force shares its slot.
`ShareOnlyInConflict` is the missing strengthening: two facts in force in one typed
slot carry the same conflict. It is kept because a write to a slot with an in-force
fact either finds that fact overlapping (an undated or open interval overlaps what the
decision compares it with, or the write is an addition of an interval that is not in
force) and retires it or enters its conflict, or leaves by resolving that conflict.

The step part is one lemma per action that proves `IInv' /\ HistoryStep`. They share
generic lemmas: `InsertKeeps` (a new row, a set of rows retired by it, a set of rows
marked with its conflict), `RetireInPlaceKeeps` (rows retired by an existing fact that
stays in force), `MergedAwayKeeps` (a row born superseded), and `LinksToOneFact` (new
links to a fact that is not superseded close no cycle).

The second half of the module goes on from there. `TInv` adds `RecordsFit` (a record names rows that
exist and has no winner while it is open, and members of an open conflict have no end),
`WinnersOpenEnded`, `ConflictsSound` and `LaterIsElected`. The last one is what makes
`BelievedIntervalsDisjoint` provable: of two overlapping believed facts of a slot it is the
*later* one whose being settled needs an election. Saying only that one of the two was
elected is not enough for a supersession, which retires the oldest overlapping fact and
leaves any other where it is: `OnlyOldestOverlaps` shows that there is none that counts,
because it would be later, hence elected, hence open-ended or expired
(`WinnersOpenEnded`), while `ShareOnlyInConflict` leaves a second settled fact only as a closed
interval. `TruthReplacement` needs the same invariant where a write settles a conflict as a
side effect: the code judges the *current* facts of the slot but retires the *members* of
the conflict, and `ConflictsSound` with `RecordsFit` says that these are the same facts.

### Reads

FactReads adds the two transaction-time stamps to the fact table; `RInv` adds to `TInv`
what the reads rely on. `ClocksFit`: every stamp, and every clock a waiting writer has read,
is a moment that has been, and a row was created at a moment from 1 on. `ErasedIsOut`: text is erased only from rows that leave
force in the same transaction. `OnlySupersededExpire`. `WinnersUnmarked`: an election
clears its winner's mark, so a fact in force that still carries one belongs to a conflict
that is open or that an erasure closed without a winner. `TreesKeepSlots`: the links form
a forest, every tree of which has one root; its typed facts have one slot, which is the
root's as long as the root's text is there. That last clause is what keeps an heir from
joining two slots: a row gives way only to an heir of its own slot or, when it is untyped,
to any heir.

Each transaction of FactStore is first reduced to `RowsStep` (a row remains, but for its
text, its mark and its being in force, or gives way to one heir that is readable and not
superseded; a new row is readable and at most born superseded by that heir) and
`MarksStep` (only an open conflict marks a fact, an election unmarks its winner), one lemma
per action. The four parts of `RInv` are kept by those two alone: where rows give way, the
new root of a tree is the heir's.

`ThePastIsStable` and `ChangesBridge` follow from `FoundAsOf`: a readable fact is found as
of `t` exactly if it was created by `t` and was not superseded by then. A transaction stamps
nothing earlier than the clock it read (`CommitStamps`), so it cannot change an answer for a
moment before that (`CommitKeeps`), and one that does was prepared by that moment
(`LateCommit`), which is the exception that `AsOfStable` names. Windows cut at milliseconds
agree with exact stamps where their ends are first moments of a millisecond
(`JulianKeepsOrder`). `NothingIsHidden` reads
the chain of a fact off its tree: the tree is closed under links, and `Chain` is the least
such set.

### The life of a fact

`FactStoreImplementsLife` is a refinement proof of one lemma per action (`...Life`), in two
layers: what the rows a transaction writes are in terms of stages (`StageOf`), and what a
step that moves one fact and puts a set `R` out of force is in FactLife (`SettlesMap`,
`ElectsMap`, ...). It needs `TInv` and `ErasedIsOut`: that an open conflict has two
members, none of them superseded (`ConflictsSound`), is what makes a settlement one of a
whole conflict, and without the second a row could be erased and in force at once.

### Cluster merge

`MInv` is `TInv` with `ErasedIsOut`, `GoneErased` (in the model a deleted row stays as one
whose text is erased), `LinksLive` and `SourcesFit` (a fact cites the source that its tags
list first or none, and an erased fact none). The hard part is `ExecuteMerge`, which changes any number
of rows at once: a link to a loser moves to the survivor of its cluster, which may be a
loser of a later one, and a survivor that a loser had superseded comes free. The proof
follows one reference through the clusters in the order of their first members, with the
fact that clusters are disjoint and a survivor is a member of its own: what is left of it
names a row that is not deleted. Members, winners and elections of conflicts are moved the
same way, so that `ConflictsSound` and `TInv` survive with them. That every link stays
live is also the check for orphaned references which the code makes before it commits, and
which therefore never refuses.

### Outbox, index and search

The outbox needs one strengthening of `OutboxSound`, `WorkFits` (a call in progress has a
job), since the rest of what a worker holds is compared again in the transaction that uses
it. The index adds that the rows are the vectors while the ledger is current, and that a
worker's open writer keeps it current. The search adds what it has in hand after *each* of
its statements: `WatchFits` (facts that stayed settled are settled now, and their vectors
stay) and `HandFits` (which of those facts the candidate lists hold at each step, and under
which limits). `RecallStepIsOutboxStep` shows that a step of Recall is one of the outbox or
leaves it alone, so that `OutboxIsSound` carries over. The order of the job rows is a
sequence that the backfill extends; `AscendingIsSeq` says that it stays one.

`PromptsAreSound` is about packs of any length, which are made by folds over the rows.
Induction over data is out of the provers' reach, but a fold's recursion over sets of
positions has a solution by the least-member principle (`FoldExists`), so that a fold
becomes a chain of packs, one per row (`RowSteps`), and what a row keeps holds throughout
(`Throughout`). What a row keeps is `PackedSoFar`: the budget, what may be rendered, one
value per slot, that a cut text leaves no room for another (`Full`), that every row so far
is shown, has its slot taken or finds no room (`Placed`), and what unreviewed facts owe the
reviewed ones before them (`Yields`). The step that matters is an unreviewed fact that is
shown: there was room, so nothing had been cut, and a reviewed fact that had found no room
earlier, with fewer characters spent, is longer than it (`NoRoomForLonger`). Rounding up
to whole tokens is where this could go wrong, and why the lemmas count characters. `Sorted`
is shown to put all reviewed rows first and to lose none (`ReviewedComeFirst`); the search
then only has to carry a pack that was made of the facts it found (`PackFits`).

### Extraction

`IInv` says of rows, workers and log alike that a snapshot is `Faithful` to the transcript
it names, and of a worker that its transcript is still its row's (`JobFits`) and, as long as it
has the lease, so are its proposals. That last part is what makes `AppliedOnce` inductive: a
worker whose lease was taken over may hold other proposals than the row, but it cannot write.
`WrittenAsSaid` then rests on lemmas on the pure part: whatever a child answers
(`ChildProposes`), a host makes of it (`HostAnswers`) and the verifier decides
(`ResultFaithful`), what is kept is faithful.

### Write log

`IInv` adds to `EvidenceSound` that links join rows that exist, that what supported an
erased fact is scrubbed and carries a hash no write computes (`ErasedIsScrubbed`; otherwise the same
evidence given again would be attached to the scrubbed row), and that a fact's key is in the
log (`KeysLogged`; otherwise a request could write its fact twice). Where the evidence of a
fact is depends on its log row: at the survivor when it lost to a near duplicate (`Holder`),
which `LogAgrees` ties to the observation the row names. Erasure is the hard step: the
observations that others share are cloned, the log rows of others repointed to the clones,
and the originals scrubbed;
`ErasedObservations` says what each observation is afterwards. The refinement maps the
log to the outcomes, the whole rows; `StepsMap` shows that a step records one outcome for a
key that had none, tells one that is recorded, amends as an erasure may, or stutters.

### Daemon

`Ownership` needs `PhasesFit`, which ties the lock, the connections, the worker and the
threads of a server to the phase of its main thread: whatever joins timed out, a server
with a live thread is in a phase that still owns, and a handler that outlives ownership is one
nobody waits for. `HandlersOrderly` needs `WaitsFit` and
`LaneHeldOnce`, which is stated per server without regard to its database, because
handlers that outlive their server still hold its lane; that at most one of all servers can
commit follows from the lock. `WorkIsGranted` follows from `WorkIsNegotiated`: every handler
works for a connection record that its own server negotiated, also when the thread is gone.

### Maintenance

`LocksFollowSteps` and `ConnectionsFollowSteps` say which steps hold which lock and which
have the file at the path open. `OnlyLegacyFrames` is the strengthening behind
`CommitsStay`: between a restore's look at the sidecars and its replacement of the file,
only frames of a legacy provider can appear in the WAL, because the daemon and the other
commands need a lock the restore holds; legacy writes without a lock may well appear. A commit
keeps the stage of its file (`CommitKeepsStage`), so that unlocked ones do not touch
`ServedIsComplete`. `CommitsStay` is proved step by step: what a checkpoint leads astray was
led by whoever had another file open than the one at the path, that is by a stray
(`OnlyStraysMislead`).

### Installation

`InstallInv` has four parts besides the types. `LocksFit`: until a rollback or an uninstall
removes the sidecar (`Wiping`), whoever holds an ownership lock holds that of the sidecar at
the path, and at no time do two daemons hold one lock; this is `OneWriter` made inductive.
`RollbacksFit`: only a setup that created an instance, and an uninstall, come to remove
one by path. `LaunchersFit`: a launcher grants nothing to anybody else and rolls nothing back.
`SetupsFit`, for a setup with which no other setup or uninstall runs: what of the grant and
the credential exists at each of its steps and what it remembers of it, which is
`SetupWhole` made inductive. Whoever is killed leaves all of that as it is or is out of it
(`InstallerKilled`). `StoreIsKept` is proved action by action: only two steps
replace or drop the file, the removal by path, whose installer `RollbacksFit` names, and the
clean-up of an installer that made this very file. A file that is created
gets an inode number that is not in use; that there is one is counted (`FreshExists`:
the references of `n` servers and `m` installers are fewer than the numbers).

### Write lock

`RegistryFits` and `BodiesFit` relate a thread's step to the registry of its process and to
the bodies it has entered, of which a forked thread inherits those of its parent.
`DescriptionsFit` and `FlockFits` say who has the file open and that the file is locked by
a live thread, or by a description that a child inherited in the window between the
registry's release and `LOCK_UN`. Under them the threads inside are those at step `inside`,
at most one of them alive with the file, and `StepsImplement` maps each step to an acquisition,
a release or a stutter of AdvisoryLock.

### Legacy provider

For LegacyFacts the strengthening is `RowsFit` (a stored row has a text of its own, a row in
force has no successor, and what an insight in force cites are rows that are no insights and
were not superseded) and `AdditionsFit` (an addition is under way exactly in the process that
holds the lock, and has a target and a new row once its first half committed). A reflection
compares its sources again under the lock, so an insight that is inserted rests on facts
in force; superseding a fact retires the insights that cite it in the same transaction, or
marks the retired row as one whose cascade failed.
`VectorsFit` is `CacheCoherent` with types: whoever writes another vector drops its own
cache and makes all others foreign. `ReplacementsAreSettled` is an action property of two
transactions, and needs `AdditionsFit` for the moment between them.

For LegacyQueue the hard conjunct is `InsertsSavedProposals`. A lease may be lost at any
time and the row extracted again by another worker, so that what a worker has in hand is
the row's only if it was saved under its own lease; `AnswerFits` says that a worker with an
answer not yet saved, which still holds its lease, finds no proposals in its row, and that
one that has saved holds the row's. `ProcessesFit` (a worker of a closed store or of a
generation that has not begun is gone) is `ClosedStoreUnused` made inductive.
`InsertionFits` says who inserts under the cross-process lock and that what was screened
there stays insertable next to the checked facts, on which `NothingIsRestated` rests
(whoever stores unsearched leaves these alone), and that whatever a worker
without an error has passed is accounted for, on which `CompletionLosesNothing` rests.

### What is only model-checked

Liveness (`EventuallyEmbedded`, `EventuallyDrained`, `NobodyWaitsForEver`, `LockPassedOn`,
the second half of `RowsEndWell`, `EveryAskAnswered`, `ServedAtLast`): temporal reasoning
under fairness and ENABLED is out of reach of the installed provers. Every invariant and
every other action property that a run checks is also proved.

## 5. Observations

What the code does that a document, a comment or a reader might not expect. The models
do what the code does; each property is stated so that it says what the code keeps.

**Fact table and erasure.** Erasing one of two conflict members closes the conflict, but
the other keeps its `conflict_group` (`erasure.py:195`, `326`): it is neither settled nor
listed, and cannot be resolved, although `docs/SECOND_BRAIN_SPEC.md:292-294` promises
visibility until resolution. Erasing the source of an insight that is a conflict member
leaves a conflict in which nobody can be elected. A write whose oldest overlapping fact is
a closed interval raises (`write_service.py:992`) instead of superseding or opening a
conflict. Merged tags may read `source_facts:1,source_facts:3`, of which erasure parses
the first list only (`erasure.py:295`).

**Reads.** The transaction times of a write are read before `BEGIN IMMEDIATE` lets it in
(`write_service.py:414`, `417`; `service.py:1506`; `erasure.py:134`), which may take the busy
timeout, and its rows are visible at its commit only. A search as of a moment between the two
therefore answers differently before and after the commit: `AsOfStable` excepts a transaction
prepared by the moment asked for. `changes` compares with `julianday()`, that is in
milliseconds (`projections.py:100-103`), the as-of search exactly (`temporal.py:397-411`); a
stamp within a millisecond of a window's end may fall on different sides of the two, so
`ChangesBridgeReads` speaks of windows whose ends are first moments of a millisecond. A fact
that is superseded by a transaction which had read the clock before the fact was created, as
a near duplicate that loses on arrival is, is stamped superseded before created, and believed
at no moment. An insight invalidated by an erasure keeps `expired_at` NULL, so a search as of a
transaction time still returns it. An untyped restatement superseded by a typed fact is
missing from the typed fact's history. Searches as of a valid *and* an earlier
transaction time are not stable, because closing an interval rewrites `valid_to`
in place; `AsOfStable` is about transaction time. A poller that reads `changes` up to now
misses a commit with an earlier `recorded_at`; creations of conflict members appear in
past windows once resolved; a bounded answer keeps the *oldest* rows.

**Cluster merge.** The merged tags are computed before references are rewritten, so a
later cluster may cite a fact that the same merge deleted; disputed insights are not
rewritten; tags are split at commas; an insight that survives over its own source cites
itself; `memory_kind` plays no role, so a typed fact may be merged into an untyped one.

**Search and context.** One dead letter makes every read of the daemon fail, because
coverage is checked when a connection is made. A search can fail for a fact whose job completed between
two of its statements. A conflict that is resolved or opened between the load of the facts
and the receipts gives a clean miss, or a fact beside its conflict. `omitted_fact_count`
does not count candidates that `_context` drops; a reply with nothing but conflicts can
still exceed `context_max_total_chars`; the MMR cap is applied before reviewed facts are
put first.

**Extraction.** A retried enqueue is recognised only while the first row waits
(`extraction_enqueue.py:229`, against its comment at line 177); a retry after that makes a
second row whose writes clash with the first row's keys until it is dead. When a lease
renewal fails during a slow start of the child, the child runs on beside the next job.

**Write log.** A newcomer that loses to a near duplicate is stored superseded, without
provenance of its own: its evidence goes to the survivor (`write_service.py:705`,
`tests/test_near_dedup.py:154-183`). Erasing the loser leaves that evidence with the
survivor, and erasing the survivor takes the evidence of the loser along; `EvidenceIntact`
therefore speaks of the holder of a fact's evidence. A replay after an erasure answers with
another observation id, or with an emptied detail (`erasure.py:96-100`, `356-370`), although
`provenance.py:125` calls the outcome a "Stable result persisted for idempotent replay". A retry after a commit may be answered "source fact is not current"
(`service.py:686-735`, `docs/OPERATOR.md:52`). The key of `memory_remember` is derived from
payload and session, so A, B, A in one session replays the first "stored". A change of
grants at a restart makes every write of a live session fail.

**Daemon.** The docstring of `close` (`server.py:1673-1678`) promises that a live "worker or
request-handler thread" keeps connections and ownership. The code does not keep that
promise: a handler that outlives its deadline runs in a thread that is in no list
(`daemon.py:794-797`), and `close` releases the database under it. A mutation left behind so
can no longer commit, because its connection is closed; a read has a connection of its own
(`read_pool.py:78`) and may read beside the next server, or beside an operator's
maintenance. `Ownership` says exactly this (`OnlyLateHandlersLeft`). A mutation whose answer is too large commits although the client
is told `response_too_large`.

**Maintenance.** A restore looks for sidecars before it copies and replaces the file
afterwards (`backup.py:379`, `409`): a legacy provider that opens its store in between
leaves its WAL beside the restored file, and goes on sharing it with the daemon that opens
the new one. Its next checkpoint writes the daemon's commits into the replaced file, where
they are lost, and what is then at the path may be anything; `CommitsStay` and
`ServedDatabaseCurrent` except that state. `backup.py:44` says that the maintenance lock
excludes "daemon and legacy writers for an entire maintenance operation"; a legacy provider
that is open also writes without the lock (updates and removals of `fact_store`,
`__init__.py:1803`; the queue's bookkeeping; vectors), so `MaintenanceAlone` promises only
that no *locked* legacy write is half done. An online backup counts rows before it copies and compares after it published
(`backup.py:468`), so a write in between makes it fail with the backup in place. A legacy
provider that opened its store before a migration goes on writing.

**Installation.** Rollback and uninstall remove the lock sidecar although
`server.py:96-98` says that it persists: two writers become possible, so
`InstallationSound` excludes the time after a removal. `remove_stale_socket`
(`daemon.py:181-200`) can unlink a socket that is bound but not yet listening, which
leaves a daemon at no path. The pid file may name a dead loser. Two set-ups at once lose
one grant, and a set-up that is killed or interrupted after it replaced the configuration
(`setup_cli.py:353`; no `KeyboardInterrupt` is caught at `567-574`) leaves a grant without its
credential: `SetupWhole` is about
set-ups that end by themselves and meet no other. A failed set-up that created the instance
removes the store under another client's daemon; it removes by path (`setup_cli.py:463-475`),
so that the store may also be that of an instance made since its own was gone. Two launchers that retry at the same pace can stop each other's daemons
for ever.

**Legacy.** A row interrupted by a teardown stays `processing` until its lease lapses,
although the docstring of `_teardown_background` says "stays pending"; the branch that would
release the claim is unreachable. A, B, A through the agent's addition retires B in
favour of the retired A; the MCP server refuses this. A plain MCP addition of a retired
text answers "deduplicated" with nothing in force. Removing or editing a source leaves the
insight. `memory_supersede` swallows an error of its cascade and commits the rest
(`mcp_server.py:347-351`), which leaves an insight in force on a superseded source. When the
second transaction of a replacement raises after it began, it is rolled back and the
compensation skipped (`__init__.py:1852-1880`): old and new are both in force, and the answer
says `supersede_failed` with `rolled_back` true. Texts are stored without a search for
restatements by `fact_store` update (`__init__.py:1803`), `on_memory_write` (`1365-1376`), the
regular expressions of `on_session_end` (`934`) and `memory_supersede`
(`mcp_server.py:533-549`), by a reflection after a search before the lock
(`reflection.py:559-582`), and after a search that failed, which counts as "none found"
(`__init__.py:1918-1920`); `NoRestatedFacts` is about facts stored after a search that answered.
An older embedding task that finishes late leaves a stale vector. When the MCP
server supersedes a fact by the exact text of an insight that cites it, the insight passes
`_replacement_fact_is_distinct_and_active` (`mcp_server.py:290`) and is then retired by
`invalidate_insights_citing` (`mcp_server.py:349`) together with its source: neither is in
force, although the answer says "superseded_with_existing". `McpSuccessorInForce` leaves
out just this case. The compensation of a failed replacement (`__init__.py:1847-1884`)
withdraws a fact without retiring insights that cite it, which takes an edit outside the
lock to matter.

## 6. Plan

Every component of section 1 that keeps state has a module, and every safety property a
proof. What is left is migration: what migration 1 and the patches do to rows, as functions on
FactStore's rows; run again they change nothing, and FactStore's invariant holds after them.

## 7. Not modelled

Scoring, fusion and embedding arithmetic (floating point), named anchors and entity
expansion (never enabled by the daemon); text rules (credential screen, prompt safety,
contradiction heuristics), whose outcomes are nondeterministic here; access scopes of
reads, limits and output budgets other than those of the prompt; rendering of evidence,
exports and explanations; what each schema patch does to rows; the termination protocol
of child processes and artifact digests; the worker's prerequisite attestation and the
capture switch; host configuration files of set-up; reports, diagnosis and evaluation
(`doctor.py`, `demo.py`, `verifier_eval.py`, `src/memory_eval`); conversion of legacy
snapshots, which nothing calls.
