# ChironDB: a TLA+ model of its durability core

ChironDB is a single-binary multi-model database written in Rust: typed SQL
tables, vector collections with payloads, full-text retrieval and a property
graph over one storage root.  This directory holds TLA+ specifications of the
parts that decide whether a change is committed and keep it across crashes,
the TLC runs that check them, and TLAPS proofs about them.  `PROJECT.json`
maps each definition to the lines it models.

## 1. Inventory

| Part | State | Operations | Meets | Hard behaviours |
|---|---|---|---|---|
| Transaction journal (`transaction_journal.rs`, `transaction_journal/`) | journal WAL, FORMAT, cache checkpoint, V3 authority; in memory: prepares, commits, projections, unknown outcomes, decision index, counters, idempotency claims | `commit_inner`, `mark_projected`, `checkpoint_completed_frontier`, `begin_idempotent`, `open_inner`, `migrate` | every mutation path of `db.rs` and the relational engine | crash between records, failed sync, eviction, stale checkpoints, migration |
| Write-ahead log (`wal.rs`, `wal/layout.rs`) | numbered segment files, `wal.base`, the handle (active file, base LSN, poisoned, unsynced bytes) | open, append, sync, rotate, archive cut, reset, drop_prefix | journal, collections, catalog, archive, replication | crash or I/O error between directory steps |
| Flusher, maintenance, shutdown (`db.rs`) | `lifecycle_gate`, `maintenance_barrier`, collection locks, wake mutex and condition variable, flush gate, flags | background flush, mutation admission, online restore, shutdown | all threads of the process | lock order, lost wakeups, stale checks, latching |
| Orchestration and transaction recovery (`db.rs`, `db/transaction_recovery.rs`, `db/security_lifecycle.rs`) | catalog file and WAL, collection directories, collections in memory, `durability_degraded` | projection of a decided transaction, catalog checkpoint, completion at startup | journal, WALs, relational engine, audit | failure or crash after the decision, a name created again, a crash in startup |
| Seal, checkpoint, compaction (`db.rs`, `db/generation_builder.rs`, `compaction.rs`, `checkpoint.rs`, `overlay.rs`, `segment.rs`) | streamer, frozen streamer, id index, searchers; segment directories, `segments.json`, overlay, `checkpoint.gdx` | upsert, delete, freeze, build, publish, retire, merge, load | WAL cut, flusher | writes during a build, failure on either side of the manifest, order of loading |
| Snapshot and restore journals (`restore_journal.rs`, `storage_layout.rs`, `snapshot_journal.rs`, `db.rs`) | restore journal, control directory, CURRENT, staged, live and old roots | prepare, move old, install, load, roll back, finish, recover | maintenance gates, startup | crash between two renames, in a rollback, in recovery |
| WAL archive and replication (`wal_archive.rs`, `wal_replication.rs`) | archived segments, cursors | publish, tail, apply | WAL | reset under a reader |
| Relational engine (`relational.rs`, `relational/`) | tables, active SQL transactions, relational WAL, checkpoints | execute, commit, checkpoint, load | journal | commits behind a failed one, records out of order |
| Raft group (`chirondb-server`: `raft.rs`, `raft_grpc.rs`) | term, vote, log on disk; role, commit index, pending proposals | elect, replicate, commit, answer, restart | catalog of every node | restart, late messages, calls without timeout |
| Cluster and placement (`cluster.rs`, `placement.rs`) | static membership | place | catalog | partial failure of a scattered request |
| Audit chain (`audit.rs`, `audit/`) | hash chain, checkpoint | append, flush, verify | journal projections | lost or doubled events |
| Graph overlay (`mutable_graph.rs`, `graph_generation.rs`, ...) | ledgers, epochs, generations | mutate, compact, publish | seal, overlay | epoch changes during builds |
| Admission and resources (`build_progress.rs`, `graph_admission.rs`, `search_pool.rs`) | counters, queues | admit, cancel, drain | shutdown | limits, cancellation |
| Security, identity, tenants, encryption | policies, keys | authorise, rotate | all requests | none that a step model separates from data |
| Indexes, search, protocols, UI, ML worker | derived data | read paths | | not protocols |

What makes each of the modelled parts correct:

* **Journal.**  What a caller was told about its transaction stays true through
  every crash; an idempotency key is consumed once; a checkpoint stands for
  exactly the log it covers; a frontier is handed out only when nothing is
  outstanding; after any crash the journal opens again.
* **WAL.**  After any crash or error the directory can be read; records that
  were promised durable survive and only released ones go; a usable handle
  gives the next record the LSN at which recovery will look for it.
* **Maintenance.**  No flush runs into a root that is being swapped; work left
  to the flusher is done; restores and shutdowns end; a database whose restore
  could not be undone accepts no mutation.
* **Projection.**  Whatever fails after a decision, the next startup comes up
  with exactly the decided transactions, each once and in commit order, in the
  collection, the relational state and the audit chain; a database that reports
  itself ready owes none of them.
* **Segments.**  A read finds the last write of a point and a search meets it
  once, whatever is frozen, sealed, merged or cut from the WAL meanwhile and
  wherever the process died; a build ends and lets go of the collection.
* **Restore.**  The old root is whole until the new one has passed its load;
  the root that is open stays in place; startup knows what to do with every
  interrupted install and serves the generation clients count on.
* **Raft.**  One leader a term, matching logs, complete leaders, committed
  entries that stay.

## 2. Modules

| Module | Role |
|---|---|
| `TransactionJournal` | the journal, with kills and power losses |
| `CommitAuthority` | abstract: decisions are final and answers agree with them |
| `CommitAuthorityProofs`, `JournalMirrorProofs` | TLAPS proofs about the journal: its types, its refinement of `CommitAuthority`, its invariants |
| `WalSegments` | the segmented WAL |
| `WalSegmentsProofs` | TLAPS proofs that the WAL can always be recovered and refines `DurableLog` |
| `DurableLog` | abstract: a log of which promised records survive and released ones may go |
| `StorageMaintenance` | flusher, requests, restore and shutdown with their locks |
| `StorageMaintenanceProofs` | TLAPS proofs about the gates |
| `TransactionProjection` | from the decision to the stores, and the startup that completes it |
| `SegmentSeal` | one collection: writes, seals, compactions, load |
| `SegmentSealProofs` | TLAPS proofs that reads and searches find the last version of every point |
| `RootRestore` | the root swap of a restore and its recovery, in both layouts |
| `RootRestoreProofs` | TLAPS proofs that the old root is kept, that the open root stays, what recovery opens and serves |
| `TransactionProjectionProofs` | TLAPS proofs that startup recovers what was decided, that memory follows the journal and that a ready database owes nothing |
| `RaftGroup` | the Raft group of the catalog |
| `RaftGroupProofs` | TLAPS proofs of the Raft properties for any number of nodes and terms |
| `MC...` | instances for TLC (symmetry sets, orders of peers) |

How they fit together: `CommitAuthority` is what `TransactionProjection` takes
from the journal (a decision is durable and final: there, one appended
element).  `DurableLog` is what `TransactionProjection` and `SegmentSeal` take
from a WAL (records with LSNs, of which a prefix is dropped).
`StorageMaintenance` models the gates around the step `restore_install`, of
which `RootRestore` is the inside.  `SegmentSeal` cuts the WAL of a collection
that `TransactionProjection` leaves uncut.

Definitions whose comment starts with "Mutant" are plausible wrong versions
of the definition below them.  No specification uses them; each is known to
violate the property `PROJECT.json` pairs it with, which shows that the
property can fail.

### TransactionJournal

One mutex serialises the journal, so an operation is a sequence of steps of
the variable `stage` that only a crash can interrupt: `commit_inner_begin`
(admission and the written PREPARE), `sync_prepare`, `write_commit`,
`sync_commit`, each with its failing form; `mark_projected_write` and
`mark_projected_sync`; `checkpoint_completed_frontier`; `begin_idempotent` and
`drop_guard`; `kill`, `power_loss`, `open_inner`, `migrate_publish` and
`migrate_activate`.  The journal's WAL is a sequence of records with a synced
length.  A record is its type, transaction, sequence and key.  The decision
index is the set of evicted decisions.  A checkpoint holds the covered length,
the decisions and the counters; for the V1/V2 cache the hash chain over the
covered prefix is modelled by the prefix itself, compared on opening.  `answer`
is a history variable: what the caller of commit was told.

### WalSegments

Segments are sequences of cells; a record takes two cells that hold the LSN
its envelope names, so that a torn frame, a gap or a record at the wrong place
can be told from a good one without modelling bytes.  The owner's lock
serialises operations.  Each operation is cut into its steps on the directory
(sync, create, write `wal.base`, remove), each step may fail with or without
its effect, and a crash may come between any two.  `promised` and `released`
are history variables of what callers may rely on and have given up;
`inherited` is the end of what a handle found when it was opened, whose tail a
killed process may have left unsynced (the cause of the first known deviation
of the journal).

### StorageMaintenance

Threads are control points (`op[w].pc`, `worker`, `restore`, `shut`).  A
reader-writer lock is a claimed writer and a set of readers: a claim keeps new
readers out, as parking_lot does, and owns the lock when the readers have left.
The condition variable is the flusher's state "waiting".  What a write leaves
to the flusher is one bit per collection.

### TransactionProjection

Each client thread is a control point in the life of a request: `Begin`,
`EnterGate`, `Decide` (one journal append, which is the decision), the WAL
appends, the installation in memory, the catalog checkpoint, the Storage
marker, the audit record and its marker.  Every write ends well, fails without
a trace ("lost") or fails with its effect in place ("kept"); a failed append
poisons the handle of its WAL, a failed projection marks the database degraded
and the request goes on to its answer, as in the code.  Locks are predicates on
the control points (`HoldsGate`, `HoldsCollection`, `HoldsRelational`).
`Crash` may come at any step, of startup too.  Startup is a program over the
journal (`cursor`): recovery of storage projections, markers, load of the
relational state and of the catalog, the audit projections, `Serve`.  A store's
content is the sequence of transactions applied to it, so that loss, doubling
and reordering are all visible.  `broken` is a history variable: the
multi-model transactions whose projection failed, after which the known
deviation below makes order and completeness conditional.  An error of the
journal itself does not mark the database degraded in the SQL and multi-model
paths, hence the condition on `poisoned` in `ReadyIsProjected`.  Capture and
publication of a relational checkpoint are one step: what lies between them
touches nothing that a crash leaves behind.

### SegmentSeal

A row is the LSN of the upsert that wrote it, a segment a function from points
to rows, the id index a function from points to a place (streamer, frozen
streamer, position of a searcher).  The seal worker and the compaction are
program counters; the steps under the write lock of the collection are those
in `Locked`, which only a crash separates.  The branches of
`compact_collection_with_scope_admitted` are `CompactUnchanged` (nothing to
do), `CompactEmpty` (no point left), `CompactCommit` (a staged merge),
`MigrateBuild` (some segment is of the legacy format: one segment of the
current format is built and memory follows its manifest) and `LegacyTake`
(nothing was staged: streamer and searchers are emptied, `LegacyWrite` writes
them as a legacy segment, `LegacyClear` removes every other directory,
`LegacyInstall` puts the new one in memory, `LegacyManifest` writes the
manifest).  Each step that makes a fallible call has a failing form
(`...Fails`, `...Stuck`), which does what the code does at that `?`: clean up,
or return at once.  A legacy rewrite that fails before `LegacyInstall` leaves
the collection without its rows; the program counter `"lost"` marks it, and only
a restart is followed from there.  `should_seal` is
nondeterministic (`Upsert` or `UpsertAndSeal`), the flusher's publication of a
pending overlay is a step of its own, the tombstones of a searcher and the
hidden rows of the overlay are one set, and `Load` is one step, because nothing
runs beside it and a crash in it changes only what it would write again.

### RootRestore

Five directories, each empty, torn or whole with old or new content; CURRENT;
the control directory; the journal's phase.  Every rename, removal and journal
write is a step that succeeds, fails, or fails with its effect.  The process is
one program counter through staging, install, load, clean-up, rollback, and
`recover_interrupted_restore` or `recover_interrupted_generation_restore`.
`kept` is a history variable: the content whose loss a client would notice (the
old one after a failed restore and a write, the new one after success).  The
generation ids of successive restores are all called "destination": the code
takes a new one each time and ignores what an earlier one left, so
`begin_generation` starts with none.

### RaftGroup

Each node is one event loop that calls its peers one after the other and reads
nothing meanwhile.  A request under way is derived from its sender's state
(`Request`), since that state cannot change; a broken connection turns it into
a member of `stale`, to be read at any later time.  Term, vote and log are on
disk before a node answers.

### Assumptions common to the models

* A directory operation and the directory sync that follows it are one step
  (in `RootRestore` and `TransactionProjection` the step may fail with its
  effect); a rename is durable once it is visible to the next process.
* A power loss keeps the synced part of a file and a prefix of the rest.  It
  never invents or reorders bytes.  A kill keeps everything that was written.
  `TransactionProjection`, `SegmentSeal` and `RootRestore` have one kind of
  crash: what they write is synced before the step is over, or written again by
  the journal's recovery.
* The sync of `archive_current` before a reset is part of `reset_sync`.
* Spurious wakeups of the condition variable are left out: the flusher's loop
  tests its flags again, so one only repeats a step.

## 3. Runs

| Run | Result | What it shows |
|---|---|---|
| `journal_power` | holds | two transactions, one key, any number of power losses; refinement of `CommitAuthority` |
| `journal_crashes` | holds | kills and power losses mixed: answers, checkpoints, frontiers |
| `wal_crashes` | holds | all WAL operations with errors, kills and power losses; refinement of `DurableLog` |
| `maintenance_safety` | holds | every interleaving of two writers, flusher, two restores, shutdown |
| `maintenance_progress` | holds | the flusher, restores that drain the requests under way, and shutdown all end, but for the deadlock of section 4 |
| `projection_crashes` | holds | two clients, four decisions of every kind, a failed write, two crashes; startup always ends |
| `projection_lost_commit` | violated | finding 1 |
| `segments_crashes` | holds | three writes to two points, two compactions, a failure of any step, a crash: reads, searches, installed segments, ends of builds |
| `segments_restart` | violated | finding 2 |
| `segments_rewrite_fails` | violated | finding 3 |
| `restore_crashes` | holds | two restores, two crashes, two file system errors, failed loads, both layouts |
| `raft_group` | holds | three nodes, three terms, a broken connection, a restart |

Deadlock is checked in `restore_crashes`, where a process that neither serves
nor recovers would be an error.  Elsewhere it is not: a journal or WAL whose
disk was refused, an exhausted bound and a stopped server are legitimate ends,
and so are Raft nodes that wait for each other (a known deviation).  The waits
that must end are the liveness properties.

**Type invariants.**  Each module states one.  All of
them are proved (section 5); that of the journal is also part of a run.

**Bounds.**  Journal: two transactions are enough for one to be evicted,
checkpointed or left undecided while the other runs; the limits 512 and 8192
are set to 1 so that each eviction and checkpoint happens at the first
opportunity; crashes are unbounded in number.  `journal_crashes` has no keys,
which keeps it within minutes.  `MaxRevision` bounds the revision that refused
commits increase.  WAL: `SegmentBytes` is two records and `MaxLsn` five, which
gives a rotation within an append, a prefix drop in the middle and at the end,
and a second generation after a reset.  `MaxSegment` bounds resets of an empty
WAL.  Maintenance: one collection (locks of different collections do not
interact except through a flush that visits each in turn), two threads with two
requests each (one for the liveness properties), and two restores, so that a
restore follows one that was aborted or latched.  Projection: four decisions allow create, write, drop and
create again, or a failed transaction with two behind it; two crashes put one
into the startup after the other.  Segments: three writes give a point that is
sealed, merged and written again; `MinFanIn` is 2 instead of the code's 4, so
that tiers fill up.  Restore: two restores, so that one meets the leavings of
the other.  Raft: three terms give an old leader that comes back after a newer
one has committed.

**Switches.**  `Crashes`, `IoErrors`, `EmptyReset`, `Aborts`,
`IoFails`, `Protected`, `LoadFails` and `Deviations` take behaviours of the
environment or of callers in or out.  A run that holds excludes at most the
behaviour of a finding or of a known deviation (section 4): `journal_power`
excludes the mix of crash kinds for `Reopenable`; `wal_crashes` excludes errors
in the rotation of a cut ("cut") and resets of an empty WAL;
`maintenance_safety` runs collection mutations only; `maintenance_progress` has
restores that do not give up; `projection_crashes` is an unprotected
installation; `segments_crashes` stops short of three states: a failure or a
crash that leaves the manifest naming removed segments (`Missing`, finding 3),
and a crash with the hidden copy of a point last (`Misordered`, finding 2) or
with the only record of a hidden row in an overlay that a load ignores
(`OverlayIgnored`).

**Exceptions.**  Other deviations are in the state space of a run that holds,
and the property says so.  `RestoreFinishes` and `PendingIsFlushed` hold unless
restore and request have deadlocked (`Deadlocked`).  `BuildsEnd` holds unless an
early return has left a build behind (`used.stuck`).  `ReadsLatest` and
`LiveInOneSegment` hold unless a failed rewrite has emptied the collection
(`"lost"`).  The properties of `TransactionProjection` that finding 1 breaks
look at `broken`, and `InterruptedInstallOpens` at whether a recovery was
interrupted (`OnlyInstallsInterrupted`).

**Fairness.**  `StorageMaintenance`: weak fairness of the flusher, of each
started request, of a started restore and of a started shutdown.  These are
operating-system threads, parking_lot's locks hand over to waiting threads and
do not starve them, the flusher's timed wait expires and I/O returns, with
success or failure.  `TransactionProjection`: weak fairness of startup, one
thread that does nothing else.  `SegmentSeal`: weak fairness of the seal worker
and of a compaction under way, threads of their own that wait for nothing but
the lock of the collection, whose holders are each other.  Nothing makes a
client send a request, an operator start a restore, a compaction or a shutdown,
so these steps are not fair.

## 4. Findings and known deviations

Each finding has a run that shows it.

1. **A decided transaction disappears** (`relational.rs:1488`,
   `db.rs:2381`).  A multi-model transaction appends its relational record and
   then fails in the collections.  Its state is not installed, and the
   relational lock is released before the database is marked degraded.  A SQL
   commit that waits for the lock therefore takes the same sequence
   (`relational.rs:1569`); its record comes second, and the next startup skips
   it as already applied (`relational/replay.rs:92`).
2. **A point cannot be read after a restart** (`segment.rs:536`).  Segments are
   loaded by name; a merged segment sorts after a newer sealed one, and the id
   index takes its hidden copy.
3. **A failed rewrite loses the collection** (`db.rs:7979`, `segment.rs:2082`).
   The branch that rewrites into the legacy format takes the rows out of
   streamer and searchers before the calls that may fail; after an error no read
   or search finds them, although a comment promises a slower search.  The
   writer also removes the other segment directories before the manifest is
   written; an error or a crash after that leaves a collection that is refused
   at the next start ("installed segment directories are missing").

Other deviations met on the way.  Where constants are given, a configuration
with them and the property shows the behaviour.

*Journal, WAL, maintenance.*

* Kill, then power loss (`transaction_journal.rs:411`): opening accepts a tail
  that was never synced, a checkpoint covers it, the power loss takes it away,
  and the journal never opens again.  `Crashes = {"kill", "power"}`, one key,
  `MaxRevision = 4`: `Reopenable`.
* A usable handle after a failed cut (`wal.rs:1361`, `1635`):
  `freeze_archive_cut` and `drop_prefix` do not poison the handle as `append`
  does.  `IoErrors = {"cut"}`: `FrontierFencesMutations`.
* Reset of an empty WAL (`wal.rs:1292`): a crash before `wal.base` moves leaves
  two empty segments, which the scan refuses.  `EmptyReset = TRUE`,
  `IoErrors = {}`: `Recoverable`.
* Restore against upsert (`db.rs:8922` against `4232`): the restore holds the
  maintenance barrier and waits for the readers of the lifecycle gate; the
  request reads the gate, has passed its check and waits for the barrier.
  `docs/HTTP_API.md:1232` says that current operations are drained.  It is the
  state `Deadlocked` of `maintenance_progress`.
* A dropped flush request (`db.rs:473`): the flusher clears `dirty`, sees
  maintenance, skips; a restore that gives up leaves the write unflushed.
  `Aborts = TRUE`, `IoFails = FALSE`, one writer: `PendingIsFlushed`.
* A stale admission check (`db.rs:1741`): SQL that waits at the gate through a
  restore that ends latched executes.  `Kinds = {"sql"}`, `IoFails = TRUE`: `LatchedRefusesMutations`.

*Projection.*

* A background checkpoint of the relational state after a failed multi-model
  transaction makes the relational half of that transaction disappear.
* A collection write that waits behind a failed multi-model transaction is
  replayed before it.
* Drop of a protected collection (`db.rs:2991`): after a crash between the
  catalog checkpoint and the Storage marker startup appends the drop again and
  its replay is refused.  `Protected = TRUE`, `Ops = {"create", "drop"}`, one
  client, `MaxDecisions = 2`, `MaxFaults = 0`, `MaxCrashes = 1`: `ComesBack`.
* Create of a protected collection whose WAL append failed and whose catalog
  was written is refused at restart.

*Segments.*

* A deleted point comes back (`db.rs:11005`, `7592`): the overlay of the next
  generation is published before the manifest; after a crash between them the
  load ignores it, and segments of the current format have no other record of
  what is hidden in them.  `Deviations = {"generation"}`, `MaxMutations = 4`, no
  compaction, no failure, one crash: `ReadsLatest`.
* A build that never ends: once a merge is staged, an error of `wal.len`
  (`db.rs:7178`), `ensure_segments_manifest` (`7185`), `restore_snapshot`
  (`7632`) or `rebuild_payload_fallback` (`7712`, and `11070` for a seal)
  returns before the build flag is cleared and the frozen streamer removed or
  given back, and the branch for a collection emptied meanwhile (`7422`) forgets
  both.  Later compactions (`7064`) and `delete_collection` (`4016`) spin,
  although `db.rs:7074` says that a corrupt manifest must fail without leaving
  them set.  In `segments_crashes`; `BuildsEnd` excepts them by `used.stuck`.
* A collection that a failed rewrite has emptied (finding 3) goes on accepting
  writes: its next seal cuts the WAL behind what is left, and from then on the
  rows are gone for good.  Not modelled beyond `"lost"`.
* A manifest found committed after an error, and then an error of `wal.len`
  (`db.rs:7630`): the compaction returns with the new manifest and the old
  memory.  Not modelled.

*Restore.*

* Generation layout: an error after the rename of the staged generation or
  after a journal write returns an error while the database goes on serving
  and accepting writes to the previous generation; the next startup completes
  the restore and deletes it.
* A `switch_current` that reports an error after its rename leaves CURRENT at a
  generation that the error path removes; a crash between the removal of an
  invalid destination and the journal has the same effect.
* A crash while an invalid destination is being removed leaves a torn root.
* A crash within the rollback of the flat layout is ambiguous at startup.
* Recovery of a flat restore is not restartable (`db.rs:13355`): it removes the
  staging directory before the control directory; a crash between the two leaves
  a `Prepared` journal with the live root alone, which every later startup
  refuses as ambiguous.  `Modes = {"legacy"}`, one restore, two crashes, no
  fault, `LoadFails = FALSE`: `StartupSelects`.

*Raft.*

* A proposal is answered by index (`raft.rs:368`): one that a new leader
  replaced is answered with success.  `MaxTerm = 2`, `MaxLost = 2`,
  `MaxRestarts = 0`: `AckedIsCommitted`.
* A restart takes the last index of the log for the commit index
  (`raft.rs:251`) and applies uncommitted entries.
* Two nodes inside calls to each other wait for ever; no call has a timeout.
* Commits found by a heartbeat are neither applied nor answered until another
  round; failed writes of the hard state are logged and ignored;
  `install_snapshot` is never sent.

## 5. Proofs

All theorems hold for every value of the constants that satisfies the named
assumption of the module (finite sets, markers outside them, limits that are
numbers, at least one collection): any number of transactions, keys and
threads, any mix of crashes, any limit.

* `TypeCorrect` (`CommitAuthorityProofs`): `Spec => []TypeOK`.  `TypeOK` is
  not inductive: `mark_projected` decrements a counter after its sync, which
  stays a number only because the write step of the same operation found it
  positive and nothing ran in between (`MarkCounted`), and the operand of a
  commit must be a transaction while the commit is under way (`StageOwned`).
* `JournalImplementsAuthority` (`CommitAuthorityProofs`): the journal refines
  `CommitAuthority`.  The invariant `AuthorityInv` adds to the types: a live
  journal knows every transaction that has a record in its log, hot or evicted
  (`LogKnown`), so admission refuses to decide one twice; a checkpoint names
  every transaction of the part of the log it covers (`CacheCovers`,
  `AuthorityCovers`), so that `LogKnown` is re-established by a restart, where
  replay adds the rest; commits have prepares (`CommitsPrepared`); the commit
  that holds the mutex is unanswered and its COMMIT record is in the log from
  its write on (`InFlight`); migration replays what it checkpoints
  (`MigrationReplays`); and answers agree with the durable log
  (`AnswersDurable`).  The step lemmas have one case per action.
* `JournalMirrorsLog` (`JournalMirrorProofs`): what the journal holds in memory,
  in its two checkpoints and in its log tell the same story.  `MirrorInv`
  strengthens `AuthorityInv`: replay of the log succeeds (`LogAccepted`); a
  checkpoint is the `Summary` of the prefix it covers, decisions and counters
  (`CacheSums`, `AuthoritySums`); the hot maps, together with the decision
  index, are the summary of the whole log, and the counters are the
  cardinalities they stand for (`MapsMirror`, `CountersSo`), up to the record
  an operation under way has written and not yet entered (`OperationMirror`);
  markers are of known commits (`MarksKnown`); an unknown outcome was answered
  as one (`UnknownAnswered`).  The hard step is `open_inner`: replaying the
  rest of the log over a checkpoint yields what replaying all of it yields
  (`SameReplay`, `RebuiltMirror`).  From it follow `AnswersAlwaysHold`
  (`AnswersHold`), `KeysAreConsumedOnce` (`KeysConsumedOnce`),
  `FrontiersAlwaysSettled` (`FrontiersAreSettled`),
  `CheckpointsAreTransparent` (`CheckpointTransparent`) and
  `ScansFindNoCorruption` (`ScanFindsNoCorruption`).
* `OpensAfterCrashes`: with `OneKind`, `Reopenable`.  `OneKind` says that
  `Crashes` does not hold kills and power losses at once; the first deviation
  of section 4 is the failure with both.  The invariant `LastInv` adds what a
  single kind of crash guarantees: a checkpoint never covers more than the next
  crash leaves (`CacheLasts`, `AuthorityLasts`), because what is at rest is
  synced (`SyncedAtRest`) and a poisoned journal writes no checkpoint
  (`PoisonBlocks`).
* `WalTypesHold`, `CrashesAreRecoverable`, `UsableHandleAgrees`,
  `CleanHandleIsDurable`, `ArchiveCutIsExact`, `FrontierFences`
  (`WalSegmentsProofs`): `TypeOK`, `Recoverable`, `HandleAgrees`,
  `CleanIsDurable`, `CutIsExact` and `FrontierFencesMutations`; and
  `WalImplementsDurableLog`: the WAL refines `DurableLog`.  They hold for every
  segment size and any number of records, errors, kills and power losses, under
  `Calm`: the rotation of a cut does not fail and no empty WAL is reset, the two
  WAL deviations of section 4, each of which refutes one of these properties.
  The invariant is `IInv == \E n : Inv(n)`, where `n` is the last segment.
  `Dir` describes the directory: the retained segments are `first_segment .. n`,
  all but the last are whole, synced and not empty, none beyond the frontier
  holds data, and every cell names the LSN that the lengths before it add up
  to.  `Placement` says where the handle is at each stage, `Operation` what the
  operation under way has noted, `Kept` that what was promised is before the end
  any power loss leaves.  One lemma per kind of change to a directory (synced,
  cut short, extended, a segment created or removed, the frontier or the base
  moved) says that `Dir` stays and where the log now ends; one lemma per action
  combines them and names the step of `DurableLog` it is (`Moves`).  The sums of
  lengths are a recursive function inside `MapThenSumSet`: its recursion
  equation is proved first (`BytesUnfold`), and what follows by induction on the
  number of segments is put as a least counterexample.
* `MaintenanceTypeCorrect`, `FlusherStaysQuiesced`, `RootSwapIsDrained`,
  `MaintenanceClearedBehindGate` (`StorageMaintenanceProofs`): the invariants
  `TypeOK`, `QuiescedFlusher`, `InstallDrained` and
  `MaintenanceEndsBehindGate`, for any number of threads, collections and
  restores.  The inductive invariant `Gate` says where a restore claims and
  owns the lifecycle gate (`GateClaimed`, `GateOwned`), that a request past the
  gate is one of its readers (`InsideReads`), so that none is inside while a
  restore owns it, when maintenance is raised (`Raised`), that a latch stops
  later restores at their first check (`LatchStops`), and that the flush of a
  restore has still to visit whatever is pending (`FlushCovers`).
* `LatchedStaysReadOnly`: with `"sql" \notin Kinds`, `LatchedRefusesMutations`.
  The hypothesis is needed: the stale admission check is its failure with SQL.
  The invariant adds where requests can be once the latch has fallen
  (`LatchInv`).
* `TypeCorrect`, `RollbackKeptAlways` (`RootRestoreProofs`): `TypeOK` and
  `RollbackKept` for any number of restores, crashes and faults.  `Inv` adds
  that each layout takes its own steps (`OwnSteps`) and where the old content
  is at every step that touches a root (`OldKept`): in place, aside under the
  journal's protection, or in the previous generation; only a root that has
  loaded reaches the steps that remove it.
* `LiveRootStaysAlways`, `InstallsAreRecovered`, `KeptIsServed`
  (`RootRestoreProofs`): `LiveRootStays`, `InterruptedInstallOpens` and
  `ServesWhatWasKept`.  The first rests on `Inv`.  The other two add, for each
  journal phase and program counter, which directories are whole and with which
  content (the tables `Serves`, one for the flat layout and one for
  generations), so that recovery finds a case for what an interrupted install
  left and opens the generation `kept` names.  `OnlyInstallsInterrupted`, the
  condition under which the flat layout opens (section 4), is carried by `Calm`
  and `Settled`: as long as only installs were interrupted, a recovery starts
  from a layout an install left.
* `TypeCorrect`, `OneLeader`, `LogsMatch`, `LeadersComplete`,
  `AppliedWasCommitted`, `CommittedStays` (`RaftGroupProofs`): `TypeOK`,
  `ElectionSafety`, `LogMatching`, `LeaderCompleteness`, `AppliedIsCommitted`
  and the action property `NeverRewritten`, for any finite set of nodes, any
  number of terms, entries, broken connections and restarts.  The invariant is
  `IInv == \E ll : Inv(ll)`: some family `ll` of logs, one per term, is the
  log of each term's leader (the last one it had), every log on disk agrees
  with the log of the leader of each of its terms, and a term that was elected
  had a majority behind it.  An entry is chosen (`Chosen`) when a majority
  holds it in a term; a node that has voted in a later term without it blocks
  it (`Kept`, `Blocked`, `Held`).  That a leader is complete is the usual
  argument by the least later term whose leader lacks a chosen entry: the least
  element comes from the well-foundedness of the natural numbers, the common
  member of two majorities from lemmas on cardinalities.
* `ReadyIsProjectedAlways`, `AuditedWhenServed`
  (`TransactionProjectionProofs`): `ReadyIsProjected` and `ServesAudited` for
  any number of clients, decisions, failed writes and crashes.  `Inv` adds to
  the first property: markers and audit records are of decisions of the journal
  (`Recorded`); a client past its decision names one, and no client is at work
  while the database is down or starting (`Jobs`); a client that has reached
  the audit has its storage marker or has degraded the database
  (`JobProgress`), which is what lets it leave without owing anything; and each
  phase of startup has completed every decision before its cursor
  (`StartupProgress`), which re-establishes `Ready` when it begins to serve.
* `RelationalRecovers` (`TransactionProjectionProofs`): `RelationalRecovered`.
  The invariant adds `Locks`: a request works on its own decision under the
  gate and the locks of its kind, each lock has one holder, and the decision of
  a catalog request is the last of the journal until the request ends.  `RelInv`
  is about numbers: a decision carries the sequence of the state it makes, the
  numbers follow the commit order (strictly, unless a projection failed), the
  state and the checkpoint are images that hold at position i a decision of
  number i, the WAL holds what is marked, and the checkpoint has what lies
  before its watermark.  `RelationalReplay` says what the scan of the WAL makes
  of the checkpoint: a state that has reached every number it met, or a refusal.
* `CollectionRecovers` (`TransactionProjectionProofs`): `CollectionRecovered`,
  for protected and unprotected installations.  `ColInv` rests on one
  observation: a catalog decision finds everything before it projected
  (`Settled`), so that only the last one can be unfinished and the directory
  holds transactions of the last incarnation only.  `CatInv` says when the
  catalog file and its WAL agree with the decisions, `DirInv` which of the
  collection's directories exist and what is in its WAL, `ColJobs` what each
  request knows of both at its step, `MemInv` what memory shows.
  `CatalogReplay` is the counterpart of `RelationalReplay`.
* `MemoryFollows` (`TransactionProjectionProofs`): `MemoryFollowsJournal`, from
  the same two invariants; what is not yet published is exactly what some
  request still holds (`PublishedIs`).
* `ProjectionTypeCorrect` (`TransactionProjectionProofs`): `TypeOK`.  Most of it
  is in these invariants; the rest is about numbers (`Known`: a protected replay
  computes a revision from those the decisions carry), places (`Placed`: a base
  is never past the end of its WAL) and bounds (`Bounded`).
* `SegmentTypeCorrect`, `ReadsAreLatest`, `PointsAreLiveOnce`,
  `InstalledSegmentsAreThere` (`SegmentSealProofs`): `TypeOK`, `ReadsLatest`,
  `LiveInOneSegment` and `InstalledIsThere`, for any number of points,
  mutations, seals, compactions, failed calls, crashes and loads, builds left
  behind included, under `Calm`: the deviations "missing", "order" and
  "generation" are not let happen, each of which refutes one of these properties
  (findings 3 and 2, section 4).  `ReadsLatest` and `LiveInOneSegment` except the
  collection that a failed legacy rewrite has emptied, `TypeOK` the index of
  that rewrite, `InstalledIsThere` its steps between the removal and the
  manifest; the proof carries through those states what a restart needs
  (`Emptying`), so the restart from `"lost"` is covered.  `Inv` relates memory,
  where index, streamer and the rows the overlay leaves visible hold the last
  version of every live point once (`Shape`, `Content`); the WAL, which still
  has whatever only memory has (`Retained`); the work under way, with the rows a
  seal, a merge or a rewrite has taken and the points that changed since; and
  the disk, from which a load would build the same (`Linked`, `Loadable`), also
  when a failure has left the manifest ahead of memory (`Behind`); `Dated` says
  that an installed legacy segment is not of a later generation than the
  manifest, so that the name of the next rewrite is new.  The
  hard steps are the load, a fold of the records after the checkpoint over the
  segments in the order of their names, and the two manifest switches.

Every invariant and every action property that a passing run checks is thereby
proved for all values of the constants, in some cases under a named hypothesis
that a finding or a known deviation makes necessary.  Only model-checked: the
liveness properties, because fairness and ENABLED are outside the prover.  So
are the library's induction schemes; where a proof above needs an induction it
is put as a least counterexample in a set of natural numbers.  The folds of the
community modules are choices of a recursive function: that the function exists
is proved by induction on the size of its arguments (`FoldsExist`), and a replay
is then the last of a chain of states (`FoldChain`).

## 6. Plan

1. `WalReplication`: a cursor over a WAL that is reset and trimmed.
2. The wait for an idempotency claim, with timeout and cancellation.
3. The snapshot journal and the archive; graph generations and the cold tier
   in `SegmentSeal`.
4. Build and graph admission; scatter over shards.

## 7. Not modelled

Most of the repository's lines are not protocols between steps: vector, text
and graph indexes and their search (numeric algorithms over data TLC cannot
enumerate), the SQL and ChironQL parsers, planners and executors, segment and
row formats, the HTTP, gRPC, MCP and PostgreSQL front ends (translations of a
request into one call of the core), security policy and encryption (functions
of a request), metrics, benches, the UI server, the ML worker, and the unit
tests inside the source files.  A step model of them would restate them.  What
decides whether a write is committed, where it goes, and what is left of it
after a failure is in `transaction_journal`, `wal`, `db.rs`, `relational.rs`'s
commit path, `restore_journal`, the seal and compaction paths and `raft.rs`,
and is modelled here, with the exceptions `PROJECT.json` notes per component.
