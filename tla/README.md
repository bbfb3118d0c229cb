# A verification of graphql-orm-backup

TLA+ models of the crate `graphql-orm-backup`, TLC runs that check them on small
instances, and TLAPS proofs of the properties that matter most for every
instance. File names without a directory are those of `src/src/`.

## 1. Inventory: the system and what makes it correct

The crate writes backups of an application into a *repository* of blobs and
restores them. It keeps no state in memory between calls: everything durable is
a blob, every step is one call of the `BackupRepository` trait, and every call is
an await at which the process may die or the caller may drop the future.

| component | state | operations | talks to |
|---|---|---|---|
| Writer lock (`lock.rs`) | the blob `locks/repository.lock`; its body is the time at which its writer called acquire | `acquire`, `release` | repository |
| Backup (`backup.rs`, `planner.rs`) | the blobs of a snapshot: payloads, object blobs, the manifest last | `create_full_backup`, `create_incremental_backup`, `compact_chain` | lock, database adapter, object index, repository |
| Collection (`prune.rs`) | which snapshots exist | `prune`, `delete_snapshot` | lock, repository |
| Manifests (`manifest.rs`, `verify.rs`) | none | loading, chain validation, checksums | repository |
| Restore (`restore.rs`) | a target database; an application's object store | `restore_snapshot`, `restore_objects` | repository (without the lock), database adapter, sink |
| Repository (`repository.rs`, `local_repository.rs`) | the blobs | put, conditional put, get, exists, list, delete | a storage provider |
| ORM adapter (`orm.rs`, `database.rs`, `object_index.rs`) | the application's database | schema, export, restore, clear, list and load objects | the ORM |

The five writer operations have the same shape: acquire the lock, call an inner
function, release the lock whatever it returned. Restores take no lock.

What is hard:

* **interleaving**: two writers at the lock, where test and deletion of a stale
  lock are separate calls; several object writes of one backup at a time;
  restores beside writers and beside each other; the application beside a backup;
* **failure between two calls**: nothing is rolled back, so each prefix of each
  operation must leave a repository that later operations understand;
* **cancellation**: a failing object makes `try_collect` drop the futures of the
  others at whatever await they are; a dropped future runs no clean-up statement;
* **stale information**: a parent that is not looked at, payloads that are
  verified and then read again, an emptiness check before a long download,
  hashes that are known only after the bytes are stored.

What makes each component correct:

* *lock*: mutual exclusion; it never takes away a living writer's lock; it does
  not leave the repository locked for ever;
* *backup, collection*: a snapshot appears whole and stays restorable until
  someone asks to remove it, whatever fails; the sweep is complete and safe;
  interrupted removals can be resumed;
* *object writes*: a blob that a manifest names is there, never changes, and has
  the hash it is stored under;
* *chains*: a snapshot's chain is found where there is one and an error reported
  where there is none, whatever the parents look like; compaction folds a chain into
  the rows and objects the source had;
* *planning*: what separate reads of a changing application return fits together;
* *restore*: the target only ever holds a state the source was in, and on success
  the right one; a dry run changes nothing; clearing the target harms nothing else.

`PROJECT.json` lists every component, and every hazard at its line with the
properties that would catch it.

## 2. Modules

```
WriterMutex  <-- implemented by --  RepositoryLock        (MCLock, LockedRepositoryProofs)
     |                                    |
     |                              LockedRepository      (MCLocked, LockedRepositoryProofs)
     |                                    | implements
     +-- used by instance --------  SnapshotRepository    (MCRepository, SnapshotRepositoryProofs)
                                          |
BackupCatalog <-- implemented by ---------+

ManifestChain <-- extended by --  ChainCompaction         (MCCompaction, CompactionProofs)

ObjectWriter                                              (MCObjects, ObjectWriterProofs)
     +-- extended by --  FullBackup                       (MCFullBackup, FullBackupProofs)
     +-- extended by --  ObjectRestore                    (MCPipeline, ObjectRestoreProofs)

RestoreTarget <-- extended by --  RestoreFlow             (MCRestore, RestoreProofs)
```

**RepositoryLock** is `RepositoryLock::acquire` and `release`, one action per
repository call: `FirstPut` (lines 42-49), `ReadExisting` (51-60, the read, the
age and the decision), `BreakLock` (62), `SecondPut` (63-74), `Release`.
`AcquireFails` is any call of acquire that returns an error. `Crash` covers a
process that dies, a future that is dropped, and a release that fails: all three
leave the lock blob behind. `body[w]` is the local `now` of acquire, which is
both what the writer puts and what it measures ages with. `DefaultPutWrites`
is the second half of the trait's default `put_blob_if_absent`, taken when
`AtomicPut` is FALSE. The environment is a set of constants: who has a finite
stale limit (`Breakers`; by the default options of one hour everybody does), when
crashes stop (`CrashUntil`), whether an operation may take longer than the limit
(`MayOverrun`).

**WriterMutex** is what the operations take the lock for: at most one holder.

**SnapshotRepository** is the five writer operations over one repository. A
writer `Acquire`s, then plans (`PlanFull`, `PlanIncremental`, `PlanCompact`) or
decides what to remove (`BeginPrune`, `BeginDelete`); then each `put_blob` and each
`delete_blob` is an action (`PutTable`, `PutObject`, `WriteManifest`, `DeleteFile`,
`DeleteObject`), and so is each listing. `Fail` (an error: back to `Release`) and
`Crash` (the lock is broken later) are possible before every one of them. What an
operation *reads* it reads in one step, which the mutex justifies. A payload
stands for the database state it leads to and the snapshot it changes. Manifests
keep parent, time, schema, tables and objects. `doomed` is a history variable:
the snapshots prune or delete_snapshot has begun to remove, and all others are
*live*. `PlanIncremental` looks at its parent as little as `create_incremental_backup`
does; only with `CheckedParents` is it assumed that requests name a live parent with
the present schema. No caller can make sure of this under the lock the backup takes.
`SnapshotsRestorable` and the catalog need the assumption; `RestorableStays`, that no step
breaks a snapshot that could be restored, is what holds without it.

**BackupCatalog** is the promise to the user: a catalog of restorable snapshots
that enter whole, on top of a parent that is there, never change, and leave only
when they are retired together with all that build on them. The refinement maps
the catalog to the snapshots that *could be restored from the blobs at this
moment*, so that any step that breaks one breaks the refinement.

**LockedRepository** composes the two: `acquire`, the inner function and
`release_lock`, as the wrappers of `backup.rs` and `prune.rs` have it, for any number of
processes on one repository. SnapshotRepository starts from a mutex; here there is
none, only `CallAcquire`, whose last call starts the operation, `Operate`, a blob call
of the operation, `ReleaseLock`, `Die`, and the clock. `ImplementsRepository` maps the
holders of the mutex to the writers past acquire.

**ManifestChain** is `load_manifest_chain`, one `load_manifest` per step with its set
of seen ids (`LoadNext`, `LoadFails`), then `validate_manifest_chain` (`Validate`), over
an arbitrary repository: manifests missing or damaged, of different applications,
backends or schemas, full with a parent and incremental without one, and with parents
that form cycles. Writers of this crate can leave all of these but the kinds that
contradict their parents. `IsChain` says what a chain is without the algorithm.

**ChainCompaction** goes on where the chain is loaded: `compact_chain_inner` with
`load_table_exports`, `load_change_exports`, the replay and `compact_object_entries`. Its
inputs are made by `group_changes_by_table` (`Grouped`) and `changes_to_tombstones`
(`TombstonesOf`) from arbitrary journals. Beside the payloads goes the database they
were taken from, as the reference to compare with; the journal of a database
(`Journals`, `After`) is defined independently of the replay: `After` looks at the last
change of each row, the code applies them one by one, table by table. A create or
update without a row (`Silent`) changes nothing in either.

**ObjectWriter** is `write_object_entries` for one backup after another: the
futures of `buffer_unordered` with their awaits (load, conditional put, clean-up,
second load), a source that may serve other bytes than it declares, the first
error that drops all others, cancellation, and prune in between. In
SnapshotRepository the same code is one step per object; ObjectWriter is the
justification for this, and says where it ends (finding 2).

**FullBackup** puts `plan_full_backup` in front of it: `ExportFull` reads all rows in one
database snapshot, `ListObjects` the rows of the object metadata table in a later one,
and `Application` changes that table at any time. **ObjectRestore** puts
`restore_objects` with `BlobStoreRestoreObjectSink` beside it: it takes no lock, so
that backups, failing backups and prunes change the blobs between any two of its
reads (`Send`) and comparisons (`Compare`). Both leave ObjectWriter as it is and are
proved to implement it, so that its theorems hold of them.

**RestoreFlow** is `restore_snapshot` for several restores on one target and a
repository that changes meanwhile: chain, verification, schema and emptiness
check, then payload after payload, loaded and applied. **RestoreTarget**, which it
extends, is `clear_restore_target`, which a host calls before another attempt: a
TRUNCATE on PostgreSQL; on SQLite a pooled connection, the PRAGMA that switches foreign
keys off, a transaction that deletes table by table, and the PRAGMA that switches
them on again, each of which may fail, and each of which may be the last one of a
dropped future (`DropClear`). A payload is applied by `ApplyAll`, where the last change
of a row decides; that this is what applying them one by one comes to is a theorem
(`ChangesApplyInOrder`).

The loops over sequences are recursive functions, so that they can be proved about.

Definitions marked MUTANT in the modules are wrong versions of the definition
that follows them. No specification uses them; they show what each property
catches (`PROJECT.json`, `mutants`).

## 3. Runs

Run `tlc -config X.cfg M` with the module `M` that `PROJECT.json` gives for X.

| run | shows |
|---|---|
| `locked_repository` | three processes with all five operations, crashes at any call until the clock stops, one process that breaks stale locks: mutual exclusion, ownership, the inductive invariant of the lock, work only under one's own lock, refinement of the mutex and of SnapshotRepository |
| `lock_reclaim` | two breakers, crashes, overruns and the non-atomic put, where exclusion is lost: the lock is still free again and again |
| `repo_all` | all operations, three snapshots: the inductive invariant, live snapshots restorable, complete sweeps, refinement of the catalog |
| `repo_prune` | incremental backups on any parent, objects that are replaced, a new schema, a clock set back, no delete_snapshot: what could be restored stays so until its own removal, and prune never takes the last live snapshot |
| `repo_retry` | a repository that lists keys in order, new full and incremental snapshots between the attempts: prune can always continue, and a retried one finishes what an interrupted one began |
| `compact_chain` | every repository of three ids (one of them requested: the ids are symmetric), and every journal of up to three changes: exactly the valid chains are found, the walk ends, and the synthetic snapshot has the rows and objects of its source |
| `objects_serial` | `object_concurrency` 0, nothing cancelled and no delete failing, wrong bytes from the source, a restore of objects beside it: manifests name good blobs, backups end, and a restore that succeeds has delivered the right bytes |
| `objects_concurrent` | planned backups of a changing application, three futures, wrong bytes, cancellation, failing deletes: named blobs are there and never change, wrong bytes stay only when a backup ends between their put and their deletion, and rows have their objects |
| `restore_alone` | one restore after another, dry or applying, with failures, removals, rewritten payloads and clears that fail or are dropped: the target is a state of the source and on success the right one, a dry run changes nothing, and failing clears do not spoil the connection pool |

What `repo_prune` and `repo_retry` claim of prune does not hold together with delete_snapshot: a prune that
dies may leave the manifest of an old child without its parent's, and when
delete_snapshot then removes the newer snapshots, prune selects that child and cannot
load its chain; and a delete_snapshot that dies leaves a newest manifest without
payloads, which `keep_last = 1` then prefers to a complete snapshot. Both need an
interrupted removal followed by the other operation. Nor does `PruneNeverStuck` hold
for prunes that keep different numbers: with `Keeps = {1, 2}` TLC finds a prune that
keeps one snapshot and dies after it has deleted the manifest of a parent; a prune that
keeps two then selects the child and reports a missing manifest, until a prune that
keeps one has gone through. `PruneLeavesASnapshot` holds there too (section 4). It
speaks of live snapshots: without `CheckedParents` the one that is kept may be an
incremental backup on a parent that was never there. `RestorableStays` does not depend
on any of this; that it holds with delete_snapshot too is its theorem.

### Where code and documents disagree

Three runs end in a counterexample of a sentence of the repository
(`PROJECT.json`, `findings`, with the quotes):

1. `lock_breaker_race`: two breakers read the same stale lock; the second
   deletes the fresh lock of the first, and both hold it. Needs two contenders
   after a crash, which the default stale limit of an hour makes possible.
2. `objects_dropped`: a future dropped between a mismatching put and its
   `delete_blob` leaves wrong bytes under a hash; the next backup of that object
   deduplicates against them without reading them, and reports success.
3. `pool_dropped`: `clear_restore_target` dropped between its two PRAGMA statements
   gives a connection without foreign keys back to the pool. A *failing* statement
   does not (`restore_alone`, `PoolEnforcesForeignKeys`).

Also worth knowing: `restore_objects` compares after the sink has the bytes, although
`docs/restore-semantics.md:64` speaks of "verified object blobs". `SuccessIsComplete` shows
that success is right nevertheless; after a failure the sink may hold wrong bytes,
which is what `Send` does to a bad blob. And compaction carries objects that were
removed along for good, since no tombstone ever names an object (`backup.rs:646`).

Other limits are assumptions of the models, named constants each, and listed as
hazards: the default `put_blob_if_absent` overwrites (`AtomicPut`); an operation
longer than the stale limit releases the lock of its successor (`MayOverrun`);
`create_incremental_backup` does not look for its parent (`CheckedParents`, FALSE in
`repo_prune`); a request may name an id that is in use (`FreshIds`); payloads are applied as read the
second time (`Rewrites`); two restores on one target both find it empty
(`Restorers`).

### Bounds

* Lock: two or three writers, `StaleAfter` 1, a clock up to 4 (`MaxTime`), which
  is enough for a lock to be put, become stale, be broken, and the new one become
  stale again. In `lock_reclaim` crashes stop at 3 (`CrashUntil`) so that the clock
  can still make the last orphan stale. `locked_repository` has one table, one object
  and two ids, so that an operation has several blob calls between which others
  may come in; the two writers that break no locks are symmetric.
* Repository: snapshot ids 1..3 (a full one, a child, and a compaction or a
  grandchild); ids may be used again after removal, so behaviours are not bounded in
  length. Two or three states of the database with different objects; `repo_retry`
  has tables only. One writer: with the mutex a second one adds only the handover,
  and one that crashed may start again at once. The proof is for any number, and
  `locked_repository` has three.
* Chains: three ids, so that there are cycles of each length and a cycle behind a
  first manifest; three identities; two tables with a row each and journals of up to
  three changes (`MaxChanges`), which is a row deleted and created again with a
  change to the other table in between; one object with two contents.
* Objects: three objects of which two have the same content, lists of up to
  three, backups without end, up to three futures. The lists are also the states of
  the application's metadata table. The restore walks the same lists.
* Restore: a chain of three whose second snapshot empties the target, two rows in
  two tables; a pool of two connections and both backends.

### Fairness

* `RepositoryLock!RetrySpec`: time passes (weak fairness of `Tick`), a holder gets to its
  release (every inner function returns), and a breaker calls acquire again and
  again, its calls not failing for ever (strong fairness, as `AcquireFails` and
  `Crash` may intervene finitely often between them). There is no fairness for
  the acquires of other writers: none is promised.
* `SnapshotRepository!RetrySpec`: someone retries prune, and a step of it that is
  possible again and again is taken some time: a repository that fails each call
  would block everything. Fairness of `DeleteFile` is per snapshot and file, because
  the list is finite and walked to its end. Any operation that runs goes on or fails
  (weak fairness), because its future is polled: without this a backup between two
  attempts could hold the lock for ever.
* `ObjectWriter!Fairness`: the executor polls a future that can go on, also while a
  restore runs.
* `ChainCompaction!Spec`: the operation is polled as long as it is not over.

Deadlock is checked in every run.

## 4. Proofs

All proof modules are checked by `tlapm` without exceptions; sets of
writers, snapshots, tables, objects and all limits are arbitrary there.

**LockedRepositoryProofs**, first part, under `SafeDeployment` (atomic put, no overruns, and
either no crash or at most one breaker). The inductive invariant `LockInv` adds to
exclusion and ownership: every active writer entered acquire within the limit
(`WithinLimit`), hence no living writer's lock is stale; a lock without a holder
exists only if someone crashed (`NoOrphans`); and a breaker about to delete will
find the stale lock it has seen (`BreakingStale`). The last is what fails with two
breakers. From it follow `LockIsExclusive`, `LockIsOwned`, `BreaksStaleOnly`,
`ReleasesOwnOnly` and the refinement `LockImplementsMutex`.

**SnapshotRepositoryProofs**, under `FreshIds` and `CheckedParents`. That live
snapshots are restorable is not inductive: it speaks of whole chains.
`RepositoryInv` replaces it by local facts. `LiveAreSound`: a live snapshot is
complete, and its parent is live and has its schema. `NoCycles`: no set of live
snapshots is closed under parents; this replaces induction along the chain, and
`SoundIsRestorable` derives from both that the chain of a live snapshot can be loaded
and verified. `OnlyHolderWorks` is the mutex. `DraftIsSound` says what is already in
the repository of a snapshot that is being written, and `RemovalIsSafe` that what a
removal has still to delete belongs to no live snapshot. Each action then
disturbs one or two of these, and has its lemma.

`RepositoryImplementsCatalog` adds that the catalog *is* the live snapshots
(`CatalogIsLive`), so that WriteManifest publishes, the start of a removal retires,
the deletion of a manifest forgets, and every other blob call is invisible.

Two theorems do without `CheckedParents`. `SweepsAreComplete`, which needs neither
assumption, rests on `RemovalInv`: each file of a snapshot that is being removed is gone or
still to be listed or deleted, so that when the sweep returns neither payload nor manifest
of what it removed is left, nor an object no manifest names. `RestorableUntilRemoved`
is `RestorableStays`, for any parents. While a removal runs, the parent of a manifest that
stays is not among the snapshots that leave (`MarksHold`), so the chain of a live
snapshot that can be restored stays whole (`ChainStays`), and its payloads and objects are
not touched (`ChainUntouched`); a backup writes files of an id no chain has (`DraftIsNew`).
It uses nothing of `RepositoryInv` that rests on parents.

Its last part is what prune keeps, where nothing but prune removes snapshots.
`NewestAreLive(k)` says that the newest `k` snapshots are live, if no prune keeps fewer
than `k`: what one prune dooms is never among the newest that another one selects. It is
inductive because a snapshot that is written only pushes others down, and one whose
manifest is deleted was not among the newest, so that nobody newer than it moves up
(`DeletionKeepsNewest`, a count of the newer ones). From it follow `PruneKeepsOne`, for
any numbers of at least one, and `PrunesGoOn`, where all prunes keep the same number;
with different ones it is false (section 3), and `keep_last = 0` takes everything.

**LockedRepositoryProofs**, second part, under both sets of assumptions, puts the halves
together: with `LockInv` the holders are at most one, so each `CallAcquire` that returns is
the mutex's `Acquire`, and each other step of the lock is invisible to the repository
(`LockedImplementsRepository`). `LockedRestorable` and, without `CheckedParents`,
`LockedRestorableStays` are then corollaries, and so would be every other theorem of
SnapshotRepositoryProofs: the two components are verified separately and hold together,
for any number of processes. The assumptions remain: `SafeDeployment` rules out two
breakers once there are crashes, where by the default options every process is one
(finding 1), and no code makes ids fresh or parents live.

**ObjectWriterProofs**. `ObjectInv` holds for every concurrency, source and
cancellation, with `DoneAreStored` as its core: a future may count on a blob that
another one has just taken away, but then that one makes the backup fail before a
manifest is written. Whether named blobs have their hash depends on one thing.
`Lasting` are the wrong bytes that no future is about to take away, and `Abandons` a step
that ends a backup between a put of wrong bytes and their deletion. `LastingWrongBytes`
says, of any source, concurrency and cancellation, that only such a step adds to
`Lasting`; so named blobs are good as long as there is none (`GoodUnlessAbandoned`).
`NothingAbandoned` names conditions under which there is none: one object at a time, no
cancellation or death, no failing `delete_blob`; `GoodWhenSerial` puts the two together.
`GoodWithStableSource` instead needs a source that serves what it declares. Finding 2 is an
abandoned backup.

**FullBackupProofs** and **ObjectRestoreProofs** prove that both extensions implement
ObjectWriter (`FullImplementsWriter`, `RestoreLeavesWriter`), which carries its theorems
over, and their own claims. `RowsAreCovered` rests on `FullInv`: what was listed
covers what was exported before, but for what has been removed. `SuccessComplete` rests on
`BehindIsGood`: every entry behind the restore is good in the sink, or is the same
object as the one that is being sent once more.

**CompactionProofs** proves `load_manifest_chain` and `compact_chain` right for any
repository, chains and journals of any length. `CompactionInv` has two halves.

* The walk. `WalkInv`: what was loaded is what is stored, each manifest once, and
  *where the requested snapshot has a chain, the walk is on it* (`Agrees`). So a walk
  that fails was on no chain (`CanGoOn`), a chain that was walked passes
  `validate_manifest_chain` (`FoundIsValid`), and manifests that pass it are the chain
  (`ValidIsFound`). That a chain names no snapshot twice (`PathDistinct`) is not part of
  what a chain is but follows, since its root has no parent. Together: `ChainFound`.
* The fold. `PayloadsReplay` says that a journal that is grouped by table and replayed
  group by group leads to the rows of the journal: a place is named in one group only
  (`GroupsHold`), and in it in the order of the journal. `CompactedRowsAreSource` is this,
  snapshot after snapshot. `OverlaidKeeps` is the same for the lists of objects.

**RestoreProofs** is `restore_snapshot` and `clear_restore_target`. `PoolKeepsKeys` rests on
`KeysInv`: the connection of a clear is outside the pool exactly while it may not enforce
foreign keys. `TargetStaysPrefix` and `RestoredTargetIsSnapshot` are proved under
`OneRestorer`, that is for a target of its own, with any number of attempts and clears
one after the other: `PrefixInv` says what the target holds at every place of
the loop. With two restores on one target both are false (the hazard at `restore.rs:225`).
`DryRunIsDry` needs no such assumption.

**NaturalRecursion** has what these proofs share: `LeastNatural`, from the well-founded
order of finite sets by inclusion, `Induction` for a *set* of numbers, and `Iteration`,
that what is computed in N turns exists. A claim about all lengths is proved by putting
the lengths for which it holds into a set. The recursive functions of the
models are thereby shown to satisfy their recursion (`ReplayedIsAfter`, `GroupedHolds`,
`StateAtDef`).

Only model-checked: liveness (`NeverLockedForGood`, `InterruptedPruneResumes`,
`BackupEnds`, `CompactionEnds`), for which the prover has no rules of fairness. Every
invariant and action property of a passing run has its theorem.

## 5. What is not modelled

* Operations after the lock has failed (finding 1, or a deployment that is not
  safe): with the lock lost, nothing of SnapshotRepository is claimed.
* Reuse of a snapshot id, apart from its effect on a running restore and on the
  parents ManifestChain starts from.
* Damage of blobs by the provider, apart from damaged manifests in ManifestChain.
* Foreign keys between the tables of a target, and the other rules by which an
  adapter accepts rows: `restore_full` and `restore_incremental` apply all or fail.
* Unreadable lock bodies and clocks that run backwards at the lock.
* `BlobStoreBackupRepository` and `local_repository.rs`: they prefix keys and forward,
  and keep no state. `error.rs` and `lib.rs`: an enum and re-exports.
* Column policy overrides, schema hashes, row conversion and the restore context of
  `orm.rs` and `database.rs`: functions of one value to another, without state or
  order, which unit tests reach well. Compression, serialization and key layout
  likewise.

What would be worth the next effort: a bound on the steps an operation still has to take,
proved as an action property, as far as liveness can go without rules for fairness; and
the refinement of an abstract restore by RestoreFlow.
