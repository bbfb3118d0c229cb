------------------------- MODULE SnapshotRepository -------------------------
(***************************************************************************)
(* The writer operations of the crate over one repository: full and        *)
(* incremental backup and compaction (src/backup.rs), prune and            *)
(* delete_snapshot (src/prune.rs).  Every blob put or deleted is a step of  *)
(* its own, and any operation may fail or be killed between two of them.   *)
(* What an operation reads under the lock it reads in one step: nobody     *)
(* else writes meanwhile, as RepositoryLock shows.                         *)
(*                                                                         *)
(* A table payload stands for its bytes by what they say: the state of the *)
(* database they lead to, and the snapshot they are a change to.  Its      *)
(* checksum in a manifest is therefore the same pair.                      *)
(***************************************************************************)
EXTENDS Integers, FiniteSets

CONSTANTS
  Writers,        \* callers of the operations
  Ids,            \* snapshot ids, in the order of Uuid
  Tables,         \* database tables
  Hashes,         \* SHA-256 of the application's objects
  Versions,       \* states of the database
  Dates,          \* values of created_at
  Schemas,        \* schema hashes
  Exports,        \* what a backup may be asked for and may find (ExportType)
  Keeps,          \* values of KeepPolicy.keep_last
  Ops,            \* the operations that are used
  ManifestFile,   \* manifest.json among the files of a snapshot
  FreshIds,       \* a request never names the id of an existing snapshot
  CheckedParents, \* incremental backups name a parent that can be restored and
                  \* has the present schema: an assumption on callers, who cannot
                  \* look at it under the lock the backup takes
  ManifestLast    \* list_blobs is in key order: database/... before manifest.json

NoParent == 0

ExportType ==
  [at : Versions, created : Dates, schema : Schemas,
   tables : SUBSET Tables, objects : SUBSET Hashes]

ASSUME RepositoryAssumption ==
  /\ Ids \subseteq Nat \ {NoParent}
  /\ IsFiniteSet(Ids)
  /\ Dates \subseteq Int
  /\ Keeps \subseteq Nat
  /\ Exports \subseteq ExportType /\ Exports # {}
  /\ ManifestFile \notin Tables
  /\ {FreshIds, CheckedParents, ManifestLast} \subseteq BOOLEAN

VARIABLES
  holders,     \* the mutex of WriterMutex
  manifests,   \* snapshots/{id}/manifest.json
  payload,     \* snapshots/{id}/database/{tables,changes}/{table}.jsonl.zst
  objects,     \* objects/sha256/...
  doomed,      \* snapshots prune or delete_snapshot has set out to remove and
               \* whose manifest is still there (a history variable)
  step,        \* where each writer is in its operation
  job          \* what it works on

repository == <<manifests, payload, objects>>
vars == <<holders, manifests, payload, objects, doomed, step, job>>

Steps == {"idle", "locked", "tables", "objects", "commit", "expire", "sweep", "unlock"}
Files == Tables \union {ManifestFile}
Manifest == [parent : Ids \union {NoParent}, export : ExportType]
Content == [since : Ids \union {NoParent}, at : Versions]

Job ==
  [id : Ids \union {NoParent},  \* snapshot written or removed
   draft : Manifest,            \* manifest of the snapshot being written
   files : SUBSET Files,        \* its files still to put, or to delete
   blobs : SUBSET Hashes,       \* object blobs still to put, or to delete
   removed : SUBSET Ids,        \* the snapshots this operation removes
   expired : SUBSET Ids,        \* those of them still to be listed
   reachable : SUBSET Hashes]   \* object blobs that stay

Writing(w) == step[w] \in {"tables", "objects", "commit"}

TypeOK ==
  /\ holders \subseteq Writers
  /\ DOMAIN manifests \subseteq Ids /\ manifests \in [DOMAIN manifests -> Manifest]
  /\ DOMAIN payload \subseteq Ids \X Tables /\ payload \in [DOMAIN payload -> Content]
  /\ objects \subseteq Hashes
  /\ doomed \subseteq DOMAIN manifests
  /\ step \in [Writers -> Steps]
  /\ job \in [Writers -> Job]
  /\ \A w \in Writers : Writing(w) => job[w].id \in Ids

NoJob ==
  [id |-> NoParent, draft |-> [parent |-> NoParent, export |-> CHOOSE e \in Exports : TRUE],
   files |-> {}, blobs |-> {}, removed |-> {}, expired |-> {}, reachable |-> {}]

Put(f, key, value) ==
  [x \in DOMAIN f \union {key} |-> IF x = key THEN value ELSE f[x]]
Remove(f, key) == [x \in DOMAIN f \ {key} |-> f[x]]

-----------------------------------------------------------------------------
(* Reading the repository.                                                 *)

Existing == DOMAIN manifests
Parent(s) == manifests[s].parent
Export(s) == manifests[s].export

\* The bytes of each table file of a snapshot with this manifest.
ContentOf(m) == [since |-> m.parent, at |-> m.export.at]

\* load_manifest_chain walks from s to its parents until there is none.
ParentClosed(C) == \A s \in C \intersect Existing : Parent(s) \in C \union {NoParent}
Chain(s) == {x \in Ids : \A C \in SUBSET Ids : s \in C /\ ParentClosed(C) => x \in C}

\* It fails if a manifest is missing, if the walk comes back to where it was,
\* or if a child does not fit its parent.
Fits(C) ==
  /\ C \subseteq Existing
  /\ \E root \in C : Parent(root) = NoParent
  /\ \A x, y \in C : Export(x).schema = Export(y).schema
Loadable(s) == Fits(Chain(s))

\* verify_manifest_and_objects: every blob named by the manifest is there and
\* has the checksum the manifest gives.
Verified(s) ==
  /\ Export(s).objects \subseteq objects
  /\ \A t \in Export(s).tables :
       <<s, t>> \in DOMAIN payload /\ payload[<<s, t>>] = ContentOf(manifests[s])

Restorable(s) == LET C == Chain(s) IN Fits(C) /\ \A x \in C : Verified(x)

\* Snapshots that nobody has asked to remove.
Live == Existing \ doomed

Newer(x, s) ==
  \/ Export(x).created > Export(s).created
  \/ Export(x).created = Export(s).created /\ x > s

\* MUTANT of Selected: one too few.
SelectedOneLess(keep) ==
  {s \in Existing : Cardinality({x \in Existing : Newer(x, s)}) < keep - 1}

\* manifests.iter().take(keep_last), newest first
Selected(keep) == {s \in Existing : Cardinality({x \in Existing : Newer(x, s)}) < keep}

\* The chains of the selected snapshots.  (To keep Selected itself, without the
\* parents, is the mutant of this definition.)
Retained(keep) == UNION {Chain(s) : s \in Selected(keep)}

ObjectsOf(S) == UNION {Export(s).objects : s \in S}

-----------------------------------------------------------------------------
Init ==
  /\ holders = {}
  /\ manifests = [s \in {} |-> {}]
  /\ payload = [k \in {} |-> {}]
  /\ objects = {}
  /\ doomed = {}
  /\ step = [w \in Writers |-> "idle"]
  /\ job = [w \in Writers |-> NoJob]

Lock == INSTANCE WriterMutex

Goto(w, next) == step' = [step EXCEPT ![w] = next]

\* The inner function returns: its variables go, the lock is still held.
Return(w) == Goto(w, "unlock") /\ job' = [job EXCEPT ![w] = NoJob]

\* RepositoryLock::acquire
Acquire(w) ==
  /\ step[w] = "idle"
  /\ Lock!Acquire(w)
  /\ Goto(w, "locked")
  /\ UNCHANGED <<repository, doomed, job>>

\* The operation has all the contents of snapshot s and starts to write it.
StartWriting(w, s, draft, blobs) ==
  /\ FreshIds => s \notin Existing
  /\ job' = [job EXCEPT ![w] =
       [NoJob EXCEPT !.id = s, !.draft = draft, !.files = draft.export.tables,
                     !.blobs = blobs]]
  /\ Goto(w, "tables")
  /\ UNCHANGED <<holders, repository, doomed>>

\* plan_full_backup
PlanFull(w) ==
  /\ step[w] = "locked" /\ "full" \in Ops
  /\ \E s \in Ids, e \in Exports :
       StartWriting(w, s, [parent |-> NoParent, export |-> e], e.objects)

\* schema_snapshot, export_incremental and list_objects_for_incremental_backup.
\* The code does not look at the parent, which may be anything if CheckedParents
\* is FALSE.
PlanIncremental(w) ==
  /\ step[w] = "locked" /\ "incremental" \in Ops
  /\ \E s \in Ids, parent \in Ids, e \in Exports :
       /\ CheckedParents => parent \in Live /\ parent # s /\ Export(parent).schema = e.schema
       /\ StartWriting(w, s, [parent |-> parent, export |-> e], e.objects)

\* The synthetic full snapshot of a chain: every table of it, in its last state.
Compacted(source, created, O) ==
  [parent |-> NoParent,
   export |-> [at |-> Export(source).at, created |-> created, schema |-> Export(source).schema,
               tables |-> UNION {Export(x).tables : x \in Chain(source)}, objects |-> O]]

\* load_manifest_chain, verification and replay of the source chain.  The
\* entry written for an object is one that some manifest of the chain holds;
\* the blobs themselves are not written again.
PlanCompact(w) ==
  /\ step[w] = "locked" /\ "compact" \in Ops
  /\ \E s \in Ids, source \in Existing, created \in Dates :
       /\ Restorable(source)
       /\ \E O \in SUBSET ObjectsOf(Chain(source)) :
            /\ Export(source).objects \subseteq O
            /\ StartWriting(w, s, Compacted(source, created, O), {})

\* put_blob of one table or change payload
PutTable(w, t) ==
  /\ step[w] = "tables" /\ t \in job[w].files
  /\ payload' = Put(payload, <<job[w].id, t>>, ContentOf(job[w].draft))
  /\ job' = [job EXCEPT ![w].files = @ \ {t}]
  /\ UNCHANGED <<holders, manifests, objects, doomed, step>>

TablesWritten(w) ==
  /\ step[w] = "tables" /\ job[w].files = {}
  /\ Goto(w, "objects")
  /\ UNCHANGED <<holders, repository, doomed, job>>

\* One object of write_object_entries: put if absent, source verified.
PutObject(w, h) ==
  /\ step[w] = "objects" /\ h \in job[w].blobs
  /\ objects' = objects \union {h}
  /\ job' = [job EXCEPT ![w].blobs = @ \ {h}]
  /\ UNCHANGED <<holders, manifests, payload, doomed, step>>

\* MUTANT of ObjectsWritten: nobody waits for the object writes.
ObjectsNotAwaited(w) ==
  /\ step[w] = "objects"
  /\ Goto(w, "commit")
  /\ UNCHANGED <<holders, repository, doomed, job>>

ObjectsWritten(w) ==
  /\ step[w] = "objects" /\ job[w].blobs = {}
  /\ Goto(w, "commit")
  /\ UNCHANGED <<holders, repository, doomed, job>>

\* write_manifest, the last blob of the snapshot
WriteManifest(w) ==
  /\ step[w] = "commit"
  /\ manifests' = Put(manifests, job[w].id, job[w].draft)
  /\ doomed' = doomed \ {job[w].id}
  /\ Return(w)
  /\ UNCHANGED <<holders, payload, objects>>

\* What list_blobs returns for a snapshot.
FilesOf(s) ==
  {t \in Tables : <<s, t>> \in DOMAIN payload}
    \union (IF s \in Existing THEN {ManifestFile} ELSE {})

\* The operation knows which snapshots it removes and which ones stay.
StartRemoval(w, expired, kept) ==
  /\ job' = [job EXCEPT ![w] =
       [NoJob EXCEPT !.removed = expired, !.expired = expired, !.reachable = ObjectsOf(kept)]]
  /\ doomed' = doomed \union expired
  /\ Goto(w, "expire")
  /\ UNCHANGED <<holders, repository>>

\* MUTANT of BeginPrune: the objects of parents are not marked.
BeginPruneMarksSelected(w) ==
  /\ step[w] = "locked" /\ "prune" \in Ops
  /\ \E keep \in Keeps :
       /\ \A s \in Selected(keep) : Loadable(s)
       /\ StartRemoval(w, Existing \ Retained(keep), Selected(keep))

\* prune_inner up to the first deletion: what is kept and what is not.
BeginPrune(w) ==
  /\ step[w] = "locked" /\ "prune" \in Ops
  /\ \E keep \in Keeps :
       /\ \A s \in Selected(keep) : Loadable(s)
       /\ StartRemoval(w, Existing \ Retained(keep), Retained(keep))

\* MUTANTS of BeginDelete: no look at the children; the objects of the
\* snapshot itself are marked.
BeginDeleteParent(w) ==
  /\ step[w] = "locked" /\ "delete" \in Ops
  /\ \E s \in Existing : StartRemoval(w, {s}, Existing \ {s})
BeginDeleteMarksOwn(w) ==
  /\ step[w] = "locked" /\ "delete" \in Ops
  /\ \E s \in Existing :
       /\ \A child \in Existing : Parent(child) # s
       /\ StartRemoval(w, {s}, Existing)

\* delete_snapshot_inner up to the first deletion
BeginDelete(w) ==
  /\ step[w] = "locked" /\ "delete" \in Ops
  /\ \E s \in Existing :
       /\ \A child \in Existing : Parent(child) # s
       /\ StartRemoval(w, {s}, Existing \ {s})

\* list_blobs of the next snapshot to remove, in no particular order
ListSnapshot(w, s) ==
  /\ step[w] = "expire" /\ job[w].files = {} /\ s \in job[w].expired
  /\ job' = [job EXCEPT ![w].id = s, ![w].expired = @ \ {s}, ![w].files = FilesOf(s)]
  /\ UNCHANGED <<holders, repository, doomed, step>>

\* MUTANT of DeleteFile: the manifest goes first.
DeleteManifestFirst(w, f) ==
  /\ step[w] = "expire" /\ f \in job[w].files
  /\ f # ManifestFile => ManifestFile \notin job[w].files
  /\ IF f = ManifestFile
       THEN /\ manifests' = Remove(manifests, job[w].id)
            /\ doomed' = doomed \ {job[w].id}
            /\ UNCHANGED payload
       ELSE /\ payload' = Remove(payload, <<job[w].id, f>>)
            /\ UNCHANGED <<manifests, doomed>>
  /\ job' = [job EXCEPT ![w].files = @ \ {f}]
  /\ UNCHANGED <<holders, objects, step>>

DeleteFile(w, f) ==
  /\ step[w] = "expire" /\ f \in job[w].files
  /\ ManifestLast /\ f = ManifestFile => job[w].files = {f}
  /\ IF f = ManifestFile
       THEN /\ manifests' = Remove(manifests, job[w].id)
            /\ doomed' = doomed \ {job[w].id}
            /\ UNCHANGED payload
       ELSE /\ payload' = Remove(payload, <<job[w].id, f>>)
            /\ UNCHANGED <<manifests, doomed>>
  /\ job' = [job EXCEPT ![w].files = @ \ {f}]
  /\ UNCHANGED <<holders, objects, step>>

\* MUTANT of ListObjects: what is reachable is swept as well.
ListAllObjects(w) ==
  /\ step[w] = "expire" /\ job[w].files = {} /\ job[w].expired = {}
  /\ job' = [job EXCEPT ![w].blobs = objects]
  /\ Goto(w, "sweep")
  /\ UNCHANGED <<holders, repository, doomed>>

\* list_blobs("objects/sha256"), less what is reachable
ListObjects(w) ==
  /\ step[w] = "expire" /\ job[w].files = {} /\ job[w].expired = {}
  /\ job' = [job EXCEPT ![w].blobs = objects \ job[w].reachable]
  /\ Goto(w, "sweep")
  /\ UNCHANGED <<holders, repository, doomed>>

DeleteObject(w, h) ==
  /\ step[w] = "sweep" /\ h \in job[w].blobs
  /\ objects' = objects \ {h}
  /\ job' = [job EXCEPT ![w].blobs = @ \ {h}]
  /\ UNCHANGED <<holders, manifests, payload, doomed, step>>

EndSweep(w) ==
  /\ step[w] = "sweep" /\ job[w].blobs = {}
  /\ Return(w)
  /\ UNCHANGED <<holders, repository, doomed>>

\* Any call of the operation returns an error; so do a refused delete_snapshot
\* and a chain that cannot be loaded.  Nothing is undone, the lock is released.
Fail(w) ==
  /\ step[w] \notin {"idle", "unlock"}
  /\ Return(w)
  /\ UNCHANGED <<holders, repository, doomed>>

\* release_lock
Release(w) ==
  /\ step[w] = "unlock"
  /\ Lock!Leave(w)
  /\ Goto(w, "idle")
  /\ UNCHANGED <<repository, doomed, job>>

\* The process dies or drops the future; its lock is broken later.
Crash(w) ==
  /\ step[w] \notin {"idle", "unlock"}
  /\ Lock!Leave(w)
  /\ Goto(w, "idle")
  /\ job' = [job EXCEPT ![w] = NoJob]
  /\ UNCHANGED <<repository, doomed>>

Write(w) ==
  \/ PlanFull(w) \/ PlanIncremental(w) \/ PlanCompact(w)
  \/ \E t \in Tables : PutTable(w, t)
  \/ TablesWritten(w)
  \/ \E h \in Hashes : PutObject(w, h)
  \/ ObjectsWritten(w)
  \/ WriteManifest(w)

Collect(w) ==
  \/ BeginPrune(w) \/ BeginDelete(w)
  \/ \E s \in Ids : ListSnapshot(w, s)
  \/ \E f \in Files : DeleteFile(w, f)
  \/ ListObjects(w)
  \/ \E h \in Hashes : DeleteObject(w, h)
  \/ EndSweep(w)

Next ==
  \E w \in Writers : Acquire(w) \/ Write(w) \/ Collect(w) \/ Fail(w) \/ Release(w) \/ Crash(w)

Spec == Init /\ [][Next]_vars

-----------------------------------------------------------------------------
\* Once its manifest is written, and whatever other operations do, fail to do
\* or die doing, a snapshot can be restored until someone asks to remove it.
SnapshotsRestorable == \A s \in Live : Restorable(s)

\* Removal is complete: a prune or delete_snapshot that returns Ok has left no
\* payload and no manifest of the snapshots it set out to remove, and no object
\* blob that does not belong to some other snapshot.
Swept(w) ==
  /\ \A s \in job[w].removed : FilesOf(s) = {}
  /\ objects \subseteq ObjectsOf(Existing)

SweepIsComplete == [][\A w \in Writers : EndSweep(w) => Swept(w)]_vars

\* A snapshot that can be restored stays so until someone asks to remove it,
\* also beside incremental backups whose parent is missing, half removed or has
\* another schema: create_incremental_backup looks at no parent, and prune and
\* delete_snapshot then work among the broken chains that it leaves.
RestorableStays == [][\A s \in Live : Restorable(s) => Restorable(s)']_vars

\* prune never leaves a repository that had a live snapshot without one, not even
\* when an earlier prune was interrupted half way.  Where SnapshotsRestorable holds
\* too, what is left can be restored; where parents are not checked, keep_last may
\* count an incremental backup whose chain is broken.
PruneLeavesASnapshot == [][Live # {} => Live' # {}]_vars

\* Whatever was interrupted before, prune can load the chains of the snapshots
\* it has to keep, so it never fails for good on what it finds.
PruneNeverStuck == \A keep \in Keeps : \A s \in Selected(keep) : Loadable(s)

\* The repository implements the catalog: the abstract catalog is what could
\* be restored from the blobs at this moment.
Catalog ==
  [s \in {x \in Live : Restorable(x)} |-> [parent |-> Parent(s), at |-> Export(s).at]]

Promise == INSTANCE BackupCatalog WITH catalog <- Catalog, retired <- doomed
ImplementsCatalog == Promise!Spec

-----------------------------------------------------------------------------
(* Why snapshots stay restorable: an inductive invariant for a repository   *)
(* under an exclusive lock, fresh ids and checked parents.                  *)

\* Every live snapshot is complete, and fits the live one it builds on.
LiveAreSound ==
  \A s \in Live :
    /\ Verified(s)
    /\ Parent(s) # NoParent =>
         Parent(s) \in Live /\ Export(Parent(s)).schema = Export(s).schema

\* The parents of live snapshots lead to a full one: no set of them is closed.
NoCycles == \A S \in SUBSET Live : S # {} => \E s \in S : Parent(s) \notin S

\* Only the holder of the lock is at work.
OnlyHolderWorks ==
  /\ \A w \in Writers : step[w] # "idle" => w \in holders
  /\ \A v, w \in holders : v = w

\* What is in the repository of a snapshot whose manifest is still to come.
\* Note that compact_chain puts no objects: it has just verified them.
TablesSound(w) ==
  \A t \in job[w].draft.export.tables :
    t \in job[w].files \/
      (/\ <<job[w].id, t>> \in DOMAIN payload
       /\ payload[<<job[w].id, t>>] = ContentOf(job[w].draft))

ObjectsSound(w) == job[w].draft.export.objects \subseteq objects \union job[w].blobs

ParentSound(w) ==
  LET m == job[w].draft
  IN m.parent # NoParent => m.parent \in Live /\ Export(m.parent).schema = m.export.schema

DraftIsSound ==
  \A w \in Writers :
    /\ Writing(w) =>
         job[w].id \in Ids \ Existing /\ TablesSound(w) /\ ObjectsSound(w) /\ ParentSound(w)
    /\ step[w] \in {"objects", "commit"} => job[w].files = {}
    /\ step[w] = "commit" => job[w].blobs = {}

\* A removal touches no file and no object of a live snapshot.
RemovalIsSafe ==
  \A w \in Writers :
    /\ step[w] = "expire" =>
         /\ job[w].expired \intersect Live = {}
         /\ job[w].files # {} => job[w].id \notin Live
    /\ step[w] \in {"expire", "sweep"} => ObjectsOf(Live) \subseteq job[w].reachable
    /\ step[w] = "sweep" => job[w].blobs \intersect job[w].reachable = {}

RepositoryInv ==
  /\ TypeOK /\ OnlyHolderWorks
  /\ LiveAreSound /\ NoCycles
  /\ DraftIsSound /\ RemovalIsSafe

-----------------------------------------------------------------------------
(* Progress of a prune that is retried until it has gone through.           *)

Fairness ==
  \A w \in Writers :
    /\ WF_vars(Acquire(w)) /\ WF_vars(Release(w))
    /\ WF_vars(Write(w) \/ Collect(w) \/ Fail(w))
    /\ SF_vars(BeginPrune(w))
    /\ \A s \in Ids :
         /\ SF_vars(ListSnapshot(w, s))
         /\ \A f \in Files : SF_vars(job[w].id = s /\ DeleteFile(w, f))

RetrySpec == Spec /\ Fairness

\* prune is idempotent: whatever killed it half way, retrying it removes every
\* file of the snapshots it had set out to remove.
InterruptedPruneResumes ==
  \A s \in Ids : s \in doomed ~> FilesOf(s) = {}
=============================================================================
