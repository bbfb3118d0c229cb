-------------------------- MODULE LockedRepository --------------------------
(***************************************************************************)
(* The writer operations under the lock they really take: the calls of      *)
(* RepositoryLock, crashes and the clock included, interleaved with the     *)
(* blob calls of SnapshotRepository.  Nothing but the outcome of acquire    *)
(* decides who works on the repository, as in backup.rs and prune.rs:       *)
(* acquire, the inner function, release_lock.                               *)
(***************************************************************************)
EXTENDS RepositoryLock

CONSTANTS
  \* those of SnapshotRepository
  Ids, Tables, Hashes, Versions, Dates, Schemas, Exports, Keeps, Ops, ManifestFile,
  FreshIds, CheckedParents, ManifestLast

VARIABLES
  manifests, payload, objects, doomed, step, job

repositoryVars == <<manifests, payload, objects, doomed, step, job>>
lockedVars == <<vars, repositoryVars>>

\* SnapshotRepository, with what is proved about it: the writers past acquire
\* are those it works for.
Repository == INSTANCE SnapshotRepositoryProofs WITH holders <- Holders

ASSUME OperationsAssumption == Repository!RepositoryAssumption

LockedInit == Init /\ Repository!Init

Moves(w, next) == step' = [step EXCEPT ![w] = next]

\* MUTANT of CallAcquire: the operation starts before acquire has returned.
CallAcquireUnawaited(w) ==
  /\ WriterStep(w) \/ AcquireFails(w)
  /\ pc[w] # "holding"
  /\ IF step[w] = "idle" /\ pc'[w] \in {"get", "holding"}
       THEN Moves(w, "locked") ELSE UNCHANGED step
  /\ UNCHANGED <<manifests, payload, objects, doomed, job>>

\* A call of acquire; where the last one returns Ok the operation begins.
CallAcquire(w) ==
  /\ WriterStep(w) \/ AcquireFails(w)
  /\ pc[w] # "holding"
  /\ IF pc'[w] = "holding" THEN Moves(w, "locked") ELSE UNCHANGED step
  /\ UNCHANGED <<manifests, payload, objects, doomed, job>>

\* A blob call of the operation, or its failure
Operate(w) ==
  /\ UNCHANGED vars
  /\ Repository!Write(w) \/ Repository!Collect(w) \/ Repository!Fail(w)

\* release_lock once the operation has returned, Ok or not
ReleaseLock(w) ==
  /\ step[w] = "unlock"
  /\ Release(w)
  /\ Moves(w, "idle")
  /\ UNCHANGED <<manifests, payload, objects, doomed, job>>

\* The process dies, the future is dropped or the release fails; what was done
\* stays.
Die(w) ==
  /\ Crash(w)
  /\ Moves(w, "idle")
  /\ job' = [job EXCEPT ![w] = Repository!NoJob]
  /\ UNCHANGED <<manifests, payload, objects, doomed>>

LockedNext ==
  \/ \E w \in Writers : CallAcquire(w) \/ Operate(w) \/ ReleaseLock(w) \/ Die(w)
  \/ Tick /\ UNCHANGED repositoryVars

LockedSpec == LockedInit /\ [][LockedNext]_lockedVars

-----------------------------------------------------------------------------
\* Every writer operation does with this lock what it does with a mutex that is
\* taken and given up in one step: what SnapshotRepository promises it keeps
\* among any number of processes, crashes and stale locks.
ImplementsRepository == Repository!Spec

\* No two writers, whatever the lock went through, leave a snapshot that cannot
\* be restored.
SnapshotsRestorable == Repository!SnapshotsRestorable

\* An operation works only while the lock in the repository is the one its
\* writer has put there.
WorksUnderOwnLock ==
  \A w \in Writers : step[w] # "idle" => pc[w] = "holding" /\ lock = body[w]
=============================================================================
