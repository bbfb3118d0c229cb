--------------------------- MODULE RepositoryLock ---------------------------
(***************************************************************************)
(* The advisory writer lock of src/lock.rs: a blob at one key, written with *)
(* put_blob_if_absent, whose body is the time at which its writer called    *)
(* acquire.  Every repository call of acquire and release is an action, so  *)
(* any number of writers interleave between the calls.                      *)
(*                                                                         *)
(* The environment is a parameter: until when a writer may stop anywhere    *)
(* with its lock left behind (CrashUntil), whether one may still be running  *)
(* when its lock is older than the stale limit (MayOverrun), which writers  *)
(* have a finite stale limit at all (Breakers), and whether the repository  *)
(* overrides the check-then-write default of put_blob_if_absent             *)
(* (AtomicPut).                                                             *)
(***************************************************************************)
EXTENDS Integers

CONSTANTS
  Writers,      \* processes that call the writer operations
  Breakers,     \* writers whose stale_after_seconds is not the i64 maximum
  StaleAfter,   \* stale_after_seconds of the breakers
  MaxTime,      \* bound: the clock stops here
  AtomicPut,    \* put_blob_if_absent is one atomic conditional write
  CrashUntil,   \* bound: from this time on no writer stops between two calls
                \* or fails to release (0: none ever does)
  MayOverrun    \* a writer may run for longer than StaleAfter

ASSUME LockAssumption ==
  /\ Breakers \subseteq Writers
  /\ StaleAfter \in Nat
  /\ MaxTime \in Nat
  /\ AtomicPut \in BOOLEAN
  /\ CrashUntil \in Nat
  /\ MayOverrun \in BOOLEAN

VARIABLES
  now,          \* the clock unix_seconds reads
  lock,         \* body of the blob at REPOSITORY_LOCK_KEY, or NoLock
  pc,           \* next repository call of each writer
  body          \* the time each writer read when it called acquire

vars == <<now, lock, pc, body>>

NoLock == -1

\* "put" and "reput" are the two put_blob_if_absent calls of acquire, "write"
\* the put_blob inside the default of that method, "holding" everything from
\* acquire's Ok to the delete_blob of release.
Acquiring == {"put", "write", "get", "delete", "reput"}
Calls == Acquiring \union {"idle", "holding"}

\* Every time a writer has read, and so every lock, lies in the past.
TypeOK ==
  /\ now \in Nat
  /\ lock \in 0..now \union {NoLock}
  /\ pc \in [Writers -> Calls]
  /\ body \in [Writers -> 0..now]

Goto(w, call) == pc' = [pc EXCEPT ![w] = call]

Holders == {w \in Writers : pc[w] = "holding"}

-----------------------------------------------------------------------------
Init ==
  /\ now = 0
  /\ lock = NoLock
  /\ pc = [w \in Writers |-> "idle"]
  /\ body = [w \in Writers |-> 0]

\* MUTANT of BeginAcquire: the lock says when it expires.
BeginAcquireWithExpiry(w) ==
  /\ pc[w] = "idle"
  /\ body' = [body EXCEPT ![w] = now + StaleAfter]
  /\ Goto(w, "put")
  /\ UNCHANGED <<now, lock>>

\* let now = unix_seconds(); let body = now.to_string()
BeginAcquire(w) ==
  /\ pc[w] = "idle"
  /\ body' = [body EXCEPT ![w] = now]
  /\ Goto(w, "put")
  /\ UNCHANGED <<now, lock>>

\* put_blob_if_absent: false when the key exists, else the blob is written,
\* by the conditional write of a provider or by a second call.
PutIfAbsent(w, onExists) ==
  \/ /\ lock # NoLock
     /\ Goto(w, onExists)
     /\ UNCHANGED lock
  \/ /\ lock = NoLock /\ AtomicPut
     /\ lock' = body[w]
     /\ Goto(w, "holding")
  \/ /\ lock = NoLock /\ ~AtomicPut
     /\ Goto(w, "write")
     /\ UNCHANGED lock

\* MUTANT of FirstPut: the result of put_blob_if_absent is ignored.
FirstPutIgnored(w) ==
  /\ pc[w] = "put"
  /\ PutIfAbsent(w, "holding")
  /\ UNCHANGED <<now, body>>

FirstPut(w) ==
  /\ pc[w] = "put"
  /\ PutIfAbsent(w, "get")
  /\ UNCHANGED <<now, body>>

\* MUTANT of SecondPut: put_blob once the stale lock is gone.
SecondPutUnconditional(w) ==
  /\ pc[w] = "reput"
  /\ lock' = body[w]
  /\ Goto(w, "holding")
  /\ UNCHANGED <<now, body>>

SecondPut(w) ==
  /\ pc[w] = "reput"
  /\ PutIfAbsent(w, "idle")
  /\ UNCHANGED <<now, body>>

DefaultPutWrites(w) ==
  /\ pc[w] = "write"
  /\ lock' = body[w]
  /\ Goto(w, "holding")
  /\ UNCHANGED <<now, body>>

\* MUTANTS of Stale: >= for >, and the operands of the subtraction swapped.
StaleAtLimit(w) == w \in Breakers /\ body[w] - lock >= StaleAfter
StaleSwapped(w) == w \in Breakers /\ lock - body[w] > StaleAfter

\* now.saturating_sub(locked_at) > stale_after_seconds, with acquire's own now
Stale(w) == w \in Breakers /\ body[w] - lock > StaleAfter

\* MUTANT of ReadExisting: any lock is taken for a stale one.
ReadExistingBreaksAny(w) ==
  /\ pc[w] = "get"
  /\ Goto(w, IF lock # NoLock /\ w \in Breakers THEN "delete" ELSE "idle")
  /\ UNCHANGED <<now, lock, body>>

\* A lock that vanished since the put is MissingBlob, a fresh one is
\* RepositoryLocked: both end the acquire.
ReadExisting(w) ==
  /\ pc[w] = "get"
  /\ Goto(w, IF lock # NoLock /\ Stale(w) THEN "delete" ELSE "idle")
  /\ UNCHANGED <<now, lock, body>>

\* delete_blob removes whatever lock is there when the call arrives.
BreakLock(w) ==
  /\ pc[w] = "delete"
  /\ lock' = NoLock
  /\ Goto(w, "reput")
  /\ UNCHANGED <<now, body>>

\* delete_blob again, without looking at whose lock it is.
Release(w) ==
  /\ pc[w] = "holding"
  /\ lock' = NoLock
  /\ Goto(w, "idle")
  /\ UNCHANGED <<now, body>>

\* MUTANT of AcquireFails: a guard removes the lock when acquire fails.
AcquireFailsReleases(w) ==
  /\ pc[w] \in Acquiring
  /\ lock' = NoLock
  /\ Goto(w, "idle")
  /\ UNCHANGED <<now, body>>

\* A repository call of acquire returns an error: `?` ends the acquire.
AcquireFails(w) ==
  /\ pc[w] \in Acquiring
  /\ Goto(w, "idle")
  /\ UNCHANGED <<now, lock, body>>

\* The process dies, its future is dropped, or its release fails: nothing
\* else removes the lock it had put.
Crash(w) ==
  /\ now < CrashUntil
  /\ pc[w] # "idle"
  /\ Goto(w, "idle")
  /\ UNCHANGED <<now, lock, body>>

\* Unless writers may overrun, each finishes within StaleAfter of the time it
\* put into its lock.
Timely == \A w \in Writers : pc[w] # "idle" => now < body[w] + StaleAfter

Tick ==
  /\ now < MaxTime
  /\ MayOverrun \/ Timely
  /\ now' = now + 1
  /\ UNCHANGED <<lock, pc, body>>

WriterStep(w) ==
  \/ BeginAcquire(w) \/ FirstPut(w) \/ SecondPut(w) \/ DefaultPutWrites(w)
  \/ ReadExisting(w) \/ BreakLock(w) \/ Release(w)

Next ==
  \/ \E w \in Writers : WriterStep(w) \/ AcquireFails(w) \/ Crash(w)
  \/ Tick

Spec == Init /\ [][Next]_vars

-----------------------------------------------------------------------------
\* At most one writer is past acquire: what every writer operation relies on.
MutualExclusion == \A v, w \in Holders : v = w

\* The lock blob in the repository is the one its holder put, for as long as
\* that writer has not released it: nobody removed or replaced it meanwhile.
HolderOwnsLock == \A w \in Holders : lock = body[w]

\* "Returns RepositoryLocked if a non-stale lock exists": when the stale
\* branch of acquire deletes a lock, that lock is a stale one.
OnlyStaleLocksBroken ==
  [][\A w \in Writers : BreakLock(w) /\ lock # NoLock => Stale(w)]_vars

\* "removed when the writer completes": the lock that release deletes is the
\* one its writer put, never that of another writer.
ReleasesOwnLock ==
  [][\A w \in Writers : Release(w) => lock \in {body[w], NoLock}]_vars

\* The lock implements the mutex that the writer operations rely on.
Mutex == INSTANCE WriterMutex WITH holders <- Holders
ImplementsMutex == Mutex!Spec

-----------------------------------------------------------------------------
(* Why the lock works where it does.  Two writers are kept apart by the     *)
(* conditional put; a breaker is harmless as long as the lock it decided to *)
(* delete is still there, still stale and without a living owner.           *)

\* A repository and a deployment in which the lock is safe.
SafeDeployment ==
  /\ AtomicPut
  /\ ~MayOverrun
  /\ CrashUntil = 0 \/ \A v, w \in Breakers : v = w

\* No writer has been running for longer than the stale limit.
WithinLimit == \A w \in Writers : pc[w] # "idle" => now <= body[w] + StaleAfter

\* A lock is an orphan only if some writer crashed.
NoOrphans == CrashUntil = 0 /\ lock # NoLock => Holders # {}

\* A breaker about to delete will delete the stale lock it has seen.
BreakingStale ==
  \A w \in Writers : pc[w] = "delete" => lock # NoLock /\ Stale(w)

LockInv ==
  /\ TypeOK
  /\ WithinLimit
  /\ \A w \in Writers : pc[w] # "write"
  /\ MutualExclusion
  /\ HolderOwnsLock
  /\ NoOrphans
  /\ BreakingStale

-----------------------------------------------------------------------------
(* Progress, for a breaker that keeps calling acquire.                      *)

\* Time passes, an operation that holds the lock gets to its release, and a
\* breaker retries against a repository that does not fail each of its calls.
Fairness ==
  /\ WF_vars(Tick)
  /\ \A w \in Writers : WF_vars(Release(w))
  /\ \A b \in Breakers :
       /\ WF_vars(BeginAcquire(b))
       /\ SF_vars(FirstPut(b)) /\ SF_vars(SecondPut(b)) /\ SF_vars(DefaultPutWrites(b))
       /\ SF_vars(ReadExisting(b)) /\ SF_vars(BreakLock(b))

\* CrashUntil + StaleAfter <= MaxTime here: the clock does not stop before a lock
\* that was left behind can be stale.
RetrySpec == Spec /\ Fairness

\* Whoever crashed, whenever: the repository does not stay locked.
NeverLockedForGood == []<>(lock = NoLock)
=============================================================================
