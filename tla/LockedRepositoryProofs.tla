----------------------- MODULE LockedRepositoryProofs -----------------------
(***************************************************************************)
(* The lock of RepositoryLock is a mutex in a safe deployment, for any      *)
(* number of writers, any stale limit and any clock bound.  Under it, the   *)
(* writer operations behave as they do under a mutex, whatever repository   *)
(* they work on; so what is proved of SnapshotRepository holds of them.     *)
(***************************************************************************)
EXTENDS LockedRepository, TLAPS

-----------------------------------------------------------------------------
(* The lock.                                                               *)

\* The clock values and the lock body are of the right type whatever the
\* deployment: no time is ever read from the future (unix_seconds, lock.rs).
THEOREM TypeCorrect == Spec => []TypeOK
<1>1. Init => TypeOK
  BY LockAssumption DEF Init, TypeOK, NoLock, Calls, Acquiring
<1>2. TypeOK /\ [Next]_vars => TypeOK'
  <2> SUFFICES ASSUME TypeOK, [Next]_vars PROVE TypeOK'
    OBVIOUS
  <2> USE DEF TypeOK, NoLock, Calls, Acquiring, Goto
  <2>1. ASSUME NEW w \in Writers, WriterStep(w) PROVE TypeOK'
    <3>1. CASE BeginAcquire(w)
      BY <3>1 DEF BeginAcquire
    <3>2. CASE FirstPut(w)
      BY <3>2 DEF FirstPut, PutIfAbsent
    <3>3. CASE SecondPut(w)
      BY <3>3 DEF SecondPut, PutIfAbsent
    <3>4. CASE DefaultPutWrites(w)
      BY <3>4 DEF DefaultPutWrites
    <3>5. CASE ReadExisting(w)
      BY <3>5 DEF ReadExisting
    <3>6. CASE BreakLock(w)
      BY <3>6 DEF BreakLock
    <3>7. CASE Release(w)
      BY <3>7 DEF Release
    <3> QED BY <2>1, <3>1, <3>2, <3>3, <3>4, <3>5, <3>6, <3>7 DEF WriterStep
  <2>2. ASSUME NEW w \in Writers, AcquireFails(w) PROVE TypeOK'
    BY <2>2 DEF AcquireFails
  <2>3. ASSUME NEW w \in Writers, Crash(w) PROVE TypeOK'
    BY <2>3 DEF Crash
  <2>4. CASE Tick
    BY <2>4 DEF Tick
  <2>5. CASE UNCHANGED vars
    BY <2>5 DEF vars
  <2> QED BY <2>1, <2>2, <2>3, <2>4, <2>5 DEF Next
<1> QED BY <1>1, <1>2, PTL DEF Spec

-----------------------------------------------------------------------------
\* While a writer holds a lock that is its own, no breaker is about to delete
\* one: the lock the breaker saw is older than the holder may be.
LEMMA NoBreakerWhileHeld ==
  ASSUME LockInv, NEW h \in Holders, NEW w \in Writers
  PROVE  pc[w] # "delete"
BY LockAssumption
   DEF LockInv, TypeOK, HolderOwnsLock, WithinLimit, BreakingStale, Stale, Holders, NoLock

\* Two writers cannot both be about to delete a lock in a safe deployment.
LEMMA OneBreakerAtATime ==
  ASSUME SafeDeployment, LockInv,
         NEW v \in Writers, NEW w \in Writers, pc[v] = "delete", pc[w] = "delete"
  PROVE  v = w
<1>1. CASE CrashUntil = 0
  BY <1>1, NoBreakerWhileHeld DEF LockInv, NoOrphans, BreakingStale
<1>2. CASE \A b, c \in Breakers : b = c
  BY <1>2 DEF LockInv, BreakingStale, Stale
<1> QED BY <1>1, <1>2 DEF SafeDeployment

LEMMA LockInvInitially == Init => LockInv
BY LockAssumption
   DEF Init, LockInv, TypeOK, WithinLimit, MutualExclusion, HolderOwnsLock, NoOrphans,
       BreakingStale, Holders, NoLock, Calls, Acquiring

\* The conditional put: whoever gets Ok found no lock, so nobody held it.
LEMMA PutKeepsInv ==
  ASSUME SafeDeployment, LockInv, NEW w \in Writers, NEW next \in {"get", "idle"},
         pc[w] \in {"put", "reput"}, PutIfAbsent(w, next), UNCHANGED <<now, body>>
  PROVE  LockInv'
<1> USE LockAssumption DEF LockInv, TypeOK, Goto, NoLock, Calls, Acquiring
<1>1. CASE lock # NoLock /\ Goto(w, next) /\ UNCHANGED lock
  <2>1. Holders' = Holders
    BY <1>1 DEF Holders
  <2> QED
    BY <1>1, <2>1 DEF WithinLimit, MutualExclusion, HolderOwnsLock, NoOrphans,
                      BreakingStale, Stale, Holders
<1>2. CASE lock = NoLock /\ lock' = body[w] /\ Goto(w, "holding")
  <2>1. Holders = {}
    BY <1>2 DEF HolderOwnsLock, Holders
  <2>2. Holders' = {w}
    BY <1>2, <2>1 DEF Holders
  <2>3. \A u \in Writers : pc[u] # "delete"
    BY <1>2 DEF BreakingStale
  <2>4. TypeOK' /\ WithinLimit'
    BY <1>2 DEF WithinLimit
  <2>5. BreakingStale' /\ (\A u \in Writers : pc'[u] # "write")
    BY <1>2, <2>3 DEF BreakingStale
  <2>6. MutualExclusion' /\ HolderOwnsLock' /\ NoOrphans'
    BY <1>2, <2>2 DEF MutualExclusion, HolderOwnsLock, NoOrphans
  <2> QED BY <2>4, <2>5, <2>6
<1> QED BY <1>1, <1>2 DEF PutIfAbsent, SafeDeployment

\* A step that moves one writer among the calls of acquire, or to idle without
\* having held, and touches nothing else.
LEMMA MoveKeepsInv ==
  ASSUME LockInv, NEW w \in Writers, NEW call \in {"idle", "get"},
         pc[w] # "holding" \/ CrashUntil > 0,
         Goto(w, call), UNCHANGED <<now, lock, body>>, pc[w] # "idle"
  PROVE  LockInv'
<1> USE LockAssumption DEF LockInv, TypeOK, Goto, NoLock, Calls, Acquiring
<1>1. Holders' = Holders \ {w}
  BY DEF Holders
<1>2. TypeOK' /\ WithinLimit' /\ (\A u \in Writers : pc'[u] # "write")
  BY DEF WithinLimit
<1>3. MutualExclusion' /\ HolderOwnsLock'
  BY <1>1 DEF MutualExclusion, HolderOwnsLock, Holders
<1>4. NoOrphans'
  <2>1. CASE CrashUntil > 0
    BY <2>1 DEF NoOrphans
  <2>2. CASE pc[w] # "holding"
    BY <2>2, <1>1 DEF NoOrphans, Holders
  <2> QED BY <2>1, <2>2
<1>5. BreakingStale'
  BY DEF BreakingStale, Stale
<1> QED BY <1>2, <1>3, <1>4, <1>5

\* The lock disappears, by the release of its holder or because a breaker
\* deletes it: afterwards there is no holder and no breaker at work.
LEMMA DeleteKeepsInv ==
  ASSUME SafeDeployment, LockInv, NEW w \in Writers, NEW call \in {"idle", "reput"},
         pc[w] \in {"holding", "delete"},
         Goto(w, call), lock' = NoLock, UNCHANGED <<now, body>>
  PROVE  LockInv'
<1> USE LockAssumption DEF LockInv, TypeOK, Goto, Calls, Acquiring
<1>1. \A u \in Writers \ {w} : pc[u] # "holding" /\ pc[u] # "delete"
  <2>1. CASE pc[w] = "holding"
    BY <2>1, NoBreakerWhileHeld DEF MutualExclusion, Holders
  <2>2. CASE pc[w] = "delete"
    <3>1. \A u \in Writers : pc[u] # "holding"
      BY <2>2, NoBreakerWhileHeld DEF Holders
    <3> QED BY <2>2, <3>1, OneBreakerAtATime
  <2> QED BY <2>1, <2>2
<1>2. Holders' = {}
  BY <1>1 DEF Holders
<1>3. TypeOK' /\ WithinLimit' /\ (\A u \in Writers : pc'[u] # "write")
  BY DEF WithinLimit, NoLock
<1>4. MutualExclusion' /\ HolderOwnsLock' /\ NoOrphans'
  BY <1>2 DEF MutualExclusion, HolderOwnsLock, NoOrphans
<1>5. BreakingStale'
  BY <1>1 DEF BreakingStale
<1> QED BY <1>3, <1>4, <1>5

LEMMA LockInvInductive ==
  ASSUME SafeDeployment, LockInv, [Next]_vars PROVE LockInv'
<1> USE LockAssumption DEF TypeOK
<1>1. ASSUME NEW w \in Writers, BeginAcquire(w) PROVE LockInv'
  <2> USE <1>1 DEF BeginAcquire, LockInv, Goto, NoLock, Calls, Acquiring
  <2>1. Holders' = Holders
    BY DEF Holders
  <2>2. TypeOK' /\ WithinLimit' /\ (\A u \in Writers : pc'[u] # "write")
    BY DEF WithinLimit
  <2>3. MutualExclusion' /\ HolderOwnsLock' /\ NoOrphans'
    BY <2>1 DEF MutualExclusion, HolderOwnsLock, NoOrphans, Holders
  <2>4. BreakingStale'
    BY DEF BreakingStale, Stale
  <2> QED BY <2>2, <2>3, <2>4
<1>2. ASSUME NEW w \in Writers, FirstPut(w) PROVE LockInv'
  BY <1>2, PutKeepsInv DEF FirstPut
<1>3. ASSUME NEW w \in Writers, SecondPut(w) PROVE LockInv'
  BY <1>3, PutKeepsInv DEF SecondPut
<1>4. ASSUME NEW w \in Writers, DefaultPutWrites(w) PROVE LockInv'
  BY <1>4 DEF DefaultPutWrites, LockInv
<1>5. ASSUME NEW w \in Writers, ReadExisting(w) PROVE LockInv'
  <2>1. CASE lock # NoLock /\ Stale(w)
    <3> USE <1>5, <2>1 DEF ReadExisting, LockInv, Goto, NoLock, Calls, Acquiring
    <3>1. Holders' = Holders
      BY DEF Holders
    <3>2. TypeOK' /\ WithinLimit' /\ (\A u \in Writers : pc'[u] # "write")
      BY DEF WithinLimit
    <3>3. MutualExclusion' /\ HolderOwnsLock' /\ NoOrphans'
      BY <3>1 DEF MutualExclusion, HolderOwnsLock, NoOrphans, Holders
    <3>4. BreakingStale'
      BY DEF BreakingStale, Stale
    <3> QED BY <3>2, <3>3, <3>4
  <2>2. CASE ~(lock # NoLock /\ Stale(w))
    BY <1>5, <2>2, MoveKeepsInv DEF ReadExisting
  <2> QED BY <2>1, <2>2
<1>6. ASSUME NEW w \in Writers, BreakLock(w) PROVE LockInv'
  BY <1>6, DeleteKeepsInv DEF BreakLock
<1>7. ASSUME NEW w \in Writers, Release(w) PROVE LockInv'
  BY <1>7, DeleteKeepsInv DEF Release
<1>8. ASSUME NEW w \in Writers, AcquireFails(w) PROVE LockInv'
  BY <1>8, MoveKeepsInv DEF AcquireFails, Acquiring
<1>9. ASSUME NEW w \in Writers, Crash(w) PROVE LockInv'
  BY <1>9, MoveKeepsInv DEF Crash, LockInv
<1>10. CASE Tick
  <2> USE <1>10 DEF Tick, LockInv, Timely, SafeDeployment, NoLock, Calls, Acquiring
  <2>1. TypeOK' /\ WithinLimit'
    BY DEF WithinLimit
  <2> QED
    BY <2>1 DEF MutualExclusion, HolderOwnsLock, NoOrphans, BreakingStale, Stale, Holders
<1>11. CASE UNCHANGED vars
  BY <1>11 DEF vars, LockInv, WithinLimit, MutualExclusion, HolderOwnsLock, NoOrphans,
               BreakingStale, Stale, Holders
<1> QED
  BY <1>1, <1>2, <1>3, <1>4, <1>5, <1>6, <1>7, <1>8, <1>9, <1>10, <1>11
     DEF Next, WriterStep

\* The inductive invariant holds of every behaviour of a safe deployment.
THEOREM LockInvariant == SafeDeployment => (Spec => []LockInv)
<1> SUFFICES ASSUME SafeDeployment PROVE Spec => []LockInv
  OBVIOUS
<1>1. LockInv /\ [Next]_vars => LockInv'
  BY LockInvInductive
<1> QED BY <1>1, LockInvInitially, PTL DEF Spec

-----------------------------------------------------------------------------
\* Two writer operations never run at the same time (the purpose of
\* RepositoryLock::acquire) in a safe deployment.
THEOREM LockIsExclusive == SafeDeployment => (Spec => []MutualExclusion)
<1> SUFFICES ASSUME SafeDeployment PROVE Spec => []MutualExclusion
  OBVIOUS
<1>1. Spec => []LockInv
  BY LockInvariant
<1>2. LockInv => MutualExclusion
  BY DEF LockInv
<1> QED BY <1>1, <1>2, PTL

\* The lock in the repository is the holder's own until it releases it.
THEOREM LockIsOwned == SafeDeployment => (Spec => []HolderOwnsLock)
<1> SUFFICES ASSUME SafeDeployment PROVE Spec => []HolderOwnsLock
  OBVIOUS
<1>1. Spec => []LockInv
  BY LockInvariant
<1>2. LockInv => HolderOwnsLock
  BY DEF LockInv
<1> QED BY <1>1, <1>2, PTL

\* acquire breaks stale locks only (lock.rs, the delete_blob of acquire).
THEOREM BreaksStaleOnly == SafeDeployment => (Spec => OnlyStaleLocksBroken)
<1> SUFFICES ASSUME SafeDeployment PROVE Spec => OnlyStaleLocksBroken
  OBVIOUS
<1>1. Spec => []LockInv
  BY LockInvariant
<1>2. LockInv /\ [Next]_vars
        => [\A w \in Writers : BreakLock(w) /\ lock # NoLock => Stale(w)]_vars
  BY DEF LockInv, BreakingStale, BreakLock
<1> QED BY <1>1, <1>2, PTL DEF Spec, OnlyStaleLocksBroken

\* release deletes its writer's lock and no other (lock.rs, release).
THEOREM ReleasesOwnOnly == SafeDeployment => (Spec => ReleasesOwnLock)
<1> SUFFICES ASSUME SafeDeployment PROVE Spec => ReleasesOwnLock
  OBVIOUS
<1>1. Spec => []LockInv
  BY LockInvariant
<1>2. LockInv /\ [Next]_vars
        => [\A w \in Writers : Release(w) => lock \in {body[w], NoLock}]_vars
  BY DEF LockInv, HolderOwnsLock, Holders, Release
<1> QED BY <1>1, <1>2, PTL DEF Spec, ReleasesOwnLock

\* The lock file implements the mutex of WriterMutex: every step of acquire and
\* release is an Acquire, a Leave or no step of it.
THEOREM LockImplementsMutex == SafeDeployment => (Spec => ImplementsMutex)
<1> SUFFICES ASSUME SafeDeployment PROVE Spec => Mutex!Spec
  BY DEF ImplementsMutex
<1>1. Spec => []LockInv
  BY LockInvariant
<1>2. Init => Mutex!Init
  BY DEF Init, Mutex!Init, Holders
<1>3. LockInv /\ LockInv' /\ [Next]_vars => [Mutex!Next]_Holders
  <2> SUFFICES ASSUME LockInv, LockInv', [Next]_vars,
                      Holders' # Holders
               PROVE  \E w \in Writers : Mutex!Acquire(w) \/ Mutex!Leave(w)
    BY DEF Mutex!Next
  <2>1. PICK w \in Writers : WriterStep(w) \/ AcquireFails(w) \/ Crash(w)
    BY DEF Next, Tick, vars, Holders
  <2>2. \A u \in Writers \ {w} : pc'[u] = pc[u]
    BY <2>1 DEF LockInv, TypeOK, WriterStep, BeginAcquire, FirstPut, SecondPut,
         DefaultPutWrites, ReadExisting, BreakLock, Release, AcquireFails, Crash,
         PutIfAbsent, Goto
  <2>3. CASE w \in Holders
    <3>1. Holders' = Holders \ {w}
      BY <2>2, <2>3 DEF Holders
    <3> QED BY <2>3, <3>1 DEF Mutex!Leave
  <2>4. CASE w \notin Holders
    <3>1. Holders' = Holders \union {w}
      BY <2>2, <2>4 DEF Holders
    <3>2. Holders = {}
      BY <3>1, <2>4 DEF LockInv, MutualExclusion
    <3> QED BY <3>1, <3>2 DEF Mutex!Acquire
  <2> QED BY <2>3, <2>4
<1> QED BY <1>1, <1>2, <1>3, PTL DEF Spec, Mutex!Spec

-----------------------------------------------------------------------------
(* The writer operations under the lock.                                   *)

\* A writer is at work exactly between acquire's Ok and the end of release, and
\* works on nothing before and after its inner function.
Linked ==
  \A w \in Writers :
    /\ step[w] # "idle" <=> pc[w] = "holding"
    /\ step[w] \in {"idle", "locked", "unlock"} => job[w] = Repository!NoJob

LockedInv == LockInv /\ Repository!TypeOK /\ Linked

LEMMA Types ==
  ASSUME LockedInv
  PROVE  /\ pc \in [Writers -> Calls]
         /\ step \in [Writers -> Repository!Steps]
         /\ job \in [Writers -> Repository!Job]
BY DEF LockedInv, LockInv, TypeOK, Repository!TypeOK

\* A step of the lock by w moves no other writer.
LEMMA CallIsLocal ==
  ASSUME LockedInv, NEW w \in Writers, WriterStep(w) \/ AcquireFails(w) \/ Crash(w)
  PROVE  pc' \in [Writers -> Calls] /\ (\A v \in Writers \ {w} : pc'[v] = pc[v])
BY Types DEF WriterStep, BeginAcquire, FirstPut, SecondPut, DefaultPutWrites, ReadExisting,
             BreakLock, Release, AcquireFails, Crash, PutIfAbsent, Goto, Calls, Acquiring

\* What the lock does in a step of the composition is a step of the lock.
LEMMA LockSteps == [LockedNext]_lockedVars => [Next]_vars
<1> SUFFICES ASSUME [LockedNext]_lockedVars PROVE [Next]_vars
  OBVIOUS
<1>1. ASSUME NEW w \in Writers, CallAcquire(w) PROVE Next
  BY <1>1 DEF CallAcquire, Next
<1>2. ASSUME NEW w \in Writers, Operate(w) PROVE UNCHANGED vars
  BY <1>2 DEF Operate
<1>3. ASSUME NEW w \in Writers, ReleaseLock(w) PROVE Next
  BY <1>3 DEF ReleaseLock, Next, WriterStep
<1>4. ASSUME NEW w \in Writers, Die(w) PROVE Next
  BY <1>4 DEF Die, Next
<1>5. CASE Tick
  BY <1>5 DEF Next
<1>6. CASE UNCHANGED lockedVars
  BY <1>6 DEF lockedVars
<1> QED BY <1>1, <1>2, <1>3, <1>4, <1>5, <1>6 DEF LockedNext

-----------------------------------------------------------------------------
(* What SnapshotRepositoryProofs shows of the operations.                   *)

LEMMA OperationsTyped ==
  /\ Repository!Init => Repository!TypeOK
  /\ Repository!TypeOK /\ [Repository!Next]_(Repository!vars) => Repository!TypeOK'
BY OperationsAssumption, Repository!InitiallyTyped, Repository!TypeInductive
   DEF Repository!RepositoryAssumption, Repository!InitiallyTyped, Repository!TypeInductive

LEMMA OperationsReturn ==
  \A v, w \in Writers :
    Repository!TypeOK /\ (Repository!Write(w) \/ Repository!Collect(w) \/ Repository!Fail(w))
    => /\ step[w] # "idle" /\ step'[w] \notin {"idle", "locked"}
       /\ step'[w] = "unlock" => job'[w] = Repository!NoJob
       /\ v # w => step'[v] = step[v] /\ job'[v] = job[v]
BY OperationsAssumption, Repository!WorkReturns
   DEF Repository!RepositoryAssumption, Repository!WorkReturns

LEMMA OperationsRestorable ==
  FreshIds /\ CheckedParents => (Repository!Spec => []Repository!SnapshotsRestorable)
BY OperationsAssumption, Repository!AlwaysRestorable
   DEF Repository!RepositoryAssumption, Repository!AlwaysRestorable

LEMMA OperationsKeepRestorable ==
  FreshIds => (Repository!Spec => Repository!RestorableStays)
BY OperationsAssumption, Repository!RestorableUntilRemoved
   DEF Repository!RepositoryAssumption, Repository!RestorableUntilRemoved

-----------------------------------------------------------------------------
(* Each step of the composition is a step of SnapshotRepository, or none,   *)
(* and leaves the two halves linked.                                        *)

Kept == UNCHANGED <<manifests, payload, objects, doomed, job>>

LEMMA AcquireMaps ==
  ASSUME LockedInv, LockInv', NEW w \in Writers, CallAcquire(w)
  PROVE  [Repository!Next]_(Repository!vars) /\ Linked'
<1>1. /\ pc' \in [Writers -> Calls] /\ (\A v \in Writers \ {w} : pc'[v] = pc[v])
      /\ pc[w] # "holding" /\ step[w] = "idle" /\ Kept
  BY CallIsLocal DEF CallAcquire, LockedInv, Linked, Kept
<1>2. CASE pc'[w] = "holding"
  <2>1. Holders = {} /\ Holders' = {w}
    BY <1>1, <1>2 DEF LockInv, MutualExclusion, Holders
  <2>2. step' = [step EXCEPT ![w] = "locked"]
    BY <1>2 DEF CallAcquire, Moves
  <2>3. Repository!Acquire(w)
    BY <1>1, <2>1, <2>2 DEF Repository!Acquire, Repository!Lock!Acquire, Repository!Goto,
                            Repository!repository, Kept
  <2>4. Linked'
    BY <1>1, <1>2, <2>2, Types DEF LockedInv, Linked, Kept
  <2> QED BY <2>3, <2>4 DEF Repository!Next
<1>3. CASE pc'[w] # "holding"
  <2>1. Holders' = Holders
    BY <1>1, <1>3 DEF Holders
  <2>2. step' = step
    BY <1>3 DEF CallAcquire
  <2>3. Linked'
    BY <1>1, <1>3, <2>2 DEF LockedInv, Linked, Kept
  <2> QED BY <1>1, <2>1, <2>2, <2>3 DEF Repository!vars, Kept
<1> QED BY <1>2, <1>3

LEMMA OperateMaps ==
  ASSUME LockedInv, NEW w \in Writers, Operate(w)
  PROVE  [Repository!Next]_(Repository!vars) /\ Linked'
<1>1. Repository!Write(w) \/ Repository!Collect(w) \/ Repository!Fail(w)
  BY DEF Operate
<1>2. Repository!Next
  BY <1>1 DEF Repository!Next
<1>3. pc' = pc
  BY DEF Operate, vars
<1>4. ASSUME NEW v \in Writers
      PROVE  /\ step'[v] # "idle" <=> pc'[v] = "holding"
             /\ step'[v] \in {"idle", "locked", "unlock"} => job'[v] = Repository!NoJob
  <2>1. /\ step[w] # "idle" /\ step'[w] \notin {"idle", "locked"}
        /\ step'[w] = "unlock" => job'[w] = Repository!NoJob
        /\ v # w => step'[v] = step[v] /\ job'[v] = job[v]
    BY <1>1, OperationsReturn DEF LockedInv
  <2> QED BY <1>3, <2>1 DEF LockedInv, Linked
<1> QED BY <1>2, <1>4 DEF Linked

LEMMA ReleaseMaps ==
  ASSUME LockedInv, NEW w \in Writers, ReleaseLock(w)
  PROVE  [Repository!Next]_(Repository!vars) /\ Linked'
<1>1. /\ pc' = [pc EXCEPT ![w] = "idle"] /\ step' = [step EXCEPT ![w] = "idle"]
      /\ pc[w] = "holding" /\ step[w] = "unlock" /\ Kept
  BY DEF ReleaseLock, Release, Goto, Moves, Kept
<1>2. w \in Holders /\ Holders' = Holders \ {w}
  BY <1>1, Types DEF Holders
<1>3. Repository!Release(w)
  BY <1>1, <1>2 DEF Repository!Release, Repository!Lock!Leave, Repository!Goto,
                    Repository!repository, Kept
<1>4. Linked'
  BY <1>1, Types DEF LockedInv, Linked, Kept
<1> QED BY <1>3, <1>4 DEF Repository!Next

\* A writer that dies in acquire leaves nothing of its operation; after the
\* inner function has returned, its death is a release that removes no lock.
LEMMA DieMaps ==
  ASSUME LockedInv, NEW w \in Writers, Die(w)
  PROVE  [Repository!Next]_(Repository!vars) /\ Linked'
<1>1. /\ pc' = [pc EXCEPT ![w] = "idle"] /\ step' = [step EXCEPT ![w] = "idle"]
      /\ job' = [job EXCEPT ![w] = Repository!NoJob]
      /\ UNCHANGED <<manifests, payload, objects, doomed>>
  BY DEF Die, Crash, Goto, Moves
<1>2. Holders' = Holders \ {w}
  BY <1>1, Types DEF Holders
<1>3. Linked'
  BY <1>1, Types DEF LockedInv, Linked
<1>4. CASE step[w] = "idle"
  <2>1. w \notin Holders /\ job[w] = Repository!NoJob
    BY <1>4 DEF LockedInv, Linked, Holders
  <2>2. step' = step /\ job' = job /\ Holders' = Holders
    BY <1>1, <1>2, <1>4, <2>1, Types
  <2> QED BY <1>1, <1>3, <2>2 DEF Repository!vars
<1>5. CASE step[w] = "unlock"
  <2>1. w \in Holders /\ job' = job
    BY <1>1, <1>5, Types DEF LockedInv, Linked, Holders
  <2>2. Repository!Release(w)
    BY <1>1, <1>2, <1>5, <2>1 DEF Repository!Release, Repository!Lock!Leave,
                                  Repository!Goto, Repository!repository
  <2> QED BY <1>3, <2>2 DEF Repository!Next
<1>6. CASE step[w] \notin {"idle", "unlock"}
  <2>1. w \in Holders
    BY <1>6 DEF LockedInv, Linked, Holders
  <2>2. Repository!Crash(w)
    BY <1>1, <1>2, <1>6, <2>1 DEF Repository!Crash, Repository!Lock!Leave,
                                  Repository!Goto, Repository!repository
  <2> QED BY <1>3, <2>2 DEF Repository!Next
<1> QED BY <1>4, <1>5, <1>6

LEMMA StepMaps ==
  ASSUME LockedInv, LockInv', [LockedNext]_lockedVars
  PROVE  [Repository!Next]_(Repository!vars) /\ Linked'
<1>1. CASE Tick /\ UNCHANGED repositoryVars
  BY <1>1 DEF Tick, repositoryVars, Repository!vars, Holders, LockedInv, Linked
<1>2. CASE UNCHANGED lockedVars
  BY <1>2 DEF lockedVars, vars, repositoryVars, Repository!vars, Holders, LockedInv, Linked
<1> QED BY <1>1, <1>2, AcquireMaps, OperateMaps, ReleaseMaps, DieMaps DEF LockedNext

LEMMA LockedInitially == LockedInit => LockedInv /\ Repository!Init
<1> SUFFICES ASSUME LockedInit PROVE LockedInv /\ Repository!Init
  OBVIOUS
<1>1. LockInv /\ Repository!Init
  BY LockInvInitially DEF LockedInit
<1>2. Repository!TypeOK
  BY <1>1, OperationsTyped
<1>3. Linked
  BY <1>1 DEF LockedInit, Init, Repository!Init, Linked
<1> QED BY <1>1, <1>2, <1>3 DEF LockedInv

LEMMA LockedInductive ==
  ASSUME SafeDeployment, LockedInv, [LockedNext]_lockedVars
  PROVE  LockedInv' /\ [Repository!Next]_(Repository!vars)
<1>1. LockInv'
  BY LockInvInductive, LockSteps DEF LockedInv
<1>2. [Repository!Next]_(Repository!vars) /\ Linked'
  BY <1>1, StepMaps
<1>3. Repository!TypeOK'
  BY <1>2, OperationsTyped DEF LockedInv
<1> QED BY <1>1, <1>2, <1>3 DEF LockedInv

-----------------------------------------------------------------------------
\* The writer operations of backup.rs and prune.rs under the lock of lock.rs
\* implement the writer operations under a mutex, in a safe deployment.
THEOREM LockedImplementsRepository == SafeDeployment => (LockedSpec => ImplementsRepository)
<1> SUFFICES ASSUME SafeDeployment PROVE LockedSpec => Repository!Spec
  BY DEF ImplementsRepository
<1>1. LockedInv /\ [LockedNext]_lockedVars => LockedInv' /\ [Repository!Next]_(Repository!vars)
  BY LockedInductive
<1> QED BY <1>1, LockedInitially, PTL DEF LockedSpec, Repository!Spec

\* Who is between acquire and release in the code holds the very lock that is
\* in the repository.
THEOREM LockedWorksUnderOwnLock == SafeDeployment => (LockedSpec => []WorksUnderOwnLock)
<1> SUFFICES ASSUME SafeDeployment PROVE LockedSpec => []WorksUnderOwnLock
  OBVIOUS
<1>1. LockedInv /\ [LockedNext]_lockedVars => LockedInv'
  BY LockedInductive
<1>2. LockedInv => WorksUnderOwnLock
  BY DEF LockedInv, LockInv, HolderOwnsLock, Holders, Linked, WorksUnderOwnLock
<1> QED BY <1>1, <1>2, LockedInitially, PTL DEF LockedSpec

\* Among any number of processes in a safe deployment - puts are atomic, no
\* operation outlives the stale limit, and processes either do not die or leave
\* it to one of them to break stale locks - a snapshot that can be restored stays
\* so until somebody asks to remove it, if requests use fresh ids.
THEOREM LockedRestorableStays ==
  SafeDeployment /\ FreshIds => (LockedSpec => Repository!RestorableStays)
<1> SUFFICES ASSUME SafeDeployment, FreshIds PROVE LockedSpec => Repository!RestorableStays
  OBVIOUS
<1>1. LockedSpec => Repository!Spec
  BY LockedImplementsRepository DEF ImplementsRepository
<1>2. Repository!Spec => Repository!RestorableStays
  BY OperationsKeepRestorable
<1> QED BY <1>1, <1>2

\* If moreover incremental backups are only asked for on a parent that can be
\* restored and has the present schema, which no code makes sure of, every
\* snapshot with a manifest can be restored until it is to be removed.
THEOREM LockedRestorable ==
  SafeDeployment /\ FreshIds /\ CheckedParents => (LockedSpec => []SnapshotsRestorable)
<1> SUFFICES ASSUME SafeDeployment, FreshIds, CheckedParents
             PROVE  LockedSpec => []Repository!SnapshotsRestorable
  BY DEF SnapshotsRestorable
<1>1. LockedSpec => Repository!Spec
  BY LockedImplementsRepository DEF ImplementsRepository
<1>2. Repository!Spec => []Repository!SnapshotsRestorable
  BY OperationsRestorable
<1> QED BY <1>1, <1>2, PTL
=============================================================================
