---------------------- MODULE SnapshotRepositoryProofs ----------------------
(***************************************************************************)
(* Every snapshot that nobody has asked to remove can be restored, for any *)
(* numbers of snapshots, tables and objects, whatever operation fails or   *)
(* dies and wherever it does, provided that the lock is exclusive, that    *)
(* requests use fresh snapshot ids and that incremental backups name a     *)
(* parent that can be restored.  Whatever parents they name, a snapshot    *)
(* that can be restored stays so, and removal leaves nothing behind.       *)
(***************************************************************************)
EXTENDS SnapshotRepository, NaturalRecursion

USE DEF NoParent

LEMMA NoJobType == NoJob \in Job
BY RepositoryAssumption DEF NoJob, Job, Manifest, Files

\* The chain of a snapshot contains it and the parents of what it contains.
LEMMA ChainClosed ==
  ASSUME TypeOK, NEW s \in Ids
  PROVE  /\ s \in Chain(s)
         /\ Chain(s) \subseteq Ids
         /\ ParentClosed(Chain(s))
<1>1. s \in Chain(s) /\ Chain(s) \subseteq Ids
  BY DEF Chain
<1>2. ASSUME NEW x \in Chain(s) \intersect Existing, Parent(x) # NoParent
      PROVE  Parent(x) \in Chain(s)
  <2>1. Parent(x) \in Ids
    BY <1>2 DEF TypeOK, Existing, Parent, Manifest
  <2>2. ASSUME NEW C \in SUBSET Ids, s \in C, ParentClosed(C) PROVE Parent(x) \in C
    <3>1. x \in C
      BY <2>2 DEF Chain
    <3> QED BY <3>1, <2>2, <1>2 DEF ParentClosed
  <2> QED BY <2>1, <2>2 DEF Chain
<1> QED BY <1>1, <1>2 DEF ParentClosed

\* load_manifest_chain does not leave a closed set of snapshots.
LEMMA ChainLeast ==
  ASSUME NEW s, NEW C \in SUBSET Ids, s \in C, ParentClosed(C)
  PROVE  Chain(s) \subseteq C
BY DEF Chain

LEMMA LiveType == ASSUME TypeOK PROVE Live \subseteq Ids /\ Live \subseteq Existing
BY DEF TypeOK, Live, Existing

\* What the invariant says about one snapshot is all that a restore needs.
LEMMA SoundIsRestorable ==
  ASSUME TypeOK, LiveAreSound, NoCycles, NEW s \in Live
  PROVE  Restorable(s)
<1>1. Live \in SUBSET Ids /\ Live \subseteq Existing
  BY LiveType
<1>2. ParentClosed(Live)
  BY <1>1 DEF LiveAreSound, ParentClosed
<1>3. Chain(s) \subseteq Live
  BY <1>1, <1>2, ChainLeast
<1>4. s \in Chain(s) /\ ParentClosed(Chain(s))
  BY <1>1, ChainClosed
<1>5. PICK root \in Chain(s) : Parent(root) \notin Chain(s)
  BY <1>3, <1>4 DEF NoCycles
<1>6. Parent(root) = NoParent
  BY <1>1, <1>3, <1>4, <1>5 DEF ParentClosed
<1>7. \A x \in Chain(s) : Export(x).schema = Export(s).schema
  <2> DEFINE Same == {x \in Live : Export(x).schema = Export(s).schema}
  <2>1. ParentClosed(Same)
    BY <1>1 DEF LiveAreSound, ParentClosed
  <2>2. Chain(s) \subseteq Same
    BY <1>1, <2>1, ChainLeast
  <2> QED BY <2>2
<1>8. \A x \in Chain(s) : Verified(x)
  BY <1>3 DEF LiveAreSound
<1> QED BY <1>1, <1>3, <1>5, <1>6, <1>7, <1>8 DEF Restorable, Fits

-----------------------------------------------------------------------------
LEMMA ExportTypes ==
  ASSUME TypeOK, NEW s \in Existing
  PROVE  manifests[s] \in Manifest /\ Export(s) \in ExportType
BY DEF TypeOK, Existing, Export, Manifest

LEMMA StartWritingType ==
  ASSUME TypeOK, NEW w \in Writers, NEW s \in Ids, NEW draft \in Manifest,
         NEW blobs \in SUBSET Hashes, StartWriting(w, s, draft, blobs)
  PROVE  TypeOK'
<1> DEFINE j == [NoJob EXCEPT !.id = s, !.draft = draft, !.files = draft.export.tables,
                              !.blobs = blobs]
<1>1. draft.export.tables \subseteq Files
  BY DEF Manifest, ExportType, Files
<1>2. j \in Job /\ j.id = s
  BY <1>1, NoJobType DEF Job
<1>3. job' = [job EXCEPT ![w] = j] /\ step' = [step EXCEPT ![w] = "tables"]
      /\ UNCHANGED <<holders, manifests, payload, objects, doomed>>
  BY DEF StartWriting, Goto, repository
<1> HIDE DEF j
<1> QED
  BY <1>2, <1>3 DEF TypeOK, Steps, Writing

\* The objects and tables of existing snapshots are objects and tables.
LEMMA ObjectsOfType ==
  ASSUME TypeOK, NEW S \in SUBSET Existing
  PROVE  ObjectsOf(S) \subseteq Hashes
BY ExportTypes DEF ObjectsOf, ExportType

LEMMA CompactedType ==
  ASSUME TypeOK, NEW source \in Existing, NEW created \in Dates, Restorable(source),
         NEW O \in SUBSET ObjectsOf(Chain(source))
  PROVE  Compacted(source, created, O) \in Manifest
<1>1. Chain(source) \subseteq Existing
  BY DEF Restorable, Fits
<1>2. O \subseteq Hashes
  BY <1>1, ObjectsOfType
<1>3. UNION {Export(x).tables : x \in Chain(source)} \subseteq Tables
  BY <1>1, ExportTypes DEF ExportType
<1>4. Export(source).at \in Versions /\ Export(source).schema \in Schemas
  BY ExportTypes DEF ExportType
<1> QED BY <1>2, <1>3, <1>4 DEF Compacted, Manifest, ExportType

LEMMA StartRemovalType ==
  ASSUME TypeOK, NEW w \in Writers, NEW expired \in SUBSET Existing, NEW kept \in SUBSET Existing,
         StartRemoval(w, expired, kept)
  PROVE  TypeOK'
<1> DEFINE j == [NoJob EXCEPT !.removed = expired, !.expired = expired,
                              !.reachable = ObjectsOf(kept)]
<1>1. ObjectsOf(kept) \subseteq Hashes /\ expired \subseteq Ids
  BY ObjectsOfType DEF TypeOK, Existing
<1>2. j \in Job
  BY <1>1, NoJobType DEF Job
<1>3. /\ job' = [job EXCEPT ![w] = j] /\ step' = [step EXCEPT ![w] = "expire"]
      /\ doomed' = doomed \union expired
      /\ UNCHANGED <<holders, manifests, payload, objects>>
  BY DEF StartRemoval, Goto, repository
<1> HIDE DEF j
<1> QED BY <1>2, <1>3 DEF TypeOK, Steps, Writing, Existing

LEMMA TypeInductive == TypeOK /\ [Next]_vars => TypeOK'
<1> SUFFICES ASSUME TypeOK, [Next]_vars PROVE TypeOK'
  OBVIOUS
<1> USE DEF Goto, Return, repository
<1>1. ASSUME NEW w \in Writers, Acquire(w) PROVE TypeOK'
  BY <1>1 DEF Acquire, Lock!Acquire, TypeOK, Steps, Writing
<1>2. ASSUME NEW w \in Writers, Write(w) PROVE TypeOK'
  <2>1. CASE PlanFull(w)
    <3>1. PICK s \in Ids, e \in Exports :
            StartWriting(w, s, [parent |-> NoParent, export |-> e], e.objects)
      BY <2>1 DEF PlanFull
    <3>2. [parent |-> NoParent, export |-> e] \in Manifest /\ e.objects \subseteq Hashes
      BY RepositoryAssumption DEF Manifest, ExportType
    <3> QED BY <3>1, <3>2, StartWritingType
  <2>2. CASE PlanIncremental(w)
    <3>1. PICK s \in Ids, parent \in Ids, e \in Exports :
            StartWriting(w, s, [parent |-> parent, export |-> e], e.objects)
      BY <2>2 DEF PlanIncremental
    <3>2. [parent |-> parent, export |-> e] \in Manifest /\ e.objects \subseteq Hashes
      BY RepositoryAssumption DEF Manifest, ExportType
    <3> QED BY <3>1, <3>2, StartWritingType
  <2>3. CASE PlanCompact(w)
    <3>1. PICK s \in Ids, source \in Existing, created \in Dates :
            /\ Restorable(source)
            /\ \E O \in SUBSET ObjectsOf(Chain(source)) :
                 StartWriting(w, s, Compacted(source, created, O), {})
      BY <2>3 DEF PlanCompact
    <3>2. PICK O \in SUBSET ObjectsOf(Chain(source)) :
            StartWriting(w, s, Compacted(source, created, O), {})
      BY <3>1
    <3> QED BY <3>1, <3>2, CompactedType, StartWritingType
  <2>4. ASSUME NEW t \in Tables, PutTable(w, t) PROVE TypeOK'
    <3>1. job[w] \in Job /\ job[w].id \in Ids
      BY <2>4 DEF PutTable, TypeOK, Writing
    <3>2. job' \in [Writers -> Job] /\ \A v \in Writers : job'[v].id = job[v].id
      BY <2>4, <3>1 DEF PutTable, TypeOK, Job
    <3>3. ContentOf(job[w].draft) \in Content
      BY <3>1 DEF ContentOf, Content, Job, Manifest, ExportType
    <3>4. DOMAIN payload' \subseteq Ids \X Tables /\ payload' \in [DOMAIN payload' -> Content]
      BY <2>4, <3>1, <3>3 DEF PutTable, Put, TypeOK
    <3> QED BY <2>4, <3>2, <3>4 DEF PutTable, TypeOK, Writing
  <2>5. CASE TablesWritten(w) \/ ObjectsWritten(w)
    BY <2>5 DEF TablesWritten, ObjectsWritten, TypeOK, Steps, Writing
  <2>6. ASSUME NEW h \in Hashes, PutObject(w, h) PROVE TypeOK'
    <3>1. job' \in [Writers -> Job] /\ \A v \in Writers : job'[v].id = job[v].id
      <4>1. job \in [Writers -> Job] /\ job' = [job EXCEPT ![w].blobs = @ \ {h}]
        BY <2>6 DEF PutObject, TypeOK
      <4>2. [job[w] EXCEPT !.blobs = @ \ {h}] \in Job
        BY <4>1 DEF Job
      <4>3. [job[w] EXCEPT !.blobs = @ \ {h}].id = job[w].id
        BY <4>1 DEF Job
      <4> QED BY <4>1, <4>2, <4>3
    <3> QED BY <2>6, <3>1 DEF PutObject, TypeOK, Writing
  <2>7. CASE WriteManifest(w)
    <3>1. job[w].id \in Ids /\ job[w].draft \in Manifest
      BY <2>7 DEF WriteManifest, TypeOK, Writing, Job
    <3>2. /\ DOMAIN manifests' = DOMAIN manifests \union {job[w].id}
          /\ manifests' \in [DOMAIN manifests' -> Manifest]
      BY <2>7, <3>1 DEF WriteManifest, Put, TypeOK
    <3>3. job' = [job EXCEPT ![w] = NoJob] /\ step' = [step EXCEPT ![w] = "unlock"]
      BY <2>7 DEF WriteManifest
    <3>4. /\ holders' = holders /\ payload' = payload /\ objects' = objects
          /\ doomed' \subseteq doomed
      BY <2>7 DEF WriteManifest
    <3>5. step' \in [Writers -> Steps] /\ job' \in [Writers -> Job]
      BY <3>3, NoJobType DEF TypeOK, Steps
    <3>6. \A v \in Writers : Writing(v)' => job'[v].id \in Ids
      BY <3>3 DEF TypeOK, Writing
    <3>7. doomed' \subseteq DOMAIN manifests' /\ DOMAIN manifests' \subseteq Ids
      BY <3>1, <3>2, <3>4 DEF TypeOK
    <3> QED BY <3>2, <3>4, <3>5, <3>6, <3>7 DEF TypeOK
  <2> QED BY <1>2, <2>1, <2>2, <2>3, <2>4, <2>5, <2>6, <2>7 DEF Write
<1>3. ASSUME NEW w \in Writers, Collect(w) PROVE TypeOK'
  <2>1. CASE BeginPrune(w)
    <3>1. PICK keep \in Keeps :
            /\ \A s \in Selected(keep) : Loadable(s)
            /\ StartRemoval(w, Existing \ Retained(keep), Retained(keep))
      BY <2>1 DEF BeginPrune
    <3>2. Retained(keep) \subseteq Existing
      BY <3>1 DEF Retained, Loadable, Fits
    <3> QED BY <3>1, <3>2, StartRemovalType
  <2>2. CASE BeginDelete(w)
    <3>1. PICK s \in Existing : StartRemoval(w, {s}, Existing \ {s})
      BY <2>2 DEF BeginDelete
    <3> QED BY <3>1, StartRemovalType
  <2>3. ASSUME NEW s \in Ids, ListSnapshot(w, s) PROVE TypeOK'
    <3>1. FilesOf(s) \subseteq Files
      BY DEF FilesOf, Files
    <3>2. job' \in [Writers -> Job] /\ \A v \in Writers : v # w => job'[v].id = job[v].id
      BY <2>3, <3>1 DEF ListSnapshot, TypeOK, Job
    <3>3. step' = step /\ step[w] = "expire"
      BY <2>3 DEF ListSnapshot
    <3>4. \A v \in Writers : Writing(v)' => job'[v].id \in Ids
      BY <3>2, <3>3 DEF TypeOK, Writing
    <3>5. UNCHANGED <<holders, manifests, payload, objects, doomed>>
      BY <2>3 DEF ListSnapshot, repository
    <3> QED BY <3>2, <3>3, <3>4, <3>5 DEF TypeOK
  <2>4. ASSUME NEW f \in Files, DeleteFile(w, f) PROVE TypeOK'
    <3>1. job' \in [Writers -> Job] /\ \A v \in Writers : job'[v].id = job[v].id
      <4>1. job \in [Writers -> Job] /\ job' = [job EXCEPT ![w].files = @ \ {f}]
        BY <2>4 DEF DeleteFile, TypeOK
      <4>2. [job[w] EXCEPT !.files = @ \ {f}] \in Job
        BY <4>1 DEF Job
      <4>3. [job[w] EXCEPT !.files = @ \ {f}].id = job[w].id
        BY <4>1 DEF Job
      <4> QED BY <4>1, <4>2, <4>3
    <3>2. /\ DOMAIN manifests' \subseteq Ids /\ manifests' \in [DOMAIN manifests' -> Manifest]
          /\ DOMAIN payload' \subseteq Ids \X Tables /\ payload' \in [DOMAIN payload' -> Content]
          /\ doomed' \subseteq DOMAIN manifests'
      <4>1. CASE f = ManifestFile
        BY <2>4, <4>1 DEF DeleteFile, Remove, TypeOK
      <4>2. CASE f # ManifestFile
        BY <2>4, <4>2 DEF DeleteFile, Remove, TypeOK
      <4> QED BY <4>1, <4>2
    <3> QED BY <2>4, <3>1, <3>2 DEF DeleteFile, TypeOK, Writing
  <2>5. CASE ListObjects(w)
    <3>1. job' \in [Writers -> Job] /\ \A v \in Writers : job'[v].id = job[v].id
      <4>1. job \in [Writers -> Job] /\ job[w] \in Job /\ objects \subseteq Hashes
        BY DEF TypeOK
      <4>2. PICK listed \in SUBSET Hashes : listed = objects \ job[w].reachable
        BY <4>1
      <4>3. job' = [job EXCEPT ![w].blobs = listed]
        BY <2>5, <4>2 DEF ListObjects
      <4>4. [job[w] EXCEPT !.blobs = listed] \in Job
        BY <4>1 DEF Job
      <4>5. [job[w] EXCEPT !.blobs = listed].id = job[w].id
        BY <4>1 DEF Job
      <4> QED BY <4>1, <4>3, <4>4, <4>5
    <3> QED BY <2>5, <3>1 DEF ListObjects, TypeOK, Steps, Writing
  <2>6. ASSUME NEW h \in Hashes, DeleteObject(w, h) PROVE TypeOK'
    <3>1. job' \in [Writers -> Job] /\ \A v \in Writers : job'[v].id = job[v].id
      <4>1. job \in [Writers -> Job] /\ job' = [job EXCEPT ![w].blobs = @ \ {h}]
        BY <2>6 DEF DeleteObject, TypeOK
      <4>2. [job[w] EXCEPT !.blobs = @ \ {h}] \in Job
        BY <4>1 DEF Job
      <4>3. [job[w] EXCEPT !.blobs = @ \ {h}].id = job[w].id
        BY <4>1 DEF Job
      <4> QED BY <4>1, <4>2, <4>3
    <3> QED BY <2>6, <3>1 DEF DeleteObject, TypeOK, Writing
  <2>7. CASE EndSweep(w)
    BY <2>7, NoJobType DEF EndSweep, TypeOK, Steps, Writing
  <2> QED BY <1>3, <2>1, <2>2, <2>3, <2>4, <2>5, <2>6, <2>7 DEF Collect
<1>4. ASSUME NEW w \in Writers, Fail(w) \/ Release(w) \/ Crash(w) PROVE TypeOK'
  BY <1>4, NoJobType DEF Fail, Release, Crash, Lock!Leave, TypeOK, Steps, Writing
<1>5. CASE UNCHANGED vars
  BY <1>5 DEF vars, TypeOK, Writing
<1> QED BY <1>1, <1>2, <1>3, <1>4, <1>5 DEF Next

LEMMA InitiallyTyped == Init => TypeOK
BY NoJobType DEF Init, TypeOK, Steps, Writing

\* All state of the model keeps its type, whatever the callers do.
THEOREM TypeCorrect == Spec => []TypeOK
BY InitiallyTyped, TypeInductive, PTL DEF Spec

-----------------------------------------------------------------------------
(* Exclusion: while one writer works, all the others are idle.             *)

\* Whatever a writer does between acquire and release is its own step.
LEMMA WorkIsLocal ==
  ASSUME TypeOK, NEW w \in Writers, Write(w) \/ Collect(w) \/ Fail(w)
  PROVE  /\ step[w] # "idle"
         /\ holders' = holders
         /\ \A v \in Writers \ {w} : step'[v] = step[v]
<1> USE DEF Goto, Return, StartWriting
<1>1. step \in [Writers -> Steps]
  BY DEF TypeOK
<1>2. CASE Write(w)
  BY <1>1, <1>2 DEF Write, PlanFull, PlanIncremental, PlanCompact, PutTable, TablesWritten,
                    PutObject, ObjectsWritten, WriteManifest
<1>3. CASE Collect(w)
  BY <1>1, <1>3 DEF Collect, BeginPrune, BeginDelete, ListSnapshot, DeleteFile,
                    ListObjects, DeleteObject, EndSweep, StartRemoval
<1>4. CASE Fail(w)
  BY <1>1, <1>4 DEF Fail
<1> QED BY <1>2, <1>3, <1>4

\* It goes on until the inner function has returned, which leaves nothing of it.
LEMMA WorkReturns ==
  \A v, w \in Writers :
    TypeOK /\ (Write(w) \/ Collect(w) \/ Fail(w))
    => /\ step[w] # "idle" /\ step'[w] \notin {"idle", "locked"}
       /\ step'[w] = "unlock" => job'[w] = NoJob
       /\ v # w => step'[v] = step[v] /\ job'[v] = job[v]
<1> SUFFICES ASSUME NEW v \in Writers, NEW w \in Writers, TypeOK,
                    Write(w) \/ Collect(w) \/ Fail(w)
             PROVE  /\ step[w] # "idle" /\ step'[w] \notin {"idle", "locked"}
                    /\ step'[w] = "unlock" => job'[w] = NoJob
                    /\ v # w => step'[v] = step[v] /\ job'[v] = job[v]
  OBVIOUS
<1>1. step \in [Writers -> Steps] /\ job \in [Writers -> Job]
  BY DEF TypeOK
<1>2. ASSUME NEW s, NEW draft, NEW blobs, StartWriting(w, s, draft, blobs)
      PROVE  step' = [step EXCEPT ![w] = "tables"] /\ (v # w => job'[v] = job[v])
  BY <1>1, <1>2 DEF StartWriting, Goto
<1>3. ASSUME NEW expired, NEW kept, StartRemoval(w, expired, kept)
      PROVE  step' = [step EXCEPT ![w] = "expire"] /\ (v # w => job'[v] = job[v])
  BY <1>1, <1>3 DEF StartRemoval, Goto
<1>4. ASSUME Return(w)
      PROVE  step' = [step EXCEPT ![w] = "unlock"] /\ job' = [job EXCEPT ![w] = NoJob]
  BY <1>4 DEF Return, Goto
<1>5. CASE Write(w)
  <2>1. CASE PlanFull(w) \/ PlanIncremental(w) \/ PlanCompact(w)
    <3>1. step[w] = "locked"
      BY <2>1 DEF PlanFull, PlanIncremental, PlanCompact
    <3>2. \E s, draft, blobs : StartWriting(w, s, draft, blobs)
      <4>1. CASE PlanFull(w)
        BY <4>1, Zenon DEF PlanFull
      <4>2. CASE PlanIncremental(w)
        BY <4>2, Zenon DEF PlanIncremental
      <4>3. CASE PlanCompact(w)
        BY <4>3, Zenon DEF PlanCompact
      <4> QED BY <2>1, <4>1, <4>2, <4>3
    <3> QED BY <1>1, <1>2, <3>1, <3>2
  <2>2. ASSUME NEW t \in Tables, PutTable(w, t) PROVE step[w] = "tables" /\ step' = step
    BY <2>2 DEF PutTable
  <2>3. ASSUME NEW t \in Tables, PutTable(w, t), v # w PROVE job'[v] = job[v]
    BY <1>1, <2>3 DEF PutTable
  <2>4. ASSUME NEW h \in Hashes, PutObject(w, h) PROVE step[w] = "objects" /\ step' = step
    BY <2>4 DEF PutObject
  <2>5. ASSUME NEW h \in Hashes, PutObject(w, h), v # w PROVE job'[v] = job[v]
    BY <1>1, <2>5 DEF PutObject
  <2>6. CASE TablesWritten(w) \/ ObjectsWritten(w)
    BY <1>1, <2>6 DEF TablesWritten, ObjectsWritten, Goto
  <2>7. CASE WriteManifest(w)
    <3>1. step[w] = "commit" /\ Return(w)
      BY <2>7 DEF WriteManifest
    <3> QED BY <1>1, <1>4, <3>1
  <2> QED BY <1>5, <2>1, <2>2, <2>3, <2>4, <2>5, <2>6, <2>7 DEF Write
<1>6. CASE Collect(w)
  <2>1. CASE BeginPrune(w) \/ BeginDelete(w)
    <3>1. step[w] = "locked"
      BY <2>1 DEF BeginPrune, BeginDelete
    <3>2. \E expired, kept : StartRemoval(w, expired, kept)
      BY <2>1, Zenon DEF BeginPrune, BeginDelete
    <3> QED BY <1>1, <1>3, <3>1, <3>2
  <2>2. ASSUME NEW s \in Ids, ListSnapshot(w, s) PROVE step[w] = "expire" /\ step' = step
    BY <2>2 DEF ListSnapshot
  <2>3. ASSUME NEW s \in Ids, ListSnapshot(w, s), v # w PROVE job'[v] = job[v]
    BY <1>1, <2>3 DEF ListSnapshot
  <2>4. ASSUME NEW f \in Files, DeleteFile(w, f) PROVE step[w] = "expire" /\ step' = step
    BY <2>4 DEF DeleteFile
  <2>5. ASSUME NEW f \in Files, DeleteFile(w, f), v # w PROVE job'[v] = job[v]
    BY <1>1, <2>5 DEF DeleteFile
  <2>6. CASE ListObjects(w)
    BY <1>1, <2>6 DEF ListObjects, Goto
  <2>7. ASSUME NEW h \in Hashes, DeleteObject(w, h) PROVE step[w] = "sweep" /\ step' = step
    BY <2>7 DEF DeleteObject
  <2>8. ASSUME NEW h \in Hashes, DeleteObject(w, h), v # w PROVE job'[v] = job[v]
    BY <1>1, <2>8 DEF DeleteObject
  <2>9. CASE EndSweep(w)
    <3>1. step[w] = "sweep" /\ Return(w)
      BY <2>9 DEF EndSweep
    <3> QED BY <1>1, <1>4, <3>1
  <2> QED BY <1>6, <2>1, <2>2, <2>3, <2>4, <2>5, <2>6, <2>7, <2>8, <2>9 DEF Collect
<1>7. CASE Fail(w)
  <2>1. step[w] # "idle" /\ Return(w)
    BY <1>7 DEF Fail
  <2> QED BY <1>1, <1>4, <2>1
<1> QED BY <1>5, <1>6, <1>7

LEMMA OthersIdle ==
  ASSUME OnlyHolderWorks, NEW w \in Writers, step[w] # "idle", NEW v \in Writers \ {w}
  PROVE  step[v] = "idle"
BY DEF OnlyHolderWorks

LEMMA ExclusionInductive ==
  ASSUME TypeOK, OnlyHolderWorks, [Next]_vars PROVE OnlyHolderWorks'
<1>1. ASSUME NEW w \in Writers, Acquire(w) PROVE OnlyHolderWorks'
  BY <1>1 DEF Acquire, Lock!Acquire, Goto, OnlyHolderWorks, TypeOK
<1>2. ASSUME NEW w \in Writers, Write(w) \/ Collect(w) \/ Fail(w) PROVE OnlyHolderWorks'
  BY <1>2, WorkIsLocal DEF OnlyHolderWorks
<1>3. ASSUME NEW w \in Writers, Release(w) \/ Crash(w) PROVE OnlyHolderWorks'
  BY <1>3 DEF Release, Crash, Lock!Leave, Goto, OnlyHolderWorks, TypeOK
<1>4. CASE UNCHANGED vars
  BY <1>4 DEF vars, OnlyHolderWorks
<1> QED BY <1>1, <1>2, <1>3, <1>4 DEF Next

-----------------------------------------------------------------------------
(* Soundness of what stays in the repository.                              *)

\* A step that changes no blob of the snapshots that stay alive, and kills no
\* parent of one of them, keeps them sound.
LEMMA SoundPreserved ==
  ASSUME TypeOK, LiveAreSound, NoCycles,
         Live' \subseteq Live,
         \A s \in Live' :
           /\ manifests'[s] = manifests[s]
           /\ Parent(s) # NoParent => Parent(s) \in Live'
           /\ Export(s).objects \subseteq objects'
           /\ \A t \in Export(s).tables :
                <<s, t>> \in DOMAIN payload => /\ <<s, t>> \in DOMAIN payload'
                                               /\ payload'[<<s, t>>] = payload[<<s, t>>]
  PROVE  LiveAreSound' /\ NoCycles'
<1>1. \A s \in Live' : Parent(s)' = Parent(s) /\ Export(s)' = Export(s)
  BY DEF Parent, Export
<1>2. \A s \in Live' : Verified(s)'
  BY <1>1 DEF LiveAreSound, Verified, ContentOf
<1>3. LiveAreSound'
  BY <1>1, <1>2 DEF LiveAreSound
<1>4. NoCycles'
  BY <1>1 DEF NoCycles
<1> QED BY <1>3, <1>4

\* Nothing is being written or removed when nobody is past the planning.
LEMMA QuietIsSafe ==
  ASSUME \A v \in Writers : step'[v] \in {"idle", "locked", "unlock"}
  PROVE  DraftIsSound' /\ RemovalIsSafe'
BY DEF DraftIsSound, RemovalIsSafe, Writing

\* A step that leaves the blobs alone keeps all snapshots sound.
LEMMA SameBlobs ==
  ASSUME TypeOK, LiveAreSound, NoCycles, UNCHANGED <<manifests, payload, objects, doomed>>
  PROVE  Live' = Live /\ LiveAreSound' /\ NoCycles'
<1>1. Live' = Live
  BY DEF Live, Existing
<1>2. \A s \in Live : Verified(s) /\ (Parent(s) # NoParent => Parent(s) \in Live)
  BY DEF LiveAreSound
<1> QED BY <1>1, <1>2, SoundPreserved DEF Verified

Sound == LiveAreSound /\ NoCycles /\ DraftIsSound /\ RemovalIsSafe

LEMMA StartWritingSound ==
  ASSUME FreshIds, RepositoryInv, NEW w \in Writers, NEW s \in Ids,
         NEW draft \in Manifest, NEW blobs \in SUBSET Hashes,
         step[w] = "locked", StartWriting(w, s, draft, blobs),
         draft.export.objects \subseteq objects \union blobs,
         draft.parent # NoParent =>
           draft.parent \in Live /\ Export(draft.parent).schema = draft.export.schema
  PROVE  Sound'
<1> DEFINE j == [NoJob EXCEPT !.id = s, !.draft = draft, !.files = draft.export.tables,
                              !.blobs = blobs]
<1>1. j.id = s /\ j.draft = draft /\ j.files = draft.export.tables /\ j.blobs = blobs
  BY NoJobType DEF Job
<1>2. job'[w] = j /\ step'[w] = "tables" /\ UNCHANGED <<manifests, payload, objects, doomed>>
  BY DEF StartWriting, Goto, repository, RepositoryInv, TypeOK
<1> HIDE DEF j
<1>3. Live' = Live /\ LiveAreSound' /\ NoCycles'
  BY <1>2, SameBlobs DEF RepositoryInv
<1>4. \A v \in Writers \ {w} : step'[v] = "idle"
  BY OthersIdle DEF RepositoryInv, StartWriting, Goto, TypeOK
<1>5. s \in Ids \ Existing' /\ ParentSound(w)'
  BY <1>1, <1>2, <1>3 DEF StartWriting, Existing, ParentSound, Export
<1>6. TablesSound(w)' /\ ObjectsSound(w)'
  BY <1>1, <1>2 DEF TablesSound, ObjectsSound
<1>7. DraftIsSound' /\ RemovalIsSafe'
  BY <1>1, <1>2, <1>4, <1>5, <1>6 DEF DraftIsSound, RemovalIsSafe, Writing
<1> QED BY <1>3, <1>7 DEF Sound

\* plan_full_backup, the reads of create_incremental_backup, and the load,
\* verification and replay of compact_chain
LEMMA PlanSound ==
  ASSUME FreshIds, CheckedParents, RepositoryInv, NEW w \in Writers,
         PlanFull(w) \/ PlanIncremental(w) \/ PlanCompact(w)
  PROVE  Sound'
<1>1. CASE PlanFull(w)
  <2>1. PICK s \in Ids, e \in Exports :
          StartWriting(w, s, [parent |-> NoParent, export |-> e], e.objects)
    BY <1>1 DEF PlanFull
  <2>2. [parent |-> NoParent, export |-> e] \in Manifest /\ e.objects \subseteq Hashes
    BY RepositoryAssumption DEF Manifest, ExportType
  <2> QED BY <1>1, <2>1, <2>2, StartWritingSound DEF PlanFull
<1>2. CASE PlanIncremental(w)
  <2>1. PICK s \in Ids, parent \in Ids, e \in Exports :
          /\ parent \in Live /\ Export(parent).schema = e.schema
          /\ StartWriting(w, s, [parent |-> parent, export |-> e], e.objects)
    BY <1>2 DEF PlanIncremental
  <2>2. [parent |-> parent, export |-> e] \in Manifest /\ e.objects \subseteq Hashes
    BY RepositoryAssumption DEF Manifest, ExportType
  <2> QED BY <1>2, <2>1, <2>2, StartWritingSound DEF PlanIncremental
<1>3. CASE PlanCompact(w)
  <2>1. PICK s \in Ids, source \in Existing, created \in Dates :
          /\ Restorable(source)
          /\ \E O \in SUBSET ObjectsOf(Chain(source)) :
               StartWriting(w, s, Compacted(source, created, O), {})
    BY <1>3 DEF PlanCompact
  <2>2. PICK O \in SUBSET ObjectsOf(Chain(source)) :
          StartWriting(w, s, Compacted(source, created, O), {})
    BY <2>1
  <2>3. Compacted(source, created, O) \in Manifest
    BY <2>1, CompactedType DEF RepositoryInv
  <2>4. O \subseteq objects
    BY <2>1 DEF Restorable, Verified, ObjectsOf
  <2>5. Compacted(source, created, O).parent = NoParent
        /\ Compacted(source, created, O).export.objects = O
    BY DEF Compacted
  <2>6. step[w] = "locked"
    BY <1>3 DEF PlanCompact
  <2> QED BY <2>2, <2>3, <2>4, <2>5, <2>6, StartWritingSound
<1> QED BY <1>1, <1>2, <1>3

\* put_blob of a payload: its snapshot has no manifest yet.
LEMMA PutTableSound ==
  ASSUME RepositoryInv, NEW w \in Writers, NEW t \in Tables, PutTable(w, t)
  PROVE  Sound'
<1> USE DEF PutTable, RepositoryInv
<1>1. job[w].id \in Ids \ Existing /\ TablesSound(w) /\ ObjectsSound(w) /\ ParentSound(w)
  BY DEF DraftIsSound, Writing
<1>2. /\ job[w] \in Job
      /\ job'[w].id = job[w].id /\ job'[w].draft = job[w].draft
      /\ job'[w].files = job[w].files \ {t} /\ job'[w].blobs = job[w].blobs
  BY DEF TypeOK, Job
<1>3. Live' = Live
  BY DEF Live, Existing
<1>4. LiveAreSound' /\ NoCycles'
  <2>1. \A s \in Live : Verified(s) /\ (Parent(s) # NoParent => Parent(s) \in Live)
    BY DEF LiveAreSound
  <2>2. \A s \in Live : s # job[w].id
    BY <1>1, LiveType
  <2> QED BY <1>3, <2>1, <2>2, SoundPreserved DEF Verified, Put
<1>5. \A v \in Writers \ {w} : step'[v] = "idle"
  BY OthersIdle
<1>6. TablesSound(w)'
  BY <1>1, <1>2 DEF TablesSound, Put
<1>7. ObjectsSound(w)' /\ ParentSound(w)' /\ job'[w].id \in Ids \ Existing'
  BY <1>1, <1>2, <1>3 DEF ObjectsSound, ParentSound, Existing, Export
<1>8. DraftIsSound' /\ RemovalIsSafe'
  BY <1>5, <1>6, <1>7 DEF DraftIsSound, RemovalIsSafe, Writing
<1> QED BY <1>4, <1>8 DEF Sound

\* put_blob_stream_if_absent of an object
LEMMA PutObjectSound ==
  ASSUME RepositoryInv, NEW w \in Writers, NEW h \in Hashes, PutObject(w, h)
  PROVE  Sound'
<1> USE DEF PutObject, RepositoryInv
<1>1. /\ job[w].id \in Ids \ Existing /\ TablesSound(w) /\ ObjectsSound(w) /\ ParentSound(w)
      /\ job[w].files = {}
  BY DEF DraftIsSound, Writing
<1>2. /\ job[w] \in Job
      /\ job'[w].id = job[w].id /\ job'[w].draft = job[w].draft
      /\ job'[w].files = job[w].files /\ job'[w].blobs = job[w].blobs \ {h}
  BY DEF TypeOK, Job
<1>3. Live' = Live
  BY DEF Live, Existing
<1>4. LiveAreSound' /\ NoCycles'
  <2>1. \A s \in Live : Verified(s) /\ (Parent(s) # NoParent => Parent(s) \in Live)
    BY DEF LiveAreSound
  <2> QED BY <1>3, <2>1, SoundPreserved DEF Verified
<1>5. \A v \in Writers \ {w} : step'[v] = "idle"
  BY OthersIdle
<1>6. TablesSound(w)' /\ ObjectsSound(w)'
  BY <1>1, <1>2 DEF TablesSound, ObjectsSound
<1>7. ParentSound(w)' /\ job'[w].id \in Ids \ Existing'
  BY <1>1, <1>2, <1>3 DEF ParentSound, Existing, Export
<1>8. DraftIsSound' /\ RemovalIsSafe'
  BY <1>1, <1>2, <1>5, <1>6, <1>7 DEF DraftIsSound, RemovalIsSafe, Writing
<1> QED BY <1>4, <1>8 DEF Sound

\* The steps between the two kinds of put, and those that change no blob and
\* leave nobody at work.
LEMMA BookkeepingSound ==
  ASSUME RepositoryInv, NEW w \in Writers,
         TablesWritten(w) \/ ObjectsWritten(w) \/ EndSweep(w) \/ Fail(w)
           \/ Acquire(w) \/ Release(w) \/ Crash(w)
  PROVE  Sound'
<1> USE DEF RepositoryInv, Goto, Return, repository
<1>1. UNCHANGED <<manifests, payload, objects, doomed>>
  BY DEF TablesWritten, ObjectsWritten, EndSweep, Fail, Acquire, Release, Crash
<1>2. Live' = Live /\ LiveAreSound' /\ NoCycles'
  BY <1>1, SameBlobs
<1>3. CASE TablesWritten(w) \/ ObjectsWritten(w)
  <2> USE <1>3 DEF TablesWritten, ObjectsWritten
  <2>1. step[w] # "idle" /\ Writing(w) /\ job' = job /\ step'[w] \in {"objects", "commit"}
    BY DEF Writing, TypeOK
  <2>2. \A v \in Writers \ {w} : step'[v] = "idle"
    BY <2>1, OthersIdle DEF TypeOK
  <2>3. /\ job'[w].id \in Ids \ Existing'
        /\ TablesSound(w)' /\ ObjectsSound(w)' /\ ParentSound(w)'
    BY <1>1, <1>2, <2>1 DEF DraftIsSound, Existing, TablesSound, ObjectsSound, ParentSound, Export
  <2>4. /\ job'[w].files = {}
        /\ step'[w] = "commit" => job'[w].blobs = {}
    BY <2>1 DEF DraftIsSound, TypeOK
  <2>5. DraftIsSound' /\ RemovalIsSafe'
    BY <2>1, <2>2, <2>3, <2>4 DEF DraftIsSound, RemovalIsSafe, Writing
  <2> QED BY <1>2, <2>5 DEF Sound
<1>4. CASE EndSweep(w) \/ Fail(w) \/ Acquire(w) \/ Release(w) \/ Crash(w)
  <2>1. \A v \in Writers : step'[v] \in {"idle", "locked", "unlock"}
    <3>1. CASE Acquire(w)
      BY <3>1 DEF Acquire, Lock!Acquire, OnlyHolderWorks, TypeOK
    <3>2. CASE ~Acquire(w)
      <4>1. step[w] # "idle"
        BY <1>4, <3>2 DEF EndSweep, Fail, Release, Crash
      <4>2. \A v \in Writers \ {w} : step[v] = "idle"
        BY <4>1, OthersIdle
      <4> QED BY <1>4, <3>2, <4>2 DEF EndSweep, Fail, Release, Crash, TypeOK
    <3> QED BY <3>1, <3>2
  <2> QED BY <1>2, <2>1, QuietIsSafe DEF Sound
<1> QED BY <1>3, <1>4

\* write_manifest: the snapshot becomes a live one, complete and with its parent.
LEMMA CommitSound ==
  ASSUME RepositoryInv, NEW w \in Writers, WriteManifest(w)
  PROVE  Sound'
<1> USE DEF WriteManifest, Goto, Return, RepositoryInv
<1>id. PICK id : id = job[w].id
  OBVIOUS
<1>m. PICK m : m = job[w].draft
  OBVIOUS
<1> USE <1>id, <1>m
<1>1. /\ id \in Ids \ Existing /\ TablesSound(w) /\ ObjectsSound(w) /\ ParentSound(w)
      /\ job[w].files = {} /\ job[w].blobs = {}
      /\ m \in Manifest
  BY DEF DraftIsSound, Writing, TypeOK, Job
<1>2. /\ manifests'[id] = m
      /\ \A s \in Existing : manifests'[s] = manifests[s]
      /\ Existing' = Existing \union {id}
  BY <1>1 DEF Put, Existing
<1>3. Live' = Live \union {id} /\ id \notin Live /\ Live \subseteq Existing
  BY <1>1, <1>2 DEF Live, TypeOK, Existing
<1>4. /\ \A s \in Live : Parent(s)' = Parent(s) /\ Export(s)' = Export(s)
      /\ Parent(id)' = m.parent /\ Export(id)' = m.export
  BY <1>2, <1>3 DEF Parent, Export
<1>5. \A s \in Live' : Verified(s)'
  <2>1. \A s \in Live : Verified(s)'
    BY <1>2, <1>3, <1>4 DEF LiveAreSound, Verified, ContentOf
  <2>2. Verified(id)'
    BY <1>1, <1>2, <1>4 DEF TablesSound, ObjectsSound, Verified
  <2> QED BY <1>3, <2>1, <2>2
<1>6. LiveAreSound'
  <2>1. ASSUME NEW s \in Live, Parent(s) # NoParent
        PROVE  /\ Parent(s) \in Live
               /\ manifests'[Parent(s)].export.schema = Export(s).schema
    <3>1. Parent(s) \in Live /\ Export(Parent(s)).schema = Export(s).schema
      BY <2>1 DEF LiveAreSound
    <3>2. manifests'[Parent(s)] = manifests[Parent(s)]
      BY <3>1, <1>2, <1>3
    <3> QED BY <3>1, <3>2 DEF Export
  <2>2. ASSUME m.parent # NoParent
        PROVE  /\ m.parent \in Live
               /\ manifests'[m.parent].export.schema = m.export.schema
    <3>1. m.parent \in Live /\ Export(m.parent).schema = m.export.schema
      BY <2>2, <1>1 DEF ParentSound
    <3>2. manifests'[m.parent] = manifests[m.parent]
      BY <3>1, <1>2, <1>3
    <3> QED BY <3>1, <3>2 DEF Export
  <2> HIDE <1>id, <1>m
      DEF WriteManifest, Goto, Return, RepositoryInv
  <2>3. ASSUME NEW s \in Live', Parent(s)' # NoParent
        PROVE  Parent(s)' \in Live' /\ Export(Parent(s))'.schema = Export(s)'.schema
    <3>1. CASE s \in Live
      <4>1. /\ Parent(s)' = Parent(s) /\ Export(s)' = Export(s)
            /\ Parent(s) # NoParent
        BY <3>1, <2>3, <1>4
      <4>2. Parent(s) \in Live /\ manifests'[Parent(s)].export.schema = Export(s).schema
        BY <4>1, <3>1, <2>1
      <4>3. Export(Parent(s))' = manifests'[Parent(s)'].export
        BY DEF Export
      <4> QED BY <4>1, <4>2, <4>3, <1>3
    <3>2. CASE s = id
      <4>1. Parent(s)' = m.parent /\ Export(s)' = m.export /\ m.parent # NoParent
        BY <3>2, <2>3, <1>4
      <4>2. m.parent \in Live /\ manifests'[m.parent].export.schema = m.export.schema
        BY <4>1, <2>2
      <4>3. Export(Parent(s))' = manifests'[Parent(s)'].export
        BY DEF Export
      <4> QED BY <4>1, <4>2, <4>3, <1>3
    <3> QED BY <3>1, <3>2, <1>3
  <2>4. LiveAreSound' <=>
          \A s \in Live' :
            /\ Verified(s)'
            /\ Parent(s)' # NoParent =>
                 Parent(s)' \in Live' /\ Export(Parent(s))'.schema = Export(s)'.schema
    BY DEF LiveAreSound
  <2> QED BY <1>5, <2>3, <2>4
<1>7. NoCycles'
  <2>1. ASSUME NEW S \in SUBSET Live', S # {} PROVE \E s \in S : Parent(s)' \notin S
    <3>1. CASE S \ {id} = {}
      <4>1. S = {id} /\ m.parent # id
        BY <1>1, <1>3, <2>1, <3>1, RepositoryAssumption DEF ParentSound
      <4> QED BY <1>4, <4>1
    <3>2. CASE S \ {id} # {}
      <4>1. S \ {id} \in SUBSET Live
        BY <1>3
      <4>2. PICK s \in S \ {id} : Parent(s) \notin S \ {id}
        BY <3>2, <4>1 DEF NoCycles
      <4>3. Parent(s) # id
        BY <1>1, <1>3, <4>1, RepositoryAssumption DEF LiveAreSound
      <4> QED BY <1>4, <4>1, <4>2, <4>3
    <3> QED BY <3>1, <3>2
  <2> QED BY <2>1 DEF NoCycles
<1>8. DraftIsSound' /\ RemovalIsSafe'
  <2>1. \A v \in Writers \ {w} : step[v] = "idle"
    BY OthersIdle
  <2>2. \A v \in Writers : step'[v] \in {"idle", "unlock"}
    BY <2>1 DEF TypeOK
  <2> QED BY <2>2, QuietIsSafe
<1> QED BY <1>6, <1>7, <1>8 DEF Sound

-----------------------------------------------------------------------------
(* Prune and delete_snapshot.                                              *)

\* An operation that sets out to remove snapshots nobody builds on, and to
\* keep the objects of the others, has started safely.
LEMMA RemovalStarts ==
  ASSUME RepositoryInv, NEW w \in Writers, step[w] = "locked",
         NEW expired \in SUBSET Existing, NEW kept \in SUBSET Existing,
         StartRemoval(w, expired, kept),
         Live \ expired \subseteq kept,
         \A s \in Live \ expired : Parent(s) # NoParent => Parent(s) \notin expired
  PROVE  Sound'
<1> USE DEF RepositoryInv, repository, StartRemoval, Goto
<1>1. job'[w].expired = expired /\ job'[w].reachable = ObjectsOf(kept) /\ job'[w].files = {}
  BY NoJobType DEF TypeOK, Job, NoJob
<1>2. Live' = Live \ expired
  BY DEF Live, Existing
<1>3. \A s \in Live' : Export(s)' = Export(s)
  BY DEF Export
<1>4. LiveAreSound' /\ NoCycles'
  <2>1. \A s \in Live : Verified(s) /\ (Parent(s) # NoParent => Parent(s) \in Live)
    BY DEF LiveAreSound
  <2> QED BY <1>2, <2>1, SoundPreserved DEF Verified
<1>5. ObjectsOf(Live)' \subseteq ObjectsOf(kept)
  BY <1>2, <1>3 DEF ObjectsOf
<1>6. \A v \in Writers \ {w} : step'[v] = "idle"
  BY OthersIdle DEF TypeOK
<1>7. step'[w] = "expire"
  BY DEF TypeOK
<1>8. DraftIsSound'
  BY <1>6, <1>7 DEF DraftIsSound, Writing
<1>9. RemovalIsSafe'
  BY <1>1, <1>2, <1>5, <1>6, <1>7 DEF RemovalIsSafe
<1> QED BY <1>4, <1>8, <1>9 DEF Sound

\* prune keeps the chains of the selected snapshots, which are closed under
\* parents; delete_snapshot refuses a snapshot that has children.
LEMMA BeginSound ==
  ASSUME RepositoryInv, NEW w \in Writers, BeginPrune(w) \/ BeginDelete(w)
  PROVE  Sound'
<1> USE DEF RepositoryInv
<1>1. CASE BeginPrune(w)
  <2>1. PICK keep \in Keeps :
          /\ \A s \in Selected(keep) : Loadable(s)
          /\ StartRemoval(w, Existing \ Retained(keep), Retained(keep))
    BY <1>1 DEF BeginPrune
  <2>2. Retained(keep) \subseteq Existing
    BY <2>1 DEF Retained, Loadable, Fits
  <2>3. \A s \in Retained(keep) : Parent(s) # NoParent => Parent(s) \in Retained(keep)
    BY <2>2, ChainClosed DEF Retained, ParentClosed, Selected, TypeOK, Existing
  <2>4. Live \ (Existing \ Retained(keep)) \subseteq Retained(keep)
    BY DEF Live
  <2>5. step[w] = "locked"
    BY <1>1 DEF BeginPrune
  <2> QED BY <2>1, <2>2, <2>3, <2>4, <2>5, RemovalStarts
<1>2. CASE BeginDelete(w)
  <2>1. PICK s \in Existing :
          /\ \A child \in Existing : Parent(child) # s
          /\ StartRemoval(w, {s}, Existing \ {s})
    BY <1>2 DEF BeginDelete
  <2>2. Live \ {s} \subseteq Existing \ {s}
    BY DEF Live
  <2>3. \A x \in Live \ {s} : Parent(x) \notin {s}
    BY <2>1, <2>2
  <2>4. step[w] = "locked"
    BY <1>2 DEF BeginDelete
  <2> QED BY <2>1, <2>2, <2>3, <2>4, RemovalStarts
<1> QED BY <1>1, <1>2

\* Listing the next snapshot to remove, or the objects nobody refers to,
\* changes no blob; what it lists belongs to no live snapshot.
LEMMA ListSound ==
  ASSUME RepositoryInv, NEW w \in Writers,
         ListObjects(w) \/ \E s \in Ids : ListSnapshot(w, s)
  PROVE  Sound'
<1> USE DEF RepositoryInv, Goto, repository
<1>1. step[w] = "expire" /\ UNCHANGED <<manifests, payload, objects, doomed>>
  BY DEF ListObjects, ListSnapshot
<1>2. Live' = Live /\ LiveAreSound' /\ NoCycles'
  BY <1>1, SameBlobs
<1>3. ObjectsOf(Live)' = ObjectsOf(Live)
  BY <1>1, <1>2 DEF ObjectsOf, Export
<1>4. \A v \in Writers \ {w} : step'[v] = "idle"
  BY <1>1, OthersIdle DEF ListObjects, ListSnapshot, TypeOK
<1>5. /\ job[w].expired \intersect Live = {} /\ ObjectsOf(Live) \subseteq job[w].reachable
      /\ job[w] \in Job
  BY <1>1 DEF RemovalIsSafe, TypeOK
<1>6. CASE ListObjects(w)
  <2>1. job'[w].blobs = objects \ job[w].reachable /\ job'[w].reachable = job[w].reachable
        /\ step'[w] = "sweep"
    BY <1>6 DEF ListObjects, TypeOK, Job
  <2>2. DraftIsSound' /\ RemovalIsSafe'
    BY <1>3, <1>4, <1>5, <2>1 DEF DraftIsSound, RemovalIsSafe, Writing
  <2> QED BY <1>2, <2>2 DEF Sound
<1>7. ASSUME NEW s \in Ids, ListSnapshot(w, s) PROVE Sound'
  <2>1. /\ job'[w].id = s /\ s \in job[w].expired
        /\ job'[w].expired \subseteq job[w].expired
        /\ job'[w].reachable = job[w].reachable
        /\ step'[w] = "expire"
    <3>1. job'[w] = [job[w] EXCEPT !.id = s, !.expired = @ \ {s}, !.files = FilesOf(s)]
      BY <1>7 DEF ListSnapshot, TypeOK
    <3>2. job[w] \in Job /\ s \in job[w].expired /\ step' = step
      BY <1>7 DEF ListSnapshot, TypeOK
    <3> QED BY <1>1, <3>1, <3>2 DEF Job
  <2>2. DraftIsSound' /\ RemovalIsSafe'
    BY <1>2, <1>3, <1>4, <1>5, <2>1 DEF DraftIsSound, RemovalIsSafe, Writing
  <2> QED BY <1>2, <2>2 DEF Sound
<1> QED BY <1>6, <1>7

\* delete_blob of a file of a doomed snapshot
LEMMA DeleteFileSound ==
  ASSUME RepositoryInv, NEW w \in Writers, NEW f \in Files, DeleteFile(w, f)
  PROVE  Sound'
<1> USE DEF RepositoryInv
<1>1. /\ step[w] = "expire" /\ step' = step /\ objects' = objects
      /\ job[w] \in Job /\ job[w].id \notin Live
      /\ job[w].expired \intersect Live = {} /\ ObjectsOf(Live) \subseteq job[w].reachable
  BY DEF DeleteFile, RemovalIsSafe, TypeOK
<1>2. /\ job'[w].id = job[w].id /\ job'[w].expired = job[w].expired
      /\ job'[w].reachable = job[w].reachable
  BY <1>1 DEF DeleteFile, TypeOK, Job
<1>3. /\ Live' = Live
      /\ \A s \in Live : manifests'[s] = manifests[s]
      /\ \A s \in Live, t \in Tables :
           <<s, t>> \in DOMAIN payload => /\ <<s, t>> \in DOMAIN payload'
                                          /\ payload'[<<s, t>>] = payload[<<s, t>>]
  <2>1. CASE f = ManifestFile
    BY <1>1, <2>1 DEF DeleteFile, Live, Existing, Remove
  <2>2. CASE f # ManifestFile
    BY <1>1, <2>2 DEF DeleteFile, Live, Existing, Remove
  <2> QED BY <2>1, <2>2
<1>4. LiveAreSound' /\ NoCycles'
  <2>1. \A s \in Live : Verified(s) /\ (Parent(s) # NoParent => Parent(s) \in Live)
    BY DEF LiveAreSound
  <2>2. \A s \in Live : Export(s).tables \subseteq Tables
    BY LiveType, ExportTypes DEF ExportType
  <2> QED BY <1>1, <1>3, <2>1, <2>2, SoundPreserved DEF Verified
<1>5. ObjectsOf(Live)' = ObjectsOf(Live)
  BY <1>3 DEF ObjectsOf, Export
<1>6. \A v \in Writers \ {w} : step'[v] = "idle"
  BY <1>1, OthersIdle
<1>7. DraftIsSound' /\ RemovalIsSafe'
  BY <1>1, <1>2, <1>3, <1>5, <1>6 DEF DraftIsSound, RemovalIsSafe, Writing
<1> QED BY <1>4, <1>7 DEF Sound

\* delete_blob of an object that no live snapshot refers to
LEMMA DeleteObjectSound ==
  ASSUME RepositoryInv, NEW w \in Writers, NEW h \in Hashes, DeleteObject(w, h)
  PROVE  Sound'
<1> USE DEF RepositoryInv, DeleteObject
<1>1. /\ ObjectsOf(Live) \subseteq job[w].reachable /\ job[w] \in Job
      /\ job[w].blobs \intersect job[w].reachable = {}
  BY DEF RemovalIsSafe, TypeOK
<1>2. job'[w].reachable = job[w].reachable /\ job'[w].blobs = job[w].blobs \ {h}
  BY <1>1 DEF TypeOK, Job
<1>3. Live' = Live
  BY DEF Live, Existing
<1>4. LiveAreSound' /\ NoCycles'
  <2>1. \A s \in Live : Verified(s) /\ (Parent(s) # NoParent => Parent(s) \in Live)
    BY DEF LiveAreSound
  <2>2. \A s \in Live : Export(s).objects \subseteq objects'
    BY <1>1, <2>1 DEF Verified, ObjectsOf
  <2> QED BY <1>3, <2>1, <2>2, SoundPreserved DEF Verified
<1>5. ObjectsOf(Live)' = ObjectsOf(Live)
  BY <1>3 DEF ObjectsOf, Export
<1>6. \A v \in Writers \ {w} : step'[v] = "idle"
  BY OthersIdle
<1>7. DraftIsSound' /\ RemovalIsSafe'
  BY <1>1, <1>2, <1>5, <1>6 DEF DraftIsSound, RemovalIsSafe, Writing
<1> QED BY <1>4, <1>7 DEF Sound

-----------------------------------------------------------------------------
LEMMA SoundInductive ==
  ASSUME FreshIds, CheckedParents, RepositoryInv, [Next]_vars
  PROVE  RepositoryInv'
<1>1. TypeOK' /\ OnlyHolderWorks'
  BY TypeInductive, ExclusionInductive DEF RepositoryInv
<1>2. CASE UNCHANGED vars
  BY <1>1, <1>2 DEF vars, RepositoryInv, LiveAreSound, Verified, Live, Existing, Parent, Export,
       NoCycles, DraftIsSound, Writing, TablesSound, ObjectsSound, ParentSound, RemovalIsSafe,
       ObjectsOf
<1>3. ASSUME NEW w \in Writers, Write(w) PROVE Sound'
  BY <1>3, PlanSound, PutTableSound, PutObjectSound, BookkeepingSound, CommitSound DEF Write
<1>4. ASSUME NEW w \in Writers, Collect(w) PROVE Sound'
  BY <1>4, BeginSound, ListSound, DeleteFileSound, DeleteObjectSound, BookkeepingSound DEF Collect
<1>5. ASSUME NEW w \in Writers, Acquire(w) \/ Fail(w) \/ Release(w) \/ Crash(w) PROVE Sound'
  BY <1>5, BookkeepingSound
<1> QED BY <1>1, <1>2, <1>3, <1>4, <1>5 DEF Next, Sound, RepositoryInv

\* The whole inductive invariant: an exclusive lock, live snapshots that are
\* complete and lead to a full one, drafts whose payload is where the manifest
\* will say it is, and removals that stay clear of both.
THEOREM RepositoryInvariant == FreshIds /\ CheckedParents => (Spec => []RepositoryInv)
<1> SUFFICES ASSUME FreshIds, CheckedParents PROVE Spec => []RepositoryInv
  OBVIOUS
<1>1. Init => RepositoryInv
  <2> SUFFICES ASSUME Init PROVE RepositoryInv
    OBVIOUS
  <2>1. TypeOK
    BY InitiallyTyped
  <2>2. Live = {}
    BY DEF Init, Live, Existing
  <2> QED BY <2>1, <2>2 DEF Init, RepositoryInv, OnlyHolderWorks, LiveAreSound, NoCycles,
                        DraftIsSound, RemovalIsSafe, Writing
<1>2. RepositoryInv /\ [Next]_vars => RepositoryInv'
  BY SoundInductive
<1> QED BY <1>1, <1>2, PTL DEF Spec

\* A snapshot whose manifest is written stays restorable until somebody asks
\* to remove it, whatever fails or dies in between.
THEOREM AlwaysRestorable == FreshIds /\ CheckedParents => (Spec => []SnapshotsRestorable)
<1> SUFFICES ASSUME FreshIds, CheckedParents PROVE Spec => []SnapshotsRestorable
  OBVIOUS
<1>1. Spec => []RepositoryInv
  BY RepositoryInvariant
<1>2. RepositoryInv => SnapshotsRestorable
  BY SoundIsRestorable DEF RepositoryInv, SnapshotsRestorable
<1> QED BY <1>1, <1>2, PTL

-----------------------------------------------------------------------------
(* The repository implements the catalog of BackupCatalog.                  *)

Entry(s) == [parent |-> Parent(s), at |-> Export(s).at]

\* All live snapshots can be restored, so that they are what the catalog holds.
CatalogIsLive == Catalog = [s \in Live |-> Entry(s)]

LEMMA CatalogOfSound == RepositoryInv => CatalogIsLive
<1> SUFFICES ASSUME RepositoryInv PROVE CatalogIsLive
  OBVIOUS
<1>1. \A s \in Live : Restorable(s)
  BY SoundIsRestorable DEF RepositoryInv
<1>2. {x \in Live : Restorable(x)} = Live
  BY <1>1
<1> QED BY <1>2 DEF CatalogIsLive, Catalog, Entry

\* Most steps touch no manifest: the catalog does not see them.
LEMMA UnseenSteps ==
  ASSUME CatalogIsLive, CatalogIsLive', UNCHANGED <<manifests, doomed>>
  PROVE  UNCHANGED <<Catalog, doomed>>
<1>1. Live' = Live
  BY DEF Live, Existing
<1>2. \A s \in Live : Entry(s)' = Entry(s)
  BY DEF Entry, Parent, Export
<1> QED BY <1>1, <1>2 DEF CatalogIsLive

\* The last put of a backup publishes the snapshot.
LEMMA WritePublishes ==
  ASSUME RepositoryInv, CatalogIsLive, CatalogIsLive', NEW w \in Writers, WriteManifest(w)
  PROVE  Promise!Next
<1>0. PICK id, m : id = job[w].id /\ m = job[w].draft
  OBVIOUS
<1> DEFINE entry == [parent |-> m.parent, at |-> m.export.at]
<1>1. /\ id \in Ids \ Existing /\ m \in Manifest
      /\ m.parent # NoParent => m.parent \in Live
  BY <1>0 DEF RepositoryInv, DraftIsSound, Writing, WriteManifest, ParentSound, TypeOK, Job
<1>2. entry \in Promise!Entry
  BY <1>1 DEF Promise!Entry, Manifest, ExportType
<1>3. manifests' = Put(manifests, id, m) /\ doomed' = doomed \ {id}
  BY <1>0 DEF WriteManifest
<1>4. Existing' = Existing \union {id}
  BY <1>3 DEF Existing, Put
<1>5. Live' = Live \union {id} /\ id \notin Live
  BY <1>1, <1>3, <1>4 DEF Live
<1>6. \A s \in Live : Entry(s)' = Entry(s)
  BY <1>1, <1>3 DEF Entry, Parent, Export, Put, Live, Existing
<1>7. Entry(id)' = entry
  BY <1>3 DEF Entry, Parent, Export, Put
<1>8. Promise!Publish(id, entry)
  <2> HIDE DEF entry
  <2>1. id \notin DOMAIN Catalog
    BY <1>5 DEF CatalogIsLive
  <2>2. entry.parent \in DOMAIN Catalog \union {NoParent}
    BY <1>1 DEF CatalogIsLive, entry
  <2>3. Catalog' = [x \in DOMAIN Catalog \union {id} |-> IF x = id THEN entry ELSE Catalog[x]]
    BY <1>5, <1>6, <1>7 DEF CatalogIsLive
  <2> QED BY <1>3, <2>1, <2>2, <2>3 DEF Promise!Publish
<1>9. id \in Ids \ DOMAIN Catalog
  BY <1>1, <1>8 DEF Promise!Publish
<1> QED BY <1>2, <1>8, <1>9 DEF Promise!Next

\* prune and delete_snapshot retire what they are about to remove; no snapshot
\* that stays builds on it.
LEMMA RemovalRetires ==
  ASSUME RepositoryInv, RepositoryInv', CatalogIsLive, CatalogIsLive',
         NEW w \in Writers, BeginPrune(w) \/ BeginDelete(w)
  PROVE  Promise!Next
<1>1. PICK expired \in SUBSET Ids : doomed' = doomed \union expired /\ manifests' = manifests
  <2>1. Existing \subseteq Ids
    BY DEF RepositoryInv, TypeOK, Existing
  <2>2. \E expired \in SUBSET Existing : \E kept : StartRemoval(w, expired, kept)
    BY Zenon DEF BeginPrune, BeginDelete
  <2> QED BY <2>1, <2>2 DEF StartRemoval, repository
<1>2. Live' = Live \ expired
  BY <1>1 DEF Live, Existing
<1>3. \A s \in Live' : Entry(s)' = Entry(s) /\ Parent(s)' = Parent(s)
  BY <1>1 DEF Entry, Parent, Export
<1>4. \A s \in Live' : Parent(s) \notin expired
  BY <1>2, <1>3, RepositoryAssumption DEF RepositoryInv, LiveAreSound
<1>5. DOMAIN Catalog = Live /\ DOMAIN Catalog \ expired = Live'
  BY <1>2 DEF CatalogIsLive
<1>6. \A s \in Live : Catalog[s].parent = Parent(s)
  BY DEF CatalogIsLive, Entry
<1>7. Catalog' = [s \in DOMAIN Catalog \ expired |-> Catalog[s]]
  BY <1>2, <1>3, <1>5 DEF CatalogIsLive
<1>8. Promise!Retire(expired)
  BY <1>1, <1>2, <1>4, <1>5, <1>6, <1>7 DEF Promise!Retire
<1> QED BY <1>8 DEF Promise!Next

\* The catalog forgets a retired snapshot when its manifest is deleted.
LEMMA DeletionForgets ==
  ASSUME RepositoryInv, CatalogIsLive, CatalogIsLive', NEW w \in Writers, NEW f \in Files,
         DeleteFile(w, f)
  PROVE  [Promise!Next]_<<Catalog, doomed>>
<1>1. CASE f # ManifestFile
  BY <1>1, UnseenSteps DEF DeleteFile
<1>2. CASE f = ManifestFile
  <2> DEFINE id == job[w].id
  <2>1. manifests' = Remove(manifests, id) /\ doomed' = doomed \ {id}
    BY <1>2 DEF DeleteFile
  <2>2. id \notin Live
    BY DEF DeleteFile, RepositoryInv, RemovalIsSafe
  <2>3. Live' = Live
    BY <2>1, <2>2 DEF Live, Existing, Remove
  <2>4. \A s \in Live : Entry(s)' = Entry(s)
    BY <2>1, <2>2 DEF Entry, Parent, Export, Remove, Live, Existing
  <2>5. Catalog' = Catalog
    BY <2>3, <2>4 DEF CatalogIsLive
  <2>6. CASE id \in doomed
    <3>1. id \in Ids
      BY <2>6 DEF RepositoryInv, TypeOK
    <3> QED BY <2>1, <2>5, <2>6, <3>1 DEF Promise!Next, Promise!Forget
  <2>7. CASE id \notin doomed
    BY <2>1, <2>5, <2>7
  <2> QED BY <2>6, <2>7
<1> QED BY <1>1, <1>2

\* Every blob call of every operation is a step of the catalog, or none.
LEMMA StepPromised ==
  ASSUME RepositoryInv, RepositoryInv', CatalogIsLive, CatalogIsLive', [Next]_vars
  PROVE  [Promise!Next]_<<Catalog, doomed>>
<1>1. CASE UNCHANGED vars
  BY <1>1, UnseenSteps DEF vars
<1>2. ASSUME NEW w \in Writers, Write(w) PROVE [Promise!Next]_<<Catalog, doomed>>
  <2>1. CASE WriteManifest(w)
    BY <2>1, WritePublishes
  <2>2. ASSUME ~WriteManifest(w) PROVE UNCHANGED <<manifests, doomed>>
    BY <1>2, <2>2 DEF Write, PlanFull, PlanIncremental, PlanCompact, StartWriting, repository,
         PutTable, TablesWritten, PutObject, ObjectsWritten
  <2> QED BY <2>1, <2>2, UnseenSteps
<1>3. ASSUME NEW w \in Writers, Collect(w) PROVE [Promise!Next]_<<Catalog, doomed>>
  <2>1. CASE BeginPrune(w) \/ BeginDelete(w)
    BY <2>1, RemovalRetires
  <2>2. CASE \E f \in Files : DeleteFile(w, f)
    BY <2>2, DeletionForgets
  <2>3. CASE \/ \E s \in Ids : ListSnapshot(w, s)
             \/ ListObjects(w)
             \/ \E h \in Hashes : DeleteObject(w, h)
             \/ EndSweep(w)
    BY <2>3, UnseenSteps DEF ListSnapshot, ListObjects, DeleteObject, EndSweep, repository
  <2> QED BY <1>3, <2>1, <2>2, <2>3 DEF Collect
<1>4. ASSUME NEW w \in Writers, Acquire(w) \/ Fail(w) \/ Release(w) \/ Crash(w)
      PROVE  [Promise!Next]_<<Catalog, doomed>>
  BY <1>4, UnseenSteps DEF Acquire, Fail, Release, Crash, repository
<1> QED BY <1>1, <1>2, <1>3, <1>4 DEF Next

\* The repository promises what BackupCatalog says: a snapshot appears whole and
\* at once, on a parent that is there, keeps its content, and goes only when it is
\* retired, whatever backup, compaction, prune and delete_snapshot fail to do.
THEOREM RepositoryImplementsCatalog ==
  FreshIds /\ CheckedParents => (Spec => ImplementsCatalog)
<1> SUFFICES ASSUME FreshIds, CheckedParents PROVE Spec => Promise!Spec
  BY DEF ImplementsCatalog
<1>1. Spec => []RepositoryInv
  BY RepositoryInvariant
<1>2. RepositoryInv => CatalogIsLive
  BY CatalogOfSound
<1>3. Init /\ CatalogIsLive => Promise!Init
  BY DEF Init, CatalogIsLive, Live, Existing, Promise!Init
<1>4. RepositoryInv /\ RepositoryInv' /\ CatalogIsLive /\ CatalogIsLive' /\ [Next]_vars
        => [Promise!Next]_<<Catalog, doomed>>
  BY StepPromised
<1> QED BY <1>1, <1>2, <1>3, <1>4, PTL DEF Spec, Promise!Spec

-----------------------------------------------------------------------------
(* Removal, whatever the snapshots are that it works among: nothing here    *)
(* asks for parents that were checked.                                      *)

\* The snapshots that the writer has still to remove, wholly or in part, and
\* those that are to stay.
Leaving(w) == job[w].expired \union (IF job[w].files = {} THEN {} ELSE {job[w].id})
Staying(w) == Existing \ Leaving(w)

\* What is marked as reachable is exactly what those that stay refer to, none of
\* them builds on one that leaves, and nothing that leaves is live.
MarksHold(w) ==
  /\ job[w].reachable = ObjectsOf(Staying(w))
  /\ \A x \in Staying(w) : Parent(x) \notin Leaving(w)
  /\ Leaving(w) \intersect Live = {}

\* Nothing of the snapshots to remove is forgotten.
FilesListed(w) ==
  /\ \A s \in job[w].removed : s \in Leaving(w) \/ FilesOf(s) = {}
  /\ job[w].files # {} => FilesOf(job[w].id) \subseteq job[w].files

\* Once the files are gone, the objects to delete are those that are not marked.
ObjectsListed(w) ==
  step[w] = "sweep" =>
    /\ Leaving(w) = {}
    /\ objects \subseteq job[w].reachable \union job[w].blobs
    /\ job[w].blobs \intersect job[w].reachable = {}

Removing(w) == step[w] \in {"expire", "sweep"}
OnTrack(w) == MarksHold(w) /\ FilesListed(w) /\ ObjectsListed(w)
RemovalInv == \A w \in Writers : Removing(w) => OnTrack(w)

\* Only the writer of this step can be removing.
LEMMA RemovalOfOne ==
  ASSUME TypeOK, OnlyHolderWorks, NEW w \in Writers, Collect(w), Removing(w)' => OnTrack(w)'
  PROVE  RemovalInv'
<1>1. step[w] # "idle"
  BY WorkReturns
<1>2. ASSUME NEW v \in Writers \ {w} PROVE ~Removing(v)'
  <2>1. step'[v] = "idle"
    BY <1>1, OthersIdle, WorkReturns
  <2> QED BY <2>1 DEF Removing
<1> QED BY <1>2 DEF RemovalInv

\* As long as the same snapshots stay and are not touched, the marks hold.
LEMMA MarksStay ==
  ASSUME TypeOK, NEW w \in Writers, MarksHold(w),
         Staying(w)' = Staying(w), \A x \in Staying(w) : manifests'[x] = manifests[x],
         Leaving(w)' \subseteq Leaving(w), Live' \subseteq Live,
         job'[w].reachable = job[w].reachable
  PROVE  MarksHold(w)'
<1>1. PICK S, gone : S = Staying(w) /\ gone = Leaving(w)'
  OBVIOUS
<1>2. \A x \in S : Parent(x)' = Parent(x) /\ Export(x)' = Export(x)
  BY <1>1 DEF Parent, Export
<1>3. ObjectsOf(S)' = ObjectsOf(S)
  BY <1>2 DEF ObjectsOf
<1>4. (job[w].reachable = ObjectsOf(Staying(w)))'
  <2>1. ObjectsOf(Staying(w))' = ObjectsOf(S)'
    BY <1>1 DEF ObjectsOf
  <2> QED BY <1>1, <1>3, <2>1 DEF MarksHold
<1>5. (\A x \in Staying(w) : Parent(x) \notin Leaving(w))'
  BY <1>1, <1>2 DEF MarksHold
<1>6. (Leaving(w) \intersect Live = {})'
  BY DEF MarksHold
<1> QED BY <1>4, <1>5, <1>6 DEF MarksHold

\* prune keeps whole chains, and delete_snapshot refuses a snapshot with children.
LEMMA RemovalClosed ==
  ASSUME TypeOK, NEW w \in Writers, BeginPrune(w) \/ BeginDelete(w)
  PROVE  \E kept \in SUBSET Existing : /\ StartRemoval(w, Existing \ kept, kept)
                                       /\ \A x \in kept : Parent(x) \notin Existing \ kept
<1>1. CASE BeginPrune(w)
  <2>1. PICK keep \in Keeps :
          /\ \A s \in Selected(keep) : Loadable(s)
          /\ StartRemoval(w, Existing \ Retained(keep), Retained(keep))
    BY <1>1 DEF BeginPrune
  <2>2. Retained(keep) \subseteq Existing
    BY <2>1 DEF Retained, Loadable, Fits
  <2>3. \A x \in Retained(keep) : Parent(x) \in Retained(keep) \union {NoParent}
    BY <2>2, ChainClosed DEF Retained, ParentClosed, Selected, TypeOK, Existing
  <2>4. NoParent \notin Existing
    BY RepositoryAssumption DEF TypeOK, Existing
  <2>5. \A x \in Retained(keep) : Parent(x) \notin Existing \ Retained(keep)
    BY <2>3, <2>4
  <2> QED BY <2>1, <2>2, <2>5
<1>2. CASE BeginDelete(w)
  <2>1. PICK s \in Existing : /\ \A child \in Existing : Parent(child) # s
                              /\ StartRemoval(w, {s}, Existing \ {s})
    BY <1>2 DEF BeginDelete
  <2>2. {s} = Existing \ (Existing \ {s})
    OBVIOUS
  <2> QED BY <2>1, <2>2
<1> QED BY <1>1, <1>2

LEMMA BeginOnTrack ==
  ASSUME TypeOK, OnlyHolderWorks, NEW w \in Writers, BeginPrune(w) \/ BeginDelete(w)
  PROVE  RemovalInv'
<1>1. PICK kept \in SUBSET Existing : /\ StartRemoval(w, Existing \ kept, kept)
                                      /\ \A x \in kept : Parent(x) \notin Existing \ kept
  BY RemovalClosed
<1>2. /\ manifests' = manifests /\ step' = [step EXCEPT ![w] = "expire"]
      /\ doomed' = doomed \union (Existing \ kept)
      /\ job' = [job EXCEPT ![w] = [NoJob EXCEPT !.removed = Existing \ kept,
                                      !.expired = Existing \ kept, !.reachable = ObjectsOf(kept)]]
  BY <1>1 DEF StartRemoval, Goto, repository
<1>3. /\ job'[w].expired = Existing \ kept /\ job'[w].removed = Existing \ kept
      /\ job'[w].files = {} /\ job'[w].reachable = ObjectsOf(kept) /\ step'[w] = "expire"
  BY <1>2 DEF TypeOK, NoJob
<1>4. Leaving(w)' = Existing \ kept /\ Staying(w)' = kept
  BY <1>2, <1>3 DEF Leaving, Staying, Existing
<1>5. \A x \in kept : Parent(x)' = Parent(x) /\ Export(x)' = Export(x)
  BY <1>2 DEF Parent, Export
<1>6. MarksHold(w)'
  <2>1. ObjectsOf(Staying(w))' = ObjectsOf(kept)
    BY <1>4, <1>5 DEF ObjectsOf
  <2>2. (\A x \in Staying(w) : Parent(x) \notin Leaving(w))'
    BY <1>1, <1>4, <1>5
  <2>3. (Leaving(w) \intersect Live = {})'
    BY <1>2, <1>4 DEF Live
  <2> QED BY <1>3, <2>1, <2>2, <2>3 DEF MarksHold
<1>7. FilesListed(w)' /\ ObjectsListed(w)'
  BY <1>3, <1>4 DEF FilesListed, ObjectsListed
<1>8. Collect(w)
  BY DEF Collect
<1> QED BY <1>6, <1>7, <1>8, RemovalOfOne DEF OnTrack

\* list_blobs of the next snapshot
LEMMA ListOnTrack ==
  ASSUME TypeOK, OnlyHolderWorks, RemovalInv, NEW w \in Writers, NEW s \in Ids, ListSnapshot(w, s)
  PROVE  RemovalInv'
<1>1. /\ step[w] = "expire" /\ step' = step /\ job[w] \in Job
      /\ job[w].files = {} /\ s \in job[w].expired
      /\ UNCHANGED <<manifests, payload, doomed>>
  BY DEF ListSnapshot, TypeOK, repository
<1>2. OnTrack(w)
  BY <1>1 DEF RemovalInv, Removing
<1>3. PICK expired, files : expired = job[w].expired /\ files = FilesOf(s)
  OBVIOUS
<1>4. job'[w] = [job[w] EXCEPT !.id = s, !.expired = expired \ {s}, !.files = files]
  BY <1>3 DEF ListSnapshot, TypeOK
<1>5. /\ job'[w].id = s /\ job'[w].expired = expired \ {s} /\ job'[w].files = files
      /\ job'[w].reachable = job[w].reachable /\ job'[w].removed = job[w].removed
  BY <1>1, <1>4 DEF Job
<1>6. Existing' = Existing /\ Live' = Live /\ \A x : FilesOf(x)' = FilesOf(x)
  BY <1>1 DEF Existing, Live, FilesOf
<1>7. Leaving(w) = expired /\ Leaving(w)' = IF files = {} THEN expired \ {s} ELSE expired
  BY <1>1, <1>3, <1>5 DEF Leaving
<1>8. files = {} => s \notin Existing
  BY <1>3 DEF FilesOf
<1>9. Staying(w)' = Staying(w)
  BY <1>6, <1>7, <1>8 DEF Staying
<1>10. MarksHold(w)'
  BY <1>1, <1>2, <1>5, <1>6, <1>7, <1>9, MarksStay DEF OnTrack
<1>11. FilesListed(w)'
  <2>1. ASSUME NEW x \in job[w].removed PROVE x \in Leaving(w)' \/ FilesOf(x) = {}
    BY <1>2, <1>3, <1>7, <2>1 DEF OnTrack, FilesListed
  <2> QED BY <1>3, <1>5, <1>6, <2>1 DEF FilesListed
<1>12. ObjectsListed(w)'
  BY <1>1 DEF ObjectsListed
<1>13. Collect(w)
  BY DEF Collect
<1> QED BY <1>10, <1>11, <1>12, <1>13, RemovalOfOne DEF OnTrack

\* delete_blob of one of its files
LEMMA FileOnTrack ==
  ASSUME TypeOK, OnlyHolderWorks, RemovalInv, NEW w \in Writers, NEW f \in Files, DeleteFile(w, f)
  PROVE  /\ RemovalInv'
         /\ Staying(w)' = Staying(w) /\ Live' = Live
         /\ \A x \in Staying(w) : manifests'[x] = manifests[x]
<1>1. /\ step[w] = "expire" /\ step' = step /\ job[w] \in Job /\ f \in job[w].files
  BY DEF DeleteFile, TypeOK
<1>2. OnTrack(w)
  BY <1>1 DEF RemovalInv, Removing
<1>3. PICK id, files : id = job[w].id /\ files = job[w].files
  OBVIOUS
<1>4. job'[w] = [job[w] EXCEPT !.files = files \ {f}]
  BY <1>3 DEF DeleteFile, TypeOK
<1>5. /\ job'[w].id = id /\ job'[w].expired = job[w].expired /\ job'[w].files = files \ {f}
      /\ job'[w].reachable = job[w].reachable /\ job'[w].removed = job[w].removed
  BY <1>1, <1>3, <1>4 DEF Job
<1>6. /\ FilesOf(id)' = FilesOf(id) \ {f}
      /\ \A x : x # id => FilesOf(x)' = FilesOf(x)
      /\ Existing' = Existing \ (IF f = ManifestFile THEN {id} ELSE {})
      /\ \A x \in Existing \ {id} : manifests'[x] = manifests[x]
      /\ doomed' = doomed \ (IF f = ManifestFile THEN {id} ELSE {})
  <2>1. CASE f = ManifestFile
    <3>1. manifests' = Remove(manifests, id) /\ doomed' = doomed \ {id} /\ payload' = payload
      BY <1>3, <2>1 DEF DeleteFile
    <3>2. Existing' = Existing \ {id} /\ \A x \in Existing \ {id} : manifests'[x] = manifests[x]
      BY <3>1 DEF Existing, Remove
    <3> QED BY <2>1, <3>1, <3>2, RepositoryAssumption DEF FilesOf
  <2>2. CASE f # ManifestFile
    <3>1. manifests' = manifests /\ doomed' = doomed /\ payload' = Remove(payload, <<id, f>>)
      BY <1>3, <2>2 DEF DeleteFile
    <3>2. DOMAIN payload' = DOMAIN payload \ {<<id, f>>}
      BY <3>1 DEF Remove
    <3> QED BY <2>2, <3>1, <3>2 DEF FilesOf, Existing
  <2> QED BY <2>1, <2>2
<1>7. id \in Leaving(w) /\ FilesOf(id) \subseteq files
  BY <1>1, <1>2, <1>3 DEF Leaving, OnTrack, FilesListed
<1>8. Leaving(w)' = IF files \ {f} = {} THEN job[w].expired ELSE Leaving(w)
  BY <1>1, <1>3, <1>5 DEF Leaving
<1>9. Leaving(w)' \subseteq Leaving(w) /\ Leaving(w) \subseteq Leaving(w)' \union {id}
  BY <1>1, <1>3, <1>8 DEF Leaving
<1>10. files \ {f} = {} => FilesOf(id)' = {} /\ id \notin Existing'
  <2>1. id \in Existing' => ManifestFile \in FilesOf(id)'
    BY DEF FilesOf
  <2> QED BY <1>6, <1>7, <2>1
<1>11. Staying(w)' = Staying(w)
  BY <1>6, <1>7, <1>8, <1>9, <1>10 DEF Staying
<1>12. Live' = Live
  BY <1>2, <1>6, <1>7 DEF Live, OnTrack, MarksHold
<1>13. \A x \in Staying(w) : manifests'[x] = manifests[x]
  BY <1>6, <1>7 DEF Staying
<1>14. MarksHold(w)'
  BY <1>2, <1>5, <1>9, <1>11, <1>12, <1>13, MarksStay DEF OnTrack
<1>15. FilesListed(w)'
  <2>1. ASSUME NEW x \in job[w].removed PROVE x \in Leaving(w)' \/ FilesOf(x)' = {}
    <3>1. x \in Leaving(w) \/ FilesOf(x) = {}
      BY <1>2 DEF OnTrack, FilesListed
    <3>2. CASE x = id
      BY <1>6, <1>7, <1>8, <1>10, <3>2
    <3>3. CASE x # id
      BY <1>6, <1>9, <3>1, <3>3
    <3> QED BY <3>2, <3>3
  <2>2. FilesOf(id)' \subseteq files \ {f}
    BY <1>6, <1>7
  <2> QED BY <1>5, <2>1, <2>2 DEF FilesListed
<1>16. ObjectsListed(w)'
  BY <1>1 DEF ObjectsListed
<1>17. Collect(w)
  BY DEF Collect
<1>18. RemovalInv'
  BY <1>14, <1>15, <1>16, <1>17, RemovalOfOne DEF OnTrack
<1> QED BY <1>11, <1>12, <1>13, <1>18

\* The objects that are not marked are listed and deleted one by one.
LEMMA SweepOnTrack ==
  ASSUME TypeOK, OnlyHolderWorks, RemovalInv, NEW w \in Writers,
         ListObjects(w) \/ \E h \in Hashes : DeleteObject(w, h)
  PROVE  RemovalInv'
<1>1. /\ job[w] \in Job /\ job \in [Writers -> Job] /\ step \in [Writers -> Steps]
      /\ Collect(w) /\ Removing(w)
  BY DEF TypeOK, Collect, ListObjects, DeleteObject, Removing
<1>2. OnTrack(w)
  BY <1>1 DEF RemovalInv
<1>3. UNCHANGED <<manifests, payload, doomed>> /\ step'[w] = "sweep"
  BY <1>1 DEF ListObjects, DeleteObject, Goto, repository
<1>4. /\ job'[w].reachable = job[w].reachable /\ job'[w].expired = job[w].expired
      /\ job'[w].files = job[w].files /\ job'[w].id = job[w].id
      /\ job'[w].removed = job[w].removed
  BY <1>1 DEF ListObjects, DeleteObject, Job
<1>5. Existing' = Existing /\ Live' = Live /\ \A x : FilesOf(x)' = FilesOf(x)
  BY <1>3 DEF Existing, Live, FilesOf
<1>6. Leaving(w)' = Leaving(w) /\ Staying(w)' = Staying(w)
  BY <1>4, <1>5 DEF Leaving, Staying
<1>7. MarksHold(w)'
  BY <1>2, <1>3, <1>4, <1>5, <1>6, MarksStay DEF OnTrack
<1>8. FilesListed(w)'
  BY <1>2, <1>4, <1>5, <1>6 DEF OnTrack, FilesListed
<1>9. ObjectsListed(w)'
  <2>1. CASE ListObjects(w)
    <3>1. /\ job[w].files = {} /\ job[w].expired = {} /\ objects' = objects
          /\ job'[w].blobs = objects \ job[w].reachable
      BY <1>1, <2>1 DEF ListObjects, repository, Job
    <3>2. Leaving(w) = {}
      BY <3>1 DEF Leaving
    <3> QED BY <1>4, <1>6, <3>1, <3>2 DEF ObjectsListed
  <2>2. ASSUME NEW h \in Hashes, DeleteObject(w, h) PROVE ObjectsListed(w)'
    <3>1. objects' = objects \ {h} /\ job'[w].blobs = job[w].blobs \ {h} /\ step[w] = "sweep"
      BY <1>1, <2>2 DEF DeleteObject, Job
    <3> QED BY <1>2, <1>4, <1>6, <3>1 DEF OnTrack, ObjectsListed
  <2> QED BY <2>1, <2>2
<1> QED BY <1>1, <1>7, <1>8, <1>9, RemovalOfOne DEF OnTrack

\* Every other step leaves nobody removing.
LEMMA OtherSteps ==
  ASSUME TypeOK, OnlyHolderWorks, NEW w \in Writers,
         Write(w) \/ EndSweep(w) \/ Acquire(w) \/ Fail(w) \/ Release(w) \/ Crash(w)
  PROVE  RemovalInv'
<1>1. step \in [Writers -> Steps]
  BY DEF TypeOK
<1>2. ~Removing(w)'
  <2>1. CASE Write(w)
    BY <1>1, <2>1 DEF Write, PlanFull, PlanIncremental, PlanCompact, StartWriting, PutTable,
         TablesWritten, PutObject, ObjectsWritten, WriteManifest, Return, Goto, Removing
  <2>2. CASE EndSweep(w) \/ Acquire(w) \/ Fail(w) \/ Release(w) \/ Crash(w)
    BY <1>1, <2>2 DEF EndSweep, Acquire, Fail, Release, Crash, Return, Goto, Removing
  <2> QED BY <2>1, <2>2
<1>3. ASSUME NEW v \in Writers \ {w} PROVE ~Removing(v)'
  <2>1. CASE Acquire(w)
    <3>1. step[v] = "idle"
      BY <2>1 DEF Acquire, Lock!Acquire, OnlyHolderWorks
    <3> QED BY <1>1, <2>1, <3>1 DEF Acquire, Goto, Removing
  <2>2. CASE Release(w) \/ Crash(w)
    <3>1. step[v] = "idle"
      BY <2>2, OthersIdle DEF Release, Crash
    <3> QED BY <1>1, <2>2, <3>1 DEF Release, Crash, Goto, Removing
  <2>3. CASE Write(w) \/ EndSweep(w) \/ Fail(w)
    <3>1. Write(w) \/ Collect(w) \/ Fail(w)
      BY <2>3 DEF Collect
    <3>2. step[w] # "idle" /\ step'[v] = step[v]
      BY <3>1, WorkReturns
    <3> QED BY <3>2, OthersIdle DEF Removing
  <2> QED BY <2>1, <2>2, <2>3
<1> QED BY <1>2, <1>3 DEF RemovalInv

LEMMA UnchangedOnTrack == RemovalInv /\ UNCHANGED vars => RemovalInv'
<1> SUFFICES ASSUME RemovalInv, UNCHANGED vars, NEW w \in Writers, Removing(w)' PROVE OnTrack(w)'
  BY DEF RemovalInv
<1>1. UNCHANGED <<manifests, payload, objects, doomed, step, job>>
  BY DEF vars
<1>2. OnTrack(w)
  BY <1>1 DEF RemovalInv, Removing
<1>3. Leaving(w)' = Leaving(w) /\ Staying(w)' = Staying(w)
  BY <1>1 DEF Leaving, Staying, Existing
<1>4. MarksHold(w)'
  BY <1>1, <1>2, <1>3 DEF OnTrack, MarksHold, ObjectsOf, Parent, Export, Live, Existing
<1>5. FilesListed(w)'
  BY <1>1, <1>2, <1>3 DEF OnTrack, FilesListed, FilesOf, Existing
<1>6. ObjectsListed(w)'
  BY <1>1, <1>2, <1>3 DEF OnTrack, ObjectsListed
<1> QED BY <1>4, <1>5, <1>6 DEF OnTrack

LEMMA RemovalInductive ==
  ASSUME TypeOK, OnlyHolderWorks, RemovalInv, [Next]_vars PROVE RemovalInv'
<1>1. ASSUME NEW w \in Writers, Collect(w) PROVE RemovalInv'
  BY <1>1, BeginOnTrack, ListOnTrack, FileOnTrack, SweepOnTrack, OtherSteps DEF Collect
<1> QED BY <1>1, UnchangedOnTrack, OtherSteps DEF Next

LEMMA RemovalHolds == Spec => [](TypeOK /\ OnlyHolderWorks /\ RemovalInv)
<1>1. Spec => []TypeOK
  BY TypeCorrect
<1>2. Init => OnlyHolderWorks /\ RemovalInv
  BY DEF Init, OnlyHolderWorks, RemovalInv, Removing
<1>3. TypeOK /\ OnlyHolderWorks /\ [Next]_vars => OnlyHolderWorks'
  BY ExclusionInductive
<1>4. TypeOK /\ OnlyHolderWorks /\ RemovalInv /\ [Next]_vars => RemovalInv'
  BY RemovalInductive
<1> QED BY <1>1, <1>2, <1>3, <1>4, PTL DEF Spec

\* prune and delete_snapshot that come to their end have left no payload and no
\* manifest of the snapshots they set out to remove, and no object blob that no
\* snapshot refers to: under an exclusive lock and nothing else.
THEOREM SweepsAreComplete == Spec => SweepIsComplete
<1>1. RemovalInv => \A w \in Writers : EndSweep(w) => Swept(w)
  <2> SUFFICES ASSUME RemovalInv, NEW w \in Writers, EndSweep(w) PROVE Swept(w)
    OBVIOUS
  <2>1. step[w] = "sweep" /\ job[w].blobs = {} /\ OnTrack(w)
    BY DEF EndSweep, RemovalInv, Removing
  <2>2. Leaving(w) = {} /\ Staying(w) = Existing
    BY <2>1 DEF OnTrack, ObjectsListed, Staying
  <2>3. \A s \in job[w].removed : FilesOf(s) = {}
    BY <2>1, <2>2 DEF OnTrack, FilesListed
  <2>4. objects \subseteq ObjectsOf(Existing)
    BY <2>1, <2>2 DEF OnTrack, ObjectsListed, MarksHold
  <2> QED BY <2>3, <2>4 DEF Swept
<1>2. RemovalInv /\ [Next]_vars => [\A w \in Writers : EndSweep(w) => Swept(w)]_vars
  BY <1>1
<1> QED BY <1>2, RemovalHolds, PTL DEF Spec, SweepIsComplete

-----------------------------------------------------------------------------
(* What can be restored stays so, also among snapshots that cannot.         *)

\* The walk of load_manifest_chain sees no more than the manifests of the chain,
\* and a restore of it no more than their blobs.
LEMMA ChainUntouched ==
  ASSUME TypeOK, NEW s \in Ids, Restorable(s),
         \A x \in Chain(s) :
           /\ x \in Existing' /\ manifests'[x] = manifests[x]
           /\ Export(x).objects \subseteq objects'
           /\ \A t \in Export(x).tables :
                <<x, t>> \in DOMAIN payload => /\ <<x, t>> \in DOMAIN payload'
                                               /\ payload'[<<x, t>>] = payload[<<x, t>>]
  PROVE  Restorable(s)'
<1>1. PICK C \in SUBSET Ids : C = Chain(s)
  BY ChainClosed
<1>2. s \in C /\ ParentClosed(C) /\ C \subseteq Existing /\ C \subseteq Existing'
  BY <1>1, ChainClosed DEF Restorable, Fits
<1>3. \A x \in C : Parent(x)' = Parent(x) /\ Export(x)' = Export(x)
  BY <1>1 DEF Parent, Export
<1>4. ParentClosed(C)'
  BY <1>2, <1>3 DEF ParentClosed
<1>5. ASSUME NEW D \in SUBSET Ids, s \in D, ParentClosed(D)' PROVE C \subseteq D
  <2>1. \A x \in D \intersect C : Parent(x) \in D \union {NoParent}
    BY <1>2, <1>3, <1>5 DEF ParentClosed
  <2>2. \A x \in D \intersect C : Parent(x) \in C \union {NoParent}
    BY <1>2 DEF ParentClosed
  <2>3. ParentClosed(D \intersect C)
    BY <2>1, <2>2 DEF ParentClosed
  <2>4. D \intersect C \in SUBSET Ids /\ s \in D \intersect C
    BY <1>2, <1>5
  <2> QED BY <1>1, <2>3, <2>4, ChainLeast
<1>6. Chain(s)' = C
  <2>1. Chain(s)' = {x \in Ids : \A D \in SUBSET Ids : s \in D /\ ParentClosed(D)' => x \in D}
    BY DEF Chain
  <2> QED BY <1>2, <1>4, <1>5, <2>1
<1>7. Fits(C)'
  BY <1>1, <1>2, <1>3 DEF Restorable, Fits
<1>8. \A x \in C : Verified(x)'
  BY <1>1, <1>3 DEF Restorable, Verified, ContentOf
<1> QED BY <1>6, <1>7, <1>8 DEF Restorable

\* The chain of a snapshot that stays does not lead to one that leaves.
LEMMA ChainStays ==
  ASSUME TypeOK, NEW w \in Writers, MarksHold(w), NEW s \in Live, Restorable(s)
  PROVE  Chain(s) \subseteq Staying(w)
<1>1. s \in Ids \ Leaving(w)
  BY LiveType DEF MarksHold
<1>2. ParentClosed(Ids \ Leaving(w))
  <2> SUFFICES ASSUME NEW x \in (Ids \ Leaving(w)) \intersect Existing
               PROVE  Parent(x) \in (Ids \ Leaving(w)) \union {NoParent}
    BY DEF ParentClosed
  <2>1. Parent(x) \in Ids \union {NoParent}
    BY DEF TypeOK, Existing, Parent, Manifest
  <2>2. x \in Staying(w)
    BY DEF Staying
  <2> QED BY <2>1, <2>2 DEF MarksHold
<1>3. Chain(s) \subseteq Ids \ Leaving(w)
  BY <1>1, <1>2, ChainLeast
<1>4. Chain(s) \subseteq Existing
  BY DEF Restorable, Fits
<1> QED BY <1>3, <1>4 DEF Staying

\* A backup writes under an id that has no manifest.
DraftIsNew == \A w \in Writers : Writing(w) => job[w].id \notin Existing

LEMMA StartWritingNew ==
  ASSUME FreshIds, TypeOK, OnlyHolderWorks, NEW w \in Writers, NEW s, NEW draft, NEW blobs,
         step[w] = "locked", StartWriting(w, s, draft, blobs)
  PROVE  DraftIsNew'
<1>1. job' = [job EXCEPT ![w] = [NoJob EXCEPT !.id = s, !.draft = draft,
                                   !.files = draft.export.tables, !.blobs = blobs]]
      /\ step' = [step EXCEPT ![w] = "tables"] /\ manifests' = manifests /\ s \notin Existing
  BY DEF StartWriting, Goto, repository
<1>2. job'[w].id = s
  BY <1>1 DEF TypeOK, NoJob
<1>3. \A v \in Writers \ {w} : step'[v] = "idle"
  BY <1>1, OthersIdle DEF TypeOK
<1> QED BY <1>1, <1>2, <1>3 DEF DraftIsNew, Writing, Existing

LEMMA NewInductive ==
  ASSUME FreshIds, TypeOK, OnlyHolderWorks, DraftIsNew, [Next]_vars PROVE DraftIsNew'
<1>1. step \in [Writers -> Steps] /\ job \in [Writers -> Job]
  BY DEF TypeOK
<1>2. ASSUME NEW w \in Writers, PlanFull(w) \/ PlanIncremental(w) \/ PlanCompact(w)
      PROVE  DraftIsNew'
  <2>1. step[w] = "locked"
    BY <1>2 DEF PlanFull, PlanIncremental, PlanCompact
  <2>2. \E s, draft, blobs : StartWriting(w, s, draft, blobs)
    <3>1. CASE PlanFull(w)
      BY <3>1, Zenon DEF PlanFull
    <3>2. CASE PlanIncremental(w)
      BY <3>2, Zenon DEF PlanIncremental
    <3>3. CASE PlanCompact(w)
      BY <3>3, Zenon DEF PlanCompact
    <3> QED BY <1>2, <3>1, <3>2, <3>3
  <2> QED BY <2>1, <2>2, StartWritingNew
<1>3. ASSUME NEW w \in Writers,
             \/ \E t \in Tables : PutTable(w, t)
             \/ TablesWritten(w)
             \/ \E h \in Hashes : PutObject(w, h)
             \/ ObjectsWritten(w)
      PROVE  DraftIsNew'
  <2>1. /\ manifests' = manifests /\ Writing(w)
        /\ \A v \in Writers : job'[v].id = job[v].id /\ (v # w => step'[v] = step[v])
    <3>1. ASSUME NEW t \in Tables, PutTable(w, t)
          PROVE  /\ manifests' = manifests /\ step' = step /\ Writing(w)
                 /\ \A v \in Writers : job'[v].id = job[v].id
      BY <1>1, <3>1 DEF PutTable, Job, Writing
    <3>2. ASSUME NEW h \in Hashes, PutObject(w, h)
          PROVE  /\ manifests' = manifests /\ step' = step /\ Writing(w)
                 /\ \A v \in Writers : job'[v].id = job[v].id
      BY <1>1, <3>2 DEF PutObject, Job, Writing
    <3>3. CASE TablesWritten(w) \/ ObjectsWritten(w)
      BY <1>1, <3>3 DEF TablesWritten, ObjectsWritten, Goto, repository, Writing
    <3> QED BY <1>3, <3>1, <3>2, <3>3
  <2> QED BY <2>1 DEF DraftIsNew, Writing, Existing
<1>4. ASSUME NEW w \in Writers,
             WriteManifest(w) \/ Collect(w) \/ Acquire(w) \/ Fail(w) \/ Release(w) \/ Crash(w)
      PROVE  DraftIsNew'
  <2>1. ~Writing(w)'
    BY <1>1, <1>4 DEF WriteManifest, Collect, BeginPrune, BeginDelete, StartRemoval, ListSnapshot,
         DeleteFile, ListObjects, DeleteObject, EndSweep, Acquire, Fail, Release, Crash, Return,
         Goto, Writing
  <2>2. ASSUME NEW v \in Writers \ {w} PROVE ~Writing(v)'
    <3>1. CASE Acquire(w)
      <4>1. step[v] = "idle"
        BY <3>1 DEF Acquire, Lock!Acquire, OnlyHolderWorks
      <4> QED BY <1>1, <3>1, <4>1 DEF Acquire, Goto, Writing
    <3>2. CASE Release(w) \/ Crash(w)
      <4>1. step[v] = "idle"
        BY <3>2, OthersIdle DEF Release, Crash
      <4> QED BY <1>1, <3>2, <4>1 DEF Release, Crash, Goto, Writing
    <3>3. CASE WriteManifest(w) \/ Collect(w) \/ Fail(w)
      <4>1. Write(w) \/ Collect(w) \/ Fail(w)
        BY <3>3 DEF Write
      <4>2. step[w] # "idle" /\ step'[v] = step[v]
        BY <4>1, WorkReturns
      <4> QED BY <4>2, OthersIdle DEF Writing
    <3> QED BY <1>4, <3>1, <3>2, <3>3
  <2> QED BY <2>1, <2>2 DEF DraftIsNew
<1>5. CASE UNCHANGED vars
  BY <1>5 DEF vars, DraftIsNew, Writing, Existing
<1> QED BY <1>2, <1>3, <1>4, <1>5 DEF Next, Write

\* One step: what a restore of s reads is not touched.
LEMMA StepKeepsRestorable ==
  ASSUME TypeOK, OnlyHolderWorks, RemovalInv, DraftIsNew, [Next]_vars,
         NEW s \in Live, Restorable(s)
  PROVE  Restorable(s)'
<1>1. s \in Ids /\ Chain(s) \subseteq Existing /\ \A x \in Chain(s) : Verified(x)
  BY LiveType DEF Restorable, Fits
<1>2. CASE UNCHANGED repository
  BY <1>1, <1>2, ChainUntouched DEF repository, Existing, Verified
<1>3. ASSUME NEW w \in Writers, NEW t \in Tables, PutTable(w, t) PROVE Restorable(s)'
  <2>1. job[w].id \notin Existing
    BY <1>3 DEF PutTable, DraftIsNew, Writing
  <2> QED BY <1>1, <1>3, <2>1, ChainUntouched DEF PutTable, Put, Existing, Verified
<1>4. ASSUME NEW w \in Writers, NEW h \in Hashes, PutObject(w, h) PROVE Restorable(s)'
  BY <1>1, <1>4, ChainUntouched DEF PutObject, Existing, Verified
<1>5. ASSUME NEW w \in Writers, WriteManifest(w) PROVE Restorable(s)'
  <2>1. job[w].id \notin Existing
    BY <1>5 DEF WriteManifest, DraftIsNew, Writing
  <2> QED BY <1>1, <1>5, <2>1, ChainUntouched DEF WriteManifest, Put, Existing, Verified
<1>6. ASSUME NEW w \in Writers, NEW f \in Files, DeleteFile(w, f) PROVE Restorable(s)'
  <2>1. step[w] = "expire" /\ f \in job[w].files
    BY <1>6 DEF DeleteFile
  <2>2. MarksHold(w) /\ job[w].id \in Leaving(w)
    BY <2>1 DEF RemovalInv, Removing, OnTrack, Leaving
  <2>3. Chain(s) \subseteq Staying(w)
    BY <2>2, ChainStays
  <2>4. Staying(w)' = Staying(w) /\ \A x \in Staying(w) : manifests'[x] = manifests[x]
    BY <1>6, FileOnTrack
  <2>5. \A x \in Staying(w) : x \in Existing' /\ x # job[w].id
    BY <2>2, <2>4 DEF Staying
  <2>6. objects' = objects
    BY <1>6 DEF DeleteFile
  <2>7. ASSUME NEW x \in Staying(w), NEW t, <<x, t>> \in DOMAIN payload
        PROVE  <<x, t>> \in DOMAIN payload' /\ payload'[<<x, t>>] = payload[<<x, t>>]
    BY <1>6, <2>5, <2>7 DEF DeleteFile, Remove
  <2> QED BY <1>1, <2>3, <2>4, <2>5, <2>6, <2>7, ChainUntouched DEF Verified
<1>7. ASSUME NEW w \in Writers, NEW h \in Hashes, DeleteObject(w, h) PROVE Restorable(s)'
  <2>1. step[w] = "sweep" /\ h \in job[w].blobs
    BY <1>7 DEF DeleteObject
  <2>2. OnTrack(w)
    BY <2>1 DEF RemovalInv, Removing
  <2>3. h \notin job[w].reachable /\ job[w].reachable = ObjectsOf(Staying(w))
    BY <2>1, <2>2 DEF OnTrack, ObjectsListed, MarksHold
  <2>4. Chain(s) \subseteq Staying(w)
    BY <2>2, ChainStays DEF OnTrack
  <2>5. \A x \in Chain(s) : h \notin Export(x).objects
    BY <2>3, <2>4 DEF ObjectsOf
  <2>6. UNCHANGED <<manifests, payload>> /\ objects' = objects \ {h}
    BY <1>7 DEF DeleteObject
  <2> QED BY <1>1, <2>5, <2>6, ChainUntouched DEF Existing, Verified
<1>8. ASSUME NEW w \in Writers, Write(w) PROVE Restorable(s)'
  <2>1. CASE PlanFull(w) \/ PlanIncremental(w) \/ PlanCompact(w) \/ TablesWritten(w)
               \/ ObjectsWritten(w)
    BY <2>1, <1>2 DEF PlanFull, PlanIncremental, PlanCompact, StartWriting, TablesWritten,
                      ObjectsWritten
  <2> QED BY <1>3, <1>4, <1>5, <1>8, <2>1 DEF Write
<1>9. ASSUME NEW w \in Writers, Collect(w) PROVE Restorable(s)'
  <2>1. CASE BeginPrune(w) \/ BeginDelete(w) \/ (\E x \in Ids : ListSnapshot(w, x))
               \/ ListObjects(w) \/ EndSweep(w)
    BY <2>1, <1>2 DEF BeginPrune, BeginDelete, StartRemoval, ListSnapshot, ListObjects, EndSweep
  <2> QED BY <1>6, <1>7, <1>9, <2>1 DEF Collect
<1>10. ASSUME NEW w \in Writers, Acquire(w) \/ Fail(w) \/ Release(w) \/ Crash(w)
       PROVE  Restorable(s)'
  BY <1>2, <1>10 DEF Acquire, Fail, Release, Crash
<1>11. CASE UNCHANGED vars
  BY <1>2, <1>11 DEF vars, repository
<1> QED BY <1>8, <1>9, <1>10, <1>11 DEF Next

\* Whatever incremental backups build on, a snapshot that can be restored can be
\* restored until someone asks to remove it.
THEOREM RestorableUntilRemoved == FreshIds => (Spec => RestorableStays)
<1> SUFFICES ASSUME FreshIds PROVE Spec => RestorableStays
  OBVIOUS
<1>1. Init => DraftIsNew
  BY DEF Init, DraftIsNew, Writing
<1>2. TypeOK /\ OnlyHolderWorks /\ DraftIsNew /\ [Next]_vars => DraftIsNew'
  BY NewInductive
<1>3. TypeOK /\ OnlyHolderWorks /\ RemovalInv /\ DraftIsNew /\ [Next]_vars
        => [\A s \in Live : Restorable(s) => Restorable(s)']_vars
  BY StepKeepsRestorable
<1> QED BY <1>1, <1>2, <1>3, RemovalHolds, PTL DEF Spec, RestorableStays

-----------------------------------------------------------------------------
(* What prune keeps.  However often a prune is interrupted, the newest       *)
(* snapshots, as many as the prunes that keep fewest keep, are live: nothing *)
(* else can be selected by them later.                                       *)

NewerThan(s) == {x \in Existing : Newer(x, s)}

LEMMA NewerOrder ==
  ASSUME TypeOK, NEW x \in Existing, NEW y \in Existing
  PROVE  /\ ~Newer(x, x)
         /\ \A z \in Existing : Newer(x, y) /\ Newer(y, z) => Newer(x, z)
<1>1. \A s \in Existing : Export(s).created \in Int /\ s \in Nat
  BY ExportTypes, RepositoryAssumption DEF TypeOK, Existing, ExportType
<1> QED BY <1>1 DEF Newer

LEMMA NewerFinite ==
  ASSUME TypeOK, NEW s
  PROVE  IsFiniteSet(NewerThan(s)) /\ Cardinality(NewerThan(s)) \in Nat
<1>1. NewerThan(s) \subseteq Ids
  BY DEF NewerThan, TypeOK, Existing
<1> QED BY <1>1, RepositoryAssumption, FS_Subset, FS_CardinalityType

\* A newer snapshot has fewer that are newer still.
LEMMA NewerHasFewer ==
  ASSUME TypeOK, NEW x \in Existing, NEW s \in Existing, Newer(x, s)
  PROVE  Cardinality(NewerThan(x)) < Cardinality(NewerThan(s))
<1>1. NewerThan(x) \subseteq NewerThan(s)
  BY NewerOrder DEF NewerThan
<1>2. x \in NewerThan(s) /\ x \notin NewerThan(x)
  BY NewerOrder DEF NewerThan
<1> QED BY <1>1, <1>2, NewerFinite, FS_Subset

LEMMA SelectedIs ==
  \A keep : Selected(keep) = {s \in Existing : Cardinality(NewerThan(s)) < keep}
BY DEF Selected, NewerThan

\* Where there is a snapshot, one is kept.
LEMMA NewestSelected ==
  ASSUME TypeOK, Existing # {}, NEW keep \in Nat \ {0}
  PROVE  Selected(keep) # {}
<1> DEFINE counts == {Cardinality(NewerThan(s)) : s \in Existing}
<1>1. counts \in SUBSET Nat /\ counts # {}
  BY NewerFinite
<1>2. PICK s \in Existing : \A x \in Existing : Cardinality(NewerThan(s)) <= Cardinality(NewerThan(x))
  <2>1. PICK least \in counts : \A n \in counts : least <= n
    <3> HIDE DEF counts
    <3> QED BY <1>1, LeastNatural
  <2> QED BY <2>1
<1>3. NewerThan(s) = {}
  <2> SUFFICES ASSUME NEW x \in NewerThan(s) PROVE FALSE
    OBVIOUS
  <2>1. x \in Existing /\ Newer(x, s)
    BY DEF NewerThan
  <2> QED BY <1>2, <2>1, NewerHasFewer, NewerFinite
<1>4. Cardinality(NewerThan(s)) = 0
  BY <1>3, FS_EmptySet
<1> QED BY <1>4, SelectedIs

NewestAreLive(k) == Selected(k) \subseteq Live

\* The snapshot that is written may come among the newest; the others only lose
\* places.
LEMMA CommitKeepsNewest ==
  ASSUME RepositoryInv, NEW k \in Nat, NewestAreLive(k), NEW w \in Writers, WriteManifest(w)
  PROVE  NewestAreLive(k)'
<1>0. PICK id, m : id = job[w].id /\ m = job[w].draft
  OBVIOUS
<1>1. TypeOK /\ id \in Ids \ Existing
  BY <1>0 DEF RepositoryInv, DraftIsSound, Writing, WriteManifest
<1>2. manifests' = Put(manifests, id, m) /\ doomed' = doomed \ {id}
  BY <1>0 DEF WriteManifest
<1>3. /\ Existing' = Existing \union {id}
      /\ \A s \in Existing : manifests'[s] = manifests[s]
  BY <1>1, <1>2 DEF Existing, Put
<1>4. Live' = Live \union {id}
  BY <1>1, <1>2, <1>3 DEF Live, TypeOK, Existing
<1>5. ASSUME NEW s \in Selected(k)', s # id PROVE s \in Selected(k)
  <2>1. s \in Existing /\ Cardinality(NewerThan(s)') < k
    BY <1>3, <1>5 DEF Selected, NewerThan
  <2>2. \A x \in Existing : Newer(x, s)' <=> Newer(x, s)
    BY <1>3, <2>1 DEF Newer, Export
  <2>3. NewerThan(s) \subseteq NewerThan(s)'
    BY <1>3, <2>2 DEF NewerThan
  <2>4. IsFiniteSet(NewerThan(s)')
    <3>1. NewerThan(s)' \subseteq Ids
      BY <1>1, <1>3 DEF NewerThan, TypeOK, Existing
    <3> QED BY <3>1, RepositoryAssumption, FS_Subset
  <2>5. /\ Cardinality(NewerThan(s)) <= Cardinality(NewerThan(s)')
        /\ Cardinality(NewerThan(s)) \in Nat /\ Cardinality(NewerThan(s)') \in Nat
    BY <1>1, <2>3, <2>4, FS_Subset, FS_CardinalityType
  <2> QED BY <2>1, <2>5, SelectedIs
<1> QED BY <1>4, <1>5 DEF NewestAreLive

\* When the manifest of another snapshot goes, no snapshot gains a place among the
\* newest: those that are newer than it keep theirs.
LEMMA DeletionKeepsNewest ==
  ASSUME RepositoryInv, NEW k \in Nat, NewestAreLive(k), NEW w \in Writers, NEW f \in Files,
         DeleteFile(w, f)
  PROVE  NewestAreLive(k)' /\ Live' = Live
<1>1. CASE f # ManifestFile
  <2>1. manifests' = manifests /\ doomed' = doomed
    BY <1>1 DEF DeleteFile
  <2> QED BY <2>1 DEF NewestAreLive, Selected, Live, Existing, Newer, Export
<1>2. CASE f = ManifestFile
  <2>0. PICK id : id = job[w].id
    OBVIOUS
  <2>1. TypeOK /\ manifests' = Remove(manifests, id) /\ doomed' = doomed \ {id}
    BY <1>2, <2>0 DEF DeleteFile, RepositoryInv
  <2>2. id \notin Live
    BY <2>0 DEF DeleteFile, RepositoryInv, RemovalIsSafe
  <2>3. /\ Existing' = Existing \ {id} /\ Live' = Live
        /\ \A s \in Existing \ {id} : manifests'[s] = manifests[s]
    BY <2>1, <2>2 DEF Live, Existing, Remove
  <2>4. ASSUME NEW s \in Selected(k)' PROVE s \in Selected(k)
    <3> SUFFICES ASSUME s \notin Selected(k) PROVE FALSE
      OBVIOUS
    <3>1. s \in Existing \ {id} /\ Cardinality(NewerThan(s)') < k
      BY <2>3, <2>4 DEF Selected, NewerThan
    <3>2. \A x \in Existing \ {id} : Newer(x, s)' <=> Newer(x, s)
      BY <2>3, <3>1 DEF Newer, Export
    <3>3. NewerThan(s)' = NewerThan(s) \ {id}
      BY <2>3, <3>2 DEF NewerThan
    <3>4. ~(Cardinality(NewerThan(s)) < k)
      BY <3>1, SelectedIs
    <3>5. id \in Existing /\ Newer(id, s)
      BY <3>1, <3>3, <3>4 DEF NewerThan
    <3>6. NewerThan(id) \subseteq NewerThan(s)'
      <4>1. NewerThan(id) \subseteq NewerThan(s) /\ id \notin NewerThan(id)
        BY <2>1, <3>1, <3>5, NewerOrder DEF NewerThan
      <4> QED BY <3>3, <4>1
    <3>7. /\ Cardinality(NewerThan(id)) <= Cardinality(NewerThan(s)')
          /\ Cardinality(NewerThan(id)) \in Nat /\ Cardinality(NewerThan(s)') \in Nat
      <4>1. IsFiniteSet(NewerThan(s)')
        BY <2>1, <3>3, NewerFinite, FS_Subset
      <4> QED BY <2>1, <3>6, <4>1, NewerFinite, FS_Subset, FS_CardinalityType
    <3>8. id \in Selected(k)
      BY <3>1, <3>5, <3>7, SelectedIs
    <3> QED BY <2>2, <3>8 DEF NewestAreLive
  <2> QED BY <2>3, <2>4 DEF NewestAreLive
<1> QED BY <1>1, <1>2

\* What a prune removes is not among the newest.
LEMMA PruneKeepsNewest ==
  ASSUME RepositoryInv, NEW k \in Nat, NewestAreLive(k), \A keep \in Keeps : k <= keep,
         NEW w \in Writers, BeginPrune(w)
  PROVE  NewestAreLive(k)' /\ Selected(k) \subseteq Live'
<1>1. PICK keep \in Keeps : /\ doomed' = doomed \union (Existing \ Retained(keep))
                            /\ manifests' = manifests
  BY DEF BeginPrune, StartRemoval, repository
<1>2. Selected(k) \subseteq Selected(keep)
  <2>1. k <= keep /\ keep \in Nat
    BY <1>1, RepositoryAssumption
  <2>2. \A s : Cardinality(NewerThan(s)) \in Nat
    BY NewerFinite DEF RepositoryInv
  <2> QED BY <2>1, <2>2, SelectedIs
<1>3. Selected(keep) \subseteq Retained(keep)
  <2>1. \A s \in Existing : s \in Chain(s)
    BY ChainClosed DEF RepositoryInv, TypeOK, Existing
  <2> QED BY <2>1 DEF Retained, Selected
<1>4. Selected(k) \subseteq Live'
  BY <1>1, <1>2, <1>3 DEF NewestAreLive, Live, Existing
<1>5. Selected(k)' = Selected(k)
  BY <1>1 DEF Selected, Existing, Newer, Export
<1> QED BY <1>4, <1>5 DEF NewestAreLive

\* No other step changes what is live.
LEMMA OthersKeepLive ==
  ASSUME RepositoryInv, "delete" \notin Ops, [Next]_vars,
         ~\E w \in Writers : \/ WriteManifest(w) \/ BeginPrune(w)
                             \/ \E f \in Files : DeleteFile(w, f)
  PROVE  manifests' = manifests /\ doomed' = doomed
<1>1. CASE UNCHANGED vars
  BY <1>1 DEF vars
<1>2. ASSUME NEW w \in Writers, Write(w) PROVE manifests' = manifests /\ doomed' = doomed
  BY <1>2 DEF Write, PlanFull, PlanIncremental, PlanCompact, StartWriting, repository,
     PutTable, TablesWritten, PutObject, ObjectsWritten
<1>3. ASSUME NEW w \in Writers, Collect(w) PROVE manifests' = manifests /\ doomed' = doomed
  BY <1>3 DEF Collect, BeginDelete, ListSnapshot, ListObjects, DeleteObject, EndSweep, repository
<1>4. ASSUME NEW w \in Writers, Acquire(w) \/ Fail(w) \/ Release(w) \/ Crash(w)
      PROVE  manifests' = manifests /\ doomed' = doomed
  BY <1>4 DEF Acquire, Fail, Release, Crash, repository
<1> QED BY <1>1, <1>2, <1>3, <1>4 DEF Next

\* Snapshots are removed by prune alone, of which none keeps fewer than k.
PrunesKeep(k) == "delete" \notin Ops /\ \A keep \in Keeps : k <= keep

LEMMA NewestInductive ==
  ASSUME NEW k \in Nat, PrunesKeep(k), RepositoryInv, NewestAreLive(k), [Next]_vars
  PROVE  NewestAreLive(k)'
<1> USE DEF PrunesKeep
<1>1. ASSUME NEW w \in Writers,
             \/ WriteManifest(w) \/ BeginPrune(w) \/ \E f \in Files : DeleteFile(w, f)
      PROVE  NewestAreLive(k)'
  BY <1>1, CommitKeepsNewest, PruneKeepsNewest, DeletionKeepsNewest
<1>2. ASSUME ~\E w \in Writers : \/ WriteManifest(w) \/ BeginPrune(w)
                                 \/ \E f \in Files : DeleteFile(w, f)
      PROVE  NewestAreLive(k)'
  <2>1. manifests' = manifests /\ doomed' = doomed
    BY <1>2, OthersKeepLive
  <2> QED BY <2>1 DEF NewestAreLive, Selected, Live, Existing, Newer, Export
<1> QED BY <1>1, <1>2

LEMMA NewestStayLive ==
  ASSUME NEW k \in Nat, PrunesKeep(k), FreshIds, CheckedParents
  PROVE  Spec => [](RepositoryInv /\ NewestAreLive(k))
<1>1. Spec => []RepositoryInv
  BY RepositoryInvariant
<1>2. Init => NewestAreLive(k)
  BY DEF Init, NewestAreLive, Selected, Existing
<1>3. RepositoryInv /\ NewestAreLive(k) /\ [Next]_vars => NewestAreLive(k)'
  BY NewestInductive
<1> QED BY <1>1, <1>2, <1>3, PTL DEF Spec

\* prune never takes the last live snapshot, which can then be restored
\* (AlwaysRestorable), not even after others that were interrupted, however many
\* snapshots each of them keeps.  With keep_last = 0 it takes them all.
THEOREM PruneKeepsOne ==
  FreshIds /\ CheckedParents /\ PrunesKeep(1) => (Spec => PruneLeavesASnapshot)
<1> SUFFICES ASSUME FreshIds, CheckedParents, PrunesKeep(1) PROVE Spec => PruneLeavesASnapshot
  OBVIOUS
<1>0. PICK k \in Nat : k = 1
  OBVIOUS
<1>1. Spec => [](RepositoryInv /\ NewestAreLive(k))
  BY <1>0, NewestStayLive
<1>2. RepositoryInv /\ NewestAreLive(k) /\ [Next]_vars => [Live # {} => Live' # {}]_vars
  <2> SUFFICES ASSUME RepositoryInv, NewestAreLive(k), [Next]_vars, Live # {} PROVE Live' # {}
    OBVIOUS
  <2>1. ASSUME NEW w \in Writers, WriteManifest(w) PROVE Live' # {}
    BY <2>1 DEF WriteManifest, Put, Live, Existing
  <2>2. ASSUME NEW w \in Writers, BeginPrune(w) PROVE Live' # {}
    <3>1. Selected(k) # {}
      BY <1>0, NewestSelected DEF Live, RepositoryInv
    <3>2. \A keep \in Keeps : k <= keep
      BY <1>0 DEF PrunesKeep
    <3> QED BY <2>2, <3>1, <3>2, PruneKeepsNewest
  <2>3. ASSUME NEW w \in Writers, NEW f \in Files, DeleteFile(w, f) PROVE Live' # {}
    BY <1>0, <2>3, DeletionKeepsNewest
  <2>4. ASSUME ~\E w \in Writers : \/ WriteManifest(w) \/ BeginPrune(w)
                                   \/ \E f \in Files : DeleteFile(w, f)
        PROVE  Live' # {}
    <3>1. manifests' = manifests /\ doomed' = doomed
      BY <2>4, OthersKeepLive DEF PrunesKeep
    <3> QED BY <3>1 DEF Live, Existing
  <2> QED BY <2>1, <2>2, <2>3, <2>4
<1> QED BY <1>1, <1>2, PTL DEF Spec, PruneLeavesASnapshot

\* Where all prunes keep the same number, each of them can load the chains of the
\* snapshots it keeps, whatever was interrupted before.  (A prune that keeps more
\* than an interrupted one may select what that one has left half removed.)
THEOREM PrunesGoOn ==
  FreshIds /\ CheckedParents /\ "delete" \notin Ops /\ (\E k \in Nat : Keeps = {k})
    => (Spec => []PruneNeverStuck)
<1> SUFFICES ASSUME FreshIds, CheckedParents, "delete" \notin Ops, NEW k \in Nat, Keeps = {k}
             PROVE  Spec => []PruneNeverStuck
  OBVIOUS
<1>1. Spec => [](RepositoryInv /\ NewestAreLive(k))
  BY NewestStayLive DEF PrunesKeep
<1>2. RepositoryInv /\ NewestAreLive(k) => PruneNeverStuck
  <2> SUFFICES ASSUME RepositoryInv, NewestAreLive(k), NEW s \in Selected(k) PROVE Loadable(s)
    BY DEF PruneNeverStuck
  <2>1. s \in Live
    BY DEF NewestAreLive
  <2> QED BY <2>1, SoundIsRestorable DEF RepositoryInv, Restorable, Loadable
<1> QED BY <1>1, <1>2, PTL
=============================================================================
