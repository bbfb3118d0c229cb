---------------------------- MODULE RestoreProofs ----------------------------
(***************************************************************************)
(* A restore into a database of its own, for every chain of snapshots:      *)
(* retried, failing or interrupted at any point, while snapshots disappear  *)
(* from the repository, it leaves the target in a state that the source     *)
(* was in; and clearing the target between two attempts never puts a        *)
(* connection without foreign keys into the pool.                           *)
(***************************************************************************)
EXTENDS RestoreFlow, NaturalRecursion

-----------------------------------------------------------------------------
(* The states of the source database.                                      *)

LEMMA ApplyAllType == \A rows, changes : ApplyAll(rows, changes) \subseteq Rows
BY DEF ApplyAll

\* restore_full and restore_incremental apply the changes of a payload one after the
\* other: ApplyAll, which looks at the last change of each row, is what that comes
\* to, for payloads of any length.
THEOREM ChangesApplyInOrder ==
  ASSUME NEW rows \in SUBSET Rows
  PROVE  /\ ApplyAll(rows, <<>>) = rows
         /\ \A changes \in Seq(Change) : \A c \in Change :
              ApplyAll(rows, Append(changes, c)) =
                IF c.deleted THEN ApplyAll(rows, changes) \ {c.key}
                             ELSE ApplyAll(rows, changes) \union {c.key}
<1> DEFINE Of(changes, row) == {i \in DOMAIN changes : changes[i].key = row}
           Last(changes, row) == CHOOSE i \in Of(changes, row) : \A j \in Of(changes, row) : j <= i
<1>1. \A changes : ApplyAll(rows, changes) =
        {row \in Rows : IF Of(changes, row) = {} THEN row \in rows
                                                 ELSE ~changes[Last(changes, row)].deleted}
  BY DEF ApplyAll
<1>2. ApplyAll(rows, <<>>) = rows
  <2>1. \A row : Of(<<>>, row) = {}
    OBVIOUS
  <2> HIDE DEF Of
  <2> QED BY <1>1, <2>1
<1>3. ASSUME NEW changes \in Seq(Change), NEW c \in Change
      PROVE  ApplyAll(rows, Append(changes, c)) =
               IF c.deleted THEN ApplyAll(rows, changes) \ {c.key}
                            ELSE ApplyAll(rows, changes) \union {c.key}
  <2> DEFINE more == Append(changes, c)
             n == Len(more)
  <2>1. /\ DOMAIN more = 1..n /\ n \in Nat /\ n \in 1..n /\ more[n] = c
        /\ DOMAIN changes = 1..(n - 1) /\ \A i \in 1..(n - 1) : more[i] = changes[i] /\ i \in 1..n
        /\ \A i \in 1..n : i \in 1..(n - 1) \/ i = n
    OBVIOUS
  <2>2. c.key \in Rows /\ c.deleted \in BOOLEAN
    BY DEF Change
  <2> HIDE DEF more, n
  <2>3. n \in Of(more, c.key) /\ Last(more, c.key) = n
    <3>1. n \in Of(more, c.key) /\ \A j \in Of(more, c.key) : j <= n /\ j \in Nat
      BY <2>1
    <3>2. \A i \in Of(more, c.key) : (\A j \in Of(more, c.key) : j <= i) => i = n
      BY <3>1, <2>1
    <3> HIDE DEF Of
    <3> QED BY <3>1, <3>2
  <2>4. ASSUME NEW row \in Rows, row # c.key
        PROVE  Of(more, row) = Of(changes, row)
    BY <2>1, <2>4
  <2>5. ASSUME NEW row \in Rows, row # c.key, Of(changes, row) # {}
        PROVE  Last(more, row) = Last(changes, row) /\ Last(changes, row) \in 1..(n - 1)
    <3>1. Last(more, row) = Last(changes, row)
      BY <2>4, <2>5
    <3>2. Of(changes, row) \in SUBSET (1..(n - 1))
      BY <2>1
    <3>3. \E i \in Of(changes, row) : \A j \in Of(changes, row) : j <= i
      <4>1. PICK m \in {n - j : j \in Of(changes, row)} :
               \A k \in {n - j : j \in Of(changes, row)} : m <= k
        <5>1. {n - j : j \in Of(changes, row)} \in SUBSET Nat
          BY <2>1, <3>2
        <5>2. {n - j : j \in Of(changes, row)} # {}
          BY <2>5
        <5> HIDE DEF Of
        <5> QED BY <5>1, <5>2, LeastNatural
      <4>2. PICK i \in Of(changes, row) : m = n - i
        BY <4>1
      <4>3. \A j \in Of(changes, row) : n - i <= n - j
        BY <4>1, <4>2
      <4>4. \A j \in Of(changes, row) : j <= i
        BY <2>1, <3>2, <4>3
      <4> QED BY <4>2, <4>4
    <3>4. Last(changes, row) \in Of(changes, row)
      <4> HIDE DEF Of
      <4> QED BY <3>3
    <3> QED BY <3>1, <3>2, <3>4
  <2>6. ASSUME NEW row \in Rows, row # c.key
        PROVE  row \in ApplyAll(rows, more) <=> row \in ApplyAll(rows, changes)
    <3>1. Of(more, row) = Of(changes, row)
      BY <2>4, <2>6
    <3>2. CASE Of(changes, row) = {}
      <4> HIDE DEF Of, Last
      <4> QED BY <1>1, <3>1, <3>2
    <3>3. CASE Of(changes, row) # {}
      <4>1. Last(more, row) = Last(changes, row) /\ more[Last(more, row)] = changes[Last(changes, row)]
        BY <2>1, <2>5, <2>6, <3>3
      <4> HIDE DEF Of, Last
      <4> QED BY <1>1, <3>1, <3>3, <4>1
    <3> QED BY <3>2, <3>3
  <2>7. c.key \in ApplyAll(rows, more) <=> ~c.deleted
    <3>1. Of(more, c.key) # {} /\ more[Last(more, c.key)] = c
      BY <2>1, <2>3
    <3> HIDE DEF Of, Last
    <3> QED BY <1>1, <2>2, <3>1
  <2>8. ApplyAll(rows, more) \subseteq Rows /\ ApplyAll(rows, changes) \subseteq Rows
    BY ApplyAllType
  <2> QED BY <2>2, <2>6, <2>7, <2>8 DEF more
<1> QED BY <1>2, <1>3

\* StateAt is what its recursive definition says: there is such a function.
LEMMA StateAtDef ==
  /\ StateAt[0] = {}
  /\ \A s \in 1..Depth : StateAt[s] = ApplyAll(StateAt[s - 1], Exports[s])
<1> DEFINE Entry(f, s) == IF s = 0 THEN {} ELSE ApplyAll(f[s - 1], Exports[s])
           apply == [s \in 1..Depth |-> [rows \in SUBSET Rows |-> ApplyAll(rows, Exports[s])]]
<1>1. Depth \in Nat /\ {} \in SUBSET Rows /\ apply \in [1..Depth -> [SUBSET Rows -> SUBSET Rows]]
  BY RestoreAssumption, ApplyAllType
<1>2. PICK f \in [0..Depth -> SUBSET Rows] :
        f[0] = {} /\ \A s \in 1..Depth : f[s] = apply[s][f[s - 1]]
  <2>1. apply \in Turns(SUBSET Rows, Depth)
    BY <1>1 DEF Turns
  <2> HIDE DEF apply
  <2>2. Computations(SUBSET Rows, Depth, {}, apply) # {}
    BY <1>1, <2>1, Iteration
  <2> QED BY <2>2 DEF Computations
<1>3. ASSUME NEW s \in 0..Depth PROVE f[s] = Entry(f, s)
  <2>1. s # 0 => s \in 1..Depth /\ f[s - 1] \in SUBSET Rows
    BY <1>1
  <2> QED BY <1>2, <2>1
<1>4. f = [s \in 0..Depth |-> Entry(f, s)]
  <2> HIDE DEF Entry, apply
  <2> QED BY <1>2, <1>3
<1>5. StateAt = [s \in 0..Depth |-> Entry(StateAt, s)]
  BY <1>4, Zenon DEF StateAt, Entry
<1>6. \A s \in 0..Depth : StateAt[s] = Entry(StateAt, s)
  BY <1>5
<1> QED BY <1>1, <1>6 DEF Entry

-----------------------------------------------------------------------------
(* clear_restore_target                                                    *)

\* While every clear is awaited, a connection without foreign keys is the one
\* that is taken out, and only between the two PRAGMAs.
KeysInv ==
  /\ clearing = "no" => lent = {}
  /\ ~dropped => /\ pooled \subseteq enforcing
                 /\ clearing = "acquired" => lent \subseteq enforcing

LEMMA ClearInductive ==
  ASSUME ClearTypeOK, KeysInv, Clear
  PROVE  ClearTypeOK' /\ KeysInv'
<1> USE DEF ClearTypeOK, KeysInv
<1>1. Len(ClearOrder) \in Nat
  BY ClearAssumption
<1>2. CASE Truncate
  BY <1>2 DEF Truncate
<1>3. ASSUME NEW c \in Connections, Acquire(c) PROVE ClearTypeOK' /\ KeysInv'
  BY <1>3 DEF Acquire
<1>4. ASSUME NEW c \in Connections, OpenConnection(c) PROVE ClearTypeOK' /\ KeysInv'
  BY <1>4 DEF OpenConnection
<1>5. CASE SuspendKeys
  BY <1>1, <1>5 DEF SuspendKeys, GiveBack
<1>6. CASE BeginTransaction
  BY <1>6 DEF BeginTransaction
<1>7. CASE DeleteTable
  BY <1>1, <1>7 DEF DeleteTable
<1>8. CASE CommitDeletes
  BY <1>1, <1>8 DEF CommitDeletes
<1>9. CASE ResumeKeys
  BY <1>1, <1>9 DEF ResumeKeys, GiveBack
<1>10. CASE DropClear
  <2>1. dropped' \in BOOLEAN /\ (dropped' = FALSE => dropped = FALSE /\ clearing = "acquired")
    BY <1>10 DEF DropClear
  <2> QED BY <1>1, <1>10, <2>1 DEF DropClear, GiveBack
<1> QED BY <1>2, <1>3, <1>4, <1>5, <1>6, <1>7, <1>8, <1>9, <1>10 DEF Clear

\* Clearing changes the rows of the target in no other way than to none.
LEMMA ClearsAll == ClearTypeOK /\ Clear => target' = target \/ target' = {}
<1> SUFFICES ASSUME ClearTypeOK, CommitDeletes, target' # target PROVE target' = {}
  BY DEF Clear, Truncate, OpenConnection, Acquire, SuspendKeys, BeginTransaction,
         DeleteTable, ResumeKeys, DropClear, GiveBack
<1>1. target' = target \ {ClearOrder[i] : i \in 1..Len(ClearOrder)}
  BY DEF CommitDeletes
<1>2. Rows \subseteq {ClearOrder[i] : i \in 1..Len(ClearOrder)}
  BY ClearAssumption
<1> QED BY <1>1, <1>2 DEF ClearTypeOK

-----------------------------------------------------------------------------
(* restore_snapshot                                                        *)

LEMMA ExportsAssumption ==
  /\ Depth \in Nat /\ 1 <= Depth /\ 1 \in Snapshots /\ Depth \in Snapshots
BY RestoreAssumption DEF Snapshots

LEMMA AdvanceType ==
  ASSUME TypeOK, NEW r \in Restorers, NEW loop \in Steps, NEW next \in Steps,
         Advance(r, loop, next)
  PROVE  step' \in [Restorers -> Steps] /\ job' \in [Restorers -> [mode : {"apply", "dry"},
                                                   at : Snapshots, loaded : Payload]]
<1>1. job[r].at < Depth => job[r].at + 1 \in Snapshots
  BY ExportsAssumption DEF TypeOK, Snapshots
<1> QED BY <1>1, ExportsAssumption DEF TypeOK, Advance, Goto

\* A restore at the snapshot that it applies next has applied those before.
AppliedSoFar(r) ==
  /\ step[r] \in {"load", "apply"} => target = StateAt[job[r].at - 1]
  /\ step[r] = "return" => target = StateAt[Depth]

\* A dry run never comes to apply anything.
DryInv == \A r \in Restorers : step[r] = "apply" => job[r].mode = "apply"

\* A target is not cleared while it is restored.
QuietInv == \A r \in Restorers : step[r] # "idle" => clearing = "no"

\* Unless a payload is written over, what a restore has loaded is what the
\* manifest says, and every applied snapshot brings the target a step further.
PrefixInv ==
  ~rewritten =>
    /\ \A s \in Snapshots : payload[s] # "other"
    /\ \E s \in 0..Depth : target = StateAt[s]
    /\ \A r \in Restorers :
         /\ step[r] = "check" => job[r].at = 1
         /\ step[r] = "apply" => job[r].loaded = "good"
         /\ job[r].mode = "apply" => AppliedSoFar(r)

RestoreInv == TypeOK /\ KeysInv /\ DryInv /\ QuietInv

LEMMA RestoreInvInit == Init => RestoreInv /\ PrefixInv
<1> SUFFICES ASSUME Init PROVE RestoreInv /\ PrefixInv
  OBVIOUS
<1>1. 0 \in 0..Depth /\ 0 \in 0..Len(ClearOrder)
  BY ExportsAssumption, ClearAssumption
<1>2. TypeOK
  <2>1. ClearTypeOK
    BY <1>1 DEF Init, ClearInit, ClearTypeOK
  <2> QED BY <2>1, ExportsAssumption DEF Init, TypeOK, Steps, Payload
<1>3. KeysInv /\ DryInv /\ QuietInv
  BY DEF Init, ClearInit, KeysInv, DryInv, QuietInv
<1>4. PrefixInv
  BY <1>1, StateAtDef DEF Init, ClearInit, PrefixInv, AppliedSoFar
<1> QED BY <1>2, <1>3, <1>4 DEF RestoreInv

LEMMA TypeInductive == TypeOK /\ KeysInv /\ [Next]_vars => TypeOK'
<1> SUFFICES ASSUME TypeOK, KeysInv, [Next]_vars PROVE TypeOK'
  OBVIOUS
<1>1. ASSUME UNCHANGED clearVars PROVE ClearTypeOK'
  BY <1>1 DEF TypeOK, ClearTypeOK, clearVars
<1>2. ASSUME NEW r \in Restorers, Begin(r) PROVE TypeOK'
  <2>1. PICK mode \in Modes : job' = [job EXCEPT ![r].mode = mode, ![r].at = Depth]
    BY <1>2 DEF Begin
  <2>2. mode \in {"apply", "dry"}
    BY RestoreAssumption
  <2>3. job' \in [Restorers -> [mode : {"apply", "dry"}, at : Snapshots, loaded : Payload]]
    BY <2>1, <2>2, ExportsAssumption DEF TypeOK
  <2> QED BY <1>1, <1>2, <2>3 DEF TypeOK, Begin, Goto, Steps
<1>3. ASSUME NEW r \in Restorers, LoadManifest(r) PROVE TypeOK'
  <2>1. job[r].at > 1 => job[r].at - 1 \in Snapshots
    BY ExportsAssumption DEF TypeOK, Snapshots
  <2> QED BY <1>1, <1>3, <2>1 DEF TypeOK, LoadManifest, Goto, Steps
<1>4. ASSUME NEW r \in Restorers, Verify(r) PROVE TypeOK'
  <2>1. "verify" \in Steps /\ "check" \in Steps
    BY DEF Steps
  <2> QED BY <1>1, <1>4, <2>1, AdvanceType DEF Verify, TypeOK
<1>5. ASSUME NEW r \in Restorers, CheckTarget(r) PROVE TypeOK'
  BY <1>1, <1>5 DEF TypeOK, CheckTarget, Goto, Steps
<1>6. ASSUME NEW r \in Restorers, Load(r) PROVE TypeOK'
  <2>1. "load" \in Steps /\ "return" \in Steps
    BY DEF Steps
  <2>2. CASE job[r].mode = "dry"
    BY <1>1, <1>6, <2>1, <2>2, AdvanceType DEF Load, TypeOK
  <2>3. CASE job[r].mode # "dry"
    BY <1>1, <1>6, <2>3 DEF Load, TypeOK, Goto, Steps
  <2> QED BY <2>2, <2>3
<1>7. ASSUME NEW r \in Restorers, Apply(r) PROVE TypeOK'
  <2>1. "load" \in Steps /\ "return" \in Steps
    BY DEF Steps
  <2>2. ClearTypeOK'
    BY <1>7, ApplyAllType DEF Apply, TypeOK, ClearTypeOK
  <2> QED BY <1>7, <2>1, <2>2, AdvanceType DEF Apply, TypeOK
<1>8. ASSUME NEW r \in Restorers, Return(r) \/ Fail(r) PROVE TypeOK'
  BY <1>1, <1>8 DEF TypeOK, Return, Fail, Goto, Steps
<1>9. CASE ClearTarget
  <2>1. ClearTypeOK'
    BY <1>9, ClearInductive DEF ClearTarget, TypeOK
  <2> QED BY <1>9, <2>1 DEF ClearTarget, TypeOK
<1>10. ASSUME NEW s \in Snapshots, RemoveBlob(s) \/ RewritePayload(s) PROVE TypeOK'
  BY <1>1, <1>10 DEF TypeOK, RemoveBlob, RewritePayload, Payload
<1>11. CASE UNCHANGED vars
  BY <1>1, <1>11 DEF TypeOK, vars
<1> QED BY <1>2, <1>3, <1>4, <1>5, <1>6, <1>7, <1>8, <1>9, <1>10, <1>11 DEF Next, Restore

LEMMA KeysInductive == TypeOK /\ KeysInv /\ [Next]_vars => KeysInv'
<1> SUFFICES ASSUME TypeOK, KeysInv, [Next]_vars, ~ClearTarget PROVE KeysInv'
  BY ClearInductive DEF TypeOK, ClearTarget
<1>1. UNCHANGED <<pooled, lent, enforcing, clearing, dropped>>
  BY DEF Next, Restore, Begin, LoadManifest, Verify, CheckTarget, Load, Apply, Return, Fail,
         RemoveBlob, RewritePayload, vars, clearVars
<1> QED BY <1>1 DEF KeysInv

LEMMA DryInductive == TypeOK /\ DryInv /\ [Next]_vars => DryInv'
<1> SUFFICES ASSUME TypeOK, DryInv, [Next]_vars, NEW q \in Restorers, step'[q] = "apply"
             PROVE  job'[q].mode = "apply"
  BY DEF DryInv
<1> USE DEF TypeOK, DryInv
<1>1. ASSUME NEW r \in Restorers, Begin(r) PROVE job'[q].mode = "apply"
  BY <1>1 DEF Begin, Goto
<1>2. ASSUME NEW r \in Restorers, LoadManifest(r) PROVE job'[q].mode = "apply"
  BY <1>2 DEF LoadManifest, Goto
<1>3. ASSUME NEW r \in Restorers, Verify(r) PROVE job'[q].mode = "apply"
  BY <1>3 DEF Verify, Advance, Goto
<1>4. ASSUME NEW r \in Restorers, CheckTarget(r) \/ Return(r) \/ Fail(r)
      PROVE  job'[q].mode = "apply"
  BY <1>4 DEF CheckTarget, Return, Fail, Goto
<1>5. ASSUME NEW r \in Restorers, Load(r) PROVE job'[q].mode = "apply"
  BY <1>5 DEF Load, Advance, Goto
<1>6. ASSUME NEW r \in Restorers, Apply(r) PROVE job'[q].mode = "apply"
  BY <1>6 DEF Apply, Advance, Goto
<1>7. CASE UNCHANGED <<step, job>>
  BY <1>7
<1> QED BY <1>1, <1>2, <1>3, <1>4, <1>5, <1>6, <1>7
        DEF Next, Restore, ClearTarget, RemoveBlob, RewritePayload, vars

LEMMA QuietInductive == TypeOK /\ QuietInv /\ [Next]_vars => QuietInv'
<1> SUFFICES ASSUME TypeOK, QuietInv, [Next]_vars, NEW q \in Restorers, step'[q] # "idle"
             PROVE  clearing' = "no"
  BY DEF QuietInv
<1> USE DEF TypeOK, QuietInv
<1>1. ASSUME NEW r \in Restorers, Begin(r) PROVE clearing' = "no"
  BY <1>1 DEF Begin, clearVars
<1>2. ASSUME NEW r \in Restorers, Restore(r), ~Begin(r) PROVE clearing' = "no"
  <2>1. clearing' = clearing /\ step[r] # "idle"
    BY <1>2 DEF Restore, LoadManifest, Verify, CheckTarget, Load, Apply, Return, Fail, clearVars
  <2> QED BY <2>1
<1>3. CASE ClearTarget
  BY <1>3 DEF ClearTarget
<1>4. CASE UNCHANGED <<step, clearing>>
  BY <1>4
<1> QED BY <1>1, <1>2, <1>3, <1>4
        DEF Next, RemoveBlob, RewritePayload, vars, clearVars

\* Whatever clear_restore_target runs into, and whatever restores do, the pool
\* holds no connection that does not enforce foreign keys, as long as no future
\* is dropped half way.
THEOREM PoolKeepsKeys == Spec => []PoolEnforcesForeignKeys
<1>1. RestoreInv /\ [Next]_vars => RestoreInv'
  BY TypeInductive, KeysInductive, DryInductive, QuietInductive DEF RestoreInv
<1>2. RestoreInv => PoolEnforcesForeignKeys
  BY DEF RestoreInv, KeysInv, PoolEnforcesForeignKeys
<1> QED BY <1>1, <1>2, RestoreInvInit, PTL DEF Spec

\* Every variable of a restore keeps to its type, for any number of restores.
THEOREM RestoreTypeCorrect == Spec => []TypeOK
<1>1. RestoreInv /\ [Next]_vars => RestoreInv'
  BY TypeInductive, KeysInductive, DryInductive, QuietInductive DEF RestoreInv
<1>2. RestoreInv => TypeOK
  BY DEF RestoreInv
<1> QED BY <1>1, <1>2, RestoreInvInit, PTL DEF Spec

\* A dry run leaves the target alone, also beside other restores.
THEOREM DryRunIsDry == Spec => DryRunLeavesTarget
<1>1. RestoreInv /\ [Next]_vars => RestoreInv'
  BY TypeInductive, KeysInductive, DryInductive, QuietInductive DEF RestoreInv
<1>2. RestoreInv /\ [Next]_vars =>
        [\A r \in Restorers : Restore(r) /\ job[r].mode = "dry" => UNCHANGED target]_vars
  <2> SUFFICES ASSUME RestoreInv, NEW r \in Restorers, Restore(r), job[r].mode = "dry"
               PROVE  target' = target
    OBVIOUS
  <2>1. ~Apply(r)
    BY DEF RestoreInv, DryInv, Apply
  <2> QED BY <2>1 DEF Restore, Begin, LoadManifest, Verify, CheckTarget, Load, Return, Fail,
                      clearVars
<1> QED BY <1>1, <1>2, RestoreInvInit, PTL DEF Spec, DryRunLeavesTarget

-----------------------------------------------------------------------------
(* A target of its own                                                     *)

OneRestorer == \A r, s \in Restorers : r = s

LEMMA AdvanceStep ==
  ASSUME TypeOK, NEW r \in Restorers, NEW loop \in Steps, NEW next \in Steps,
         Advance(r, loop, next)
  PROVE  /\ job'[r].mode = job[r].mode /\ job'[r].loaded = job[r].loaded
         /\ \/ job[r].at + 1 \in Snapshots /\ step'[r] = loop /\ job'[r].at = job[r].at + 1
            \/ job[r].at = Depth /\ step'[r] = next /\ job'[r].at = 1
BY ExportsAssumption DEF TypeOK, Advance, Goto, Snapshots

LEMMA PrefixInductive ==
  ASSUME RestoreInv, PrefixInv, OneRestorer, [Next]_vars
  PROVE  PrefixInv'
<1> SUFFICES ASSUME rewritten' = FALSE
             PROVE  /\ (\A s \in Snapshots : payload[s] # "other")'
                    /\ (\E s \in 0..Depth : target = StateAt[s])'
                    /\ \A r \in Restorers :
                         /\ step'[r] = "check" => job'[r].at = 1
                         /\ step'[r] = "apply" => job'[r].loaded = "good"
                         /\ job'[r].mode = "apply" => AppliedSoFar(r)'
  <2>1. TypeOK'
    BY TypeInductive DEF RestoreInv
  <2>2. ~rewritten' => rewritten' = FALSE
    BY <2>1 DEF TypeOK
  <2> QED BY <2>2 DEF PrefixInv
<1>1. rewritten = FALSE
  BY DEF RestoreInv, TypeOK, Next, Restore, Begin, LoadManifest, Verify, CheckTarget, Load, Apply,
         Return, Fail, ClearTarget, RemoveBlob, RewritePayload, vars
<1>2. \A s \in Snapshots : payload[s] # "other"
  BY <1>1 DEF PrefixInv
<1>3. PICK s \in 0..Depth : target = StateAt[s]
  BY <1>1 DEF PrefixInv
<1>4. \A r \in Restorers :
         /\ step[r] = "check" => job[r].at = 1
         /\ step[r] = "apply" => job[r].loaded = "good"
         /\ job[r].mode = "apply" => AppliedSoFar(r)
  BY <1>1 DEF PrefixInv
<1>5. TypeOK
  BY DEF RestoreInv
<1>6. (\A x \in Snapshots : payload[x] # "other")'
  BY <1>1, <1>2, <1>5 DEF TypeOK, Next, Restore, Begin, LoadManifest, Verify, CheckTarget, Load,
         Apply, Return, Fail, ClearTarget, RemoveBlob, RewritePayload, vars
\* The steps of a restore: it is the only one.
<1>7. ASSUME NEW r \in Restorers, Restore(r)
      PROVE  /\ (\E x \in 0..Depth : target = StateAt[x])'
             /\ step'[r] = "check" => job'[r].at = 1
             /\ step'[r] = "apply" => job'[r].loaded = "good"
             /\ job'[r].mode = "apply" => AppliedSoFar(r)'
  <2>1. /\ "verify" \in Steps /\ "check" \in Steps /\ "load" \in Steps /\ "return" \in Steps
    BY DEF Steps
  <2>2. ASSUME ~Apply(r) PROVE target' = target
    BY <1>7, <2>2 DEF Restore, Begin, LoadManifest, Verify, CheckTarget, Load, Return, Fail, clearVars
  <2>3. CASE Begin(r) \/ LoadManifest(r) \/ Return(r) \/ Fail(r)
    <3>1. target' = target
      BY <2>3 DEF Begin, LoadManifest, Return, Fail, clearVars
    <3>2. step'[r] \in {"chain", "verify", "idle"}
      BY <1>5, <2>3 DEF TypeOK, Begin, LoadManifest, Return, Fail, Goto
    <3> QED BY <1>3, <3>1, <3>2 DEF AppliedSoFar
  <2>4. CASE Verify(r)
    <3>1. ~Apply(r) /\ Advance(r, "verify", "check")
      BY <2>4 DEF Verify, Apply
    <3>2. step'[r] \in {"verify", "check"} /\ (step'[r] = "check" => job'[r].at = 1)
      BY <1>5, <2>1, <3>1, AdvanceStep
    <3> QED BY <1>3, <2>2, <3>1, <3>2 DEF AppliedSoFar
  <2>5. CASE CheckTarget(r)
    <3>1. ~Apply(r) /\ step'[r] = "load" /\ job'[r] = job[r] /\ job[r].at = 1
      BY <1>4, <1>5, <2>5 DEF CheckTarget, Apply, TypeOK, Goto
    <3>2. job[r].mode = "apply" => target = StateAt[0]
      BY <2>5, StateAtDef DEF CheckTarget
    <3> QED BY <1>3, <2>2, <3>1, <3>2 DEF AppliedSoFar
  <2>6. CASE Load(r)
    <3>1. ~Apply(r) /\ step[r] = "load" /\ payload[job[r].at] = "good"
      BY <1>2, <1>5, <2>6 DEF Load, Apply, TypeOK, Payload
    <3>2. CASE job[r].mode = "dry"
      <4>1. step'[r] \in {"load", "return"} /\ job'[r].mode = "dry"
        BY <1>5, <2>1, <2>6, <3>2, AdvanceStep DEF Load
      <4> QED BY <1>3, <2>2, <3>1, <4>1
    <3>3. CASE job[r].mode # "dry"
      <4>1. /\ step'[r] = "apply" /\ job'[r].loaded = "good"
            /\ job'[r].mode = "apply" /\ job'[r].at = job[r].at /\ job[r].mode = "apply"
        BY <1>5, <2>6, <3>1, <3>3 DEF Load, Goto, TypeOK
      <4>2. target = StateAt[job[r].at - 1]
        BY <1>4, <3>1, <4>1 DEF AppliedSoFar
      <4> QED BY <1>3, <2>2, <3>1, <4>1, <4>2 DEF AppliedSoFar
    <3> QED BY <3>2, <3>3
  <2>7. CASE Apply(r)
    <3>1. step[r] = "apply" /\ job[r].mode = "apply" /\ job[r].loaded = "good" /\ job[r].at \in 1..Depth
      BY <1>4, <1>5, <2>7 DEF Apply, RestoreInv, DryInv, TypeOK, Snapshots
    <3>2. target = StateAt[job[r].at - 1]
      BY <1>4, <3>1 DEF AppliedSoFar
    <3>3. target' = StateAt[job[r].at]
      BY <2>7, <3>1, <3>2, StateAtDef DEF Apply
    <3>4. \/ step'[r] = "load" /\ job'[r].at = job[r].at + 1
          \/ step'[r] = "return" /\ job[r].at = Depth
      BY <1>5, <2>1, <2>7, AdvanceStep DEF Apply
    <3>5. job'[r].at - 1 = job[r].at \/ step'[r] = "return"
      BY <3>1, <3>4
    <3> QED BY <3>1, <3>3, <3>4, <3>5, ExportsAssumption DEF AppliedSoFar
  <2> QED BY <1>7, <2>3, <2>4, <2>5, <2>6, <2>7 DEF Restore
<1>8. CASE \E r \in Restorers : Restore(r)
  BY <1>6, <1>7, <1>8 DEF OneRestorer
<1>9. CASE ClearTarget
  <2>1. target' = target \/ target' = StateAt[0]
    BY <1>5, <1>9, ClearsAll, StateAtDef DEF ClearTarget, TypeOK
  <2>2. \A r \in Restorers : step'[r] = "idle"
    BY <1>9 DEF ClearTarget
  <2> QED BY <1>3, <1>6, <2>1, <2>2, ExportsAssumption DEF AppliedSoFar
<1>10. CASE (\E x \in Snapshots : RemoveBlob(x) \/ RewritePayload(x)) \/ UNCHANGED vars
  <2>1. UNCHANGED <<target, step, job>>
    BY <1>10 DEF RemoveBlob, RewritePayload, vars, clearVars
  <2> QED BY <1>3, <1>4, <1>6, <2>1 DEF AppliedSoFar
<1> QED BY <1>8, <1>9, <1>10 DEF Next

\* However often a restore into a target of its own is retried, with whatever
\* is removed meanwhile, the target is in a state that the source was in.
THEOREM TargetStaysPrefix == OneRestorer => (Spec => []TargetIsPrefix)
<1> SUFFICES ASSUME OneRestorer PROVE Spec => []TargetIsPrefix
  OBVIOUS
<1>1. RestoreInv /\ PrefixInv /\ [Next]_vars => RestoreInv' /\ PrefixInv'
  BY TypeInductive, KeysInductive, DryInductive, QuietInductive, PrefixInductive DEF RestoreInv
<1>2. PrefixInv => TargetIsPrefix
  BY DEF PrefixInv, TargetIsPrefix
<1> QED BY <1>1, <1>2, RestoreInvInit, PTL DEF Spec

\* And when it reports success, that is the state of the requested snapshot.
THEOREM RestoredTargetIsSnapshot == OneRestorer => (Spec => RestoredIsSnapshot)
<1> SUFFICES ASSUME OneRestorer PROVE Spec => RestoredIsSnapshot
  OBVIOUS
<1>1. RestoreInv /\ PrefixInv /\ [Next]_vars => RestoreInv' /\ PrefixInv'
  BY TypeInductive, KeysInductive, DryInductive, QuietInductive, PrefixInductive DEF RestoreInv
<1>2. RestoreInv /\ PrefixInv /\ [Next]_vars =>
        [\A r \in Restorers :
           Return(r) /\ job[r].mode = "apply" /\ ~rewritten => target = StateAt[Depth]]_vars
  BY DEF PrefixInv, AppliedSoFar, Return
<1> QED BY <1>1, <1>2, RestoreInvInit, PTL DEF Spec, RestoredIsSnapshot
=============================================================================
