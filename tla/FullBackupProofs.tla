-------------------------- MODULE FullBackupProofs --------------------------
(***************************************************************************)
(* Planned backups only do what ObjectWriter allows, so that its claims     *)
(* hold of them, and a full one has the object of every row that stayed.    *)
(***************************************************************************)
EXTENDS FullBackup, ObjectWriterProofs

LEMMA InListType ==
  ASSUME NEW l \in Lists
  PROVE  InList(l) \subseteq Objects
BY ObjectAssumption DEF InList

\* Reading and the application leave the blobs alone; the rest is ObjectWriter.
LEMMA PlanIsWriterStep == [FullNext]_allVars => [Next]_vars
BY DEF FullNext, Application, ExportFull, ListObjects, PlanFails, PlanIncremental,
       WriteOrPrune, planVars, allVars, Next

LEMMA FullInvInductive == FullInv /\ [FullNext]_allVars => FullInv'
<1> SUFFICES ASSUME FullInv, [FullNext]_allVars PROVE FullInv'
  OBVIOUS
<1>1. TypeOK'
  BY PlanIsWriterStep, TypeInductive DEF FullInv, FullTypeOK
<1> USE DEF FullInv, FullTypeOK
<1>2. CASE Application
  BY <1>1, <1>2, InListType DEF Application, vars
<1>3. CASE ExportFull
  BY <1>1, <1>3 DEF ExportFull, vars
<1>4. CASE ListObjects
  <2>1. running' = TRUE /\ planning' = FALSE /\ rows' = rows /\ removed' = removed /\ app' = app
    BY <1>4 DEF ListObjects, Begin
  <2>2. rows \subseteq InList(list') \union removed
    BY <1>4 DEF ListObjects
  <2>3. (rows \subseteq InList(list) \union removed)'
    BY <2>1, <2>2
  <2> QED BY <1>1, <2>1, <2>3
<1>5. CASE PlanFails
  BY <1>1, <1>5 DEF PlanFails, vars
<1>6. CASE PlanIncremental
  BY <1>1, <1>6 DEF PlanIncremental, Begin, planVars
<1>7. CASE WriteOrPrune
  <2>1. running' => running /\ list' = list
    <3>1. CASE Cancel \/ Finish
      BY <3>1 DEF Cancel, Finish, Leave
    <3>2. CASE Prune
      BY <3>2 DEF Prune
    <3>3. ASSUME NEW i \in Indexes, Poll(i) PROVE running' => running /\ list' = list
      BY <3>3 DEF Poll, Start, Load, PutIfAbsent, Rehash, Undo, Fail, Leave
    <3> QED BY <1>7, <3>1, <3>2, <3>3 DEF WriteOrPrune
  <2>2. planning' = planning /\ app' = app /\ ~planning
    BY <1>7 DEF WriteOrPrune
  <2>3. CASE running'
    <3>1. rows' = rows /\ removed' = removed
      BY <1>7, <2>3 DEF WriteOrPrune
    <3>2. InList(list') = InList(list)
      BY <2>1, <2>3
    <3> QED BY <1>1, <2>1, <2>2, <2>3, <3>1, <3>2
  <2>4. CASE ~running'
    BY <1>1, <1>7, <2>2, <2>4 DEF WriteOrPrune
  <2> QED BY <2>3, <2>4
<1>8. CASE ChangeSource /\ UNCHANGED planVars
  BY <1>1, <1>8 DEF ChangeSource, planVars
<1>9. CASE UNCHANGED allVars
  BY <1>1, <1>9 DEF allVars, planVars, vars
<1> QED BY <1>2, <1>3, <1>4, <1>5, <1>6, <1>7, <1>8, <1>9 DEF FullNext

\* The types, and that the listing covers the export but for what was removed
\* in between.
THEOREM FullInvariant == FullSpec => []FullInv
<1>1. FullInit => FullInv
  <2>1. FullInit => TypeOK /\ ~running
    BY InitInv DEF FullInit, ObjectInv, Init
  <2> QED BY <2>1 DEF FullInit, FullInv, FullTypeOK
<1> QED BY <1>1, FullInvInductive, PTL DEF FullSpec

\* A full backup that finishes has the object of every exported row, except of
\* those the application removed while the backup was planned.
THEOREM RowsAreCovered == FullSpec => RowsHaveObjects
<1>1. FullInv /\ [FullNext]_allVars =>
        [Finish => \A o \in rows \ removed : HashOf[o] \in named']_allVars
  <2> SUFFICES ASSUME FullInv, Finish, NEW o \in rows, o \notin removed
               PROVE  HashOf[o] \in named'
    OBVIOUS
  <2>1. PICK i \in DOMAIN list : list[i] = o
    BY DEF FullInv, InList, Finish
  <2>2. KeyOf(i) = HashOf[o] /\ i \in Indexes
    BY <2>1 DEF KeyOf, Indexes
  <2> QED BY <2>2 DEF Finish
<1> QED BY <1>1, FullInvariant, PTL DEF FullSpec, RowsHaveObjects

\* Planned backups implement the writer that is handed any list at any time.
THEOREM FullImplementsWriter == FullSpec => Spec
<1>1. FullInit => Init
  BY DEF FullInit
<1> QED BY <1>1, PlanIsWriterStep, PTL DEF FullSpec, Spec

\* Every object blob a manifest names is there, whatever is planned.
THEOREM AlwaysPresentWithPlans == FullSpec => []NamedArePresent
BY FullImplementsWriter, AlwaysPresent

\* No step takes away or changes an object blob that stays named.
THEOREM AlwaysStayWithPlans == FullSpec => NamedStay
BY FullImplementsWriter, AlwaysStay
=============================================================================
