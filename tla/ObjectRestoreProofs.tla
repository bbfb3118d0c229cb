------------------------ MODULE ObjectRestoreProofs ------------------------
(***************************************************************************)
(* restore_objects runs without the lock, beside any backups and prunes:    *)
(* what it reports as restored is restored, and the claims of               *)
(* ObjectWriterProofs stay true while it runs.                              *)
(***************************************************************************)
EXTENDS ObjectRestore, ObjectWriterProofs

LEMMA WantedType ==
  ASSUME RestoreTypeOK, NEW i \in DOMAIN wanted
  PROVE  wanted[i] \in Objects /\ HashOf[wanted[i]] \in Hashes
BY ObjectAssumption DEF RestoreTypeOK

\* A restore changes nothing in the repository.
LEMMA WriterStepOrNone == [RestoreNext]_allVars => [Next]_vars
<1>1. RestoreStep => UNCHANGED vars
  BY DEF RestoreStep, BeginRestore, Send, Compare, Succeed, FailRestore, LeaveRestore
<1> QED BY <1>1 DEF RestoreNext, allVars

LEMMA RestoreTypeInductive == RestoreTypeOK /\ [RestoreNext]_allVars => RestoreTypeOK'
<1> SUFFICES ASSUME RestoreTypeOK, [RestoreNext]_allVars PROVE RestoreTypeOK'
  OBVIOUS
<1>1. TypeOK'
  BY WriterStepOrNone, TypeInductive DEF RestoreTypeOK
<1> USE DEF RestoreTypeOK
<1>2. CASE BeginRestore
  BY <1>1, <1>2, ObjectAssumption DEF BeginRestore
<1>3. CASE Send
  BY <1>1, <1>3, WantedType DEF Send, TypeOK
<1>4. CASE Compare
  <2>1. at \in 1..Len(wanted) /\ Len(wanted) \in Nat
    BY <1>4 DEF Compare
  <2>2. at + 1 \in 1..(Len(wanted) + 1)
    BY <2>1
  <2> QED BY <1>1, <1>4, <2>2 DEF Compare
<1>5. CASE Succeed \/ FailRestore
  <2>1. Len(<<>>) = 0 /\ 1 \in 1..(Len(<<>>) + 1)
    OBVIOUS
  <2> QED BY <1>1, <1>5, <2>1, EmptyType DEF Succeed, FailRestore, LeaveRestore
<1>6. CASE UNCHANGED restoreVars
  BY <1>1, <1>6 DEF restoreVars
<1> QED BY <1>2, <1>3, <1>4, <1>5, <1>6 DEF RestoreNext, RestoreStep, allVars

LEMMA BehindInductive ==
  RestoreTypeOK /\ BehindIsGood /\ [RestoreNext]_allVars => BehindIsGood'
<1> SUFFICES ASSUME RestoreTypeOK, BehindIsGood, [RestoreNext]_allVars PROVE BehindIsGood'
  OBVIOUS
<1> USE DEF BehindIsGood, RestoreTypeOK
<1>1. CASE BeginRestore
  BY <1>1, ObjectAssumption DEF BeginRestore
<1>2. CASE Send
  <2> SUFFICES ASSUME NEW i \in DOMAIN wanted, i < at, wanted[i] # wanted[at]
               PROVE  sink'[wanted[i]] = "good"
    BY <1>2 DEF Send
  <2>1. sink[wanted[i]] = "good"
    BY <1>2 DEF Send
  <2> QED BY <1>2, <2>1, WantedType DEF Send
<1>3. CASE Compare
  <2> SUFFICES ASSUME NEW i \in DOMAIN wanted, i < at + 1
               PROVE  sink[wanted[i]] = "good"
    BY <1>3 DEF Compare
  <2>1. CASE i = at
    BY <1>3, <2>1 DEF Compare
  <2>2. CASE i < at
    BY <1>3, <2>2 DEF Compare
  <2> QED BY <2>1, <2>2
<1>4. CASE Succeed \/ FailRestore
  BY <1>4 DEF Succeed, FailRestore, LeaveRestore
<1>5. CASE UNCHANGED restoreVars
  BY <1>5 DEF restoreVars
<1> QED BY <1>1, <1>2, <1>3, <1>4, <1>5 DEF RestoreNext, RestoreStep, allVars

\* Types, and that every object behind the one restore_objects is at has its
\* bytes in the sink, with duplicate entries of one object among them.
THEOREM RestoreInvariant == RestoreSpec => []RestoreInv
<1>1. RestoreInit => RestoreInv
  <2>1. RestoreInit => TypeOK
    BY InitInv DEF RestoreInit, ObjectInv
  <2>2. Len(<<>>) = 0 /\ 1 \in 1..(Len(<<>>) + 1) /\ DOMAIN <<>> = {}
    OBVIOUS
  <2> QED BY <2>1, <2>2, EmptyType DEF RestoreInit, RestoreInv, RestoreTypeOK, BehindIsGood, Blob
<1>2. RestoreInv /\ [RestoreNext]_allVars => RestoreInv'
  BY RestoreTypeInductive, BehindInductive DEF RestoreInv
<1> QED BY <1>1, <1>2, PTL DEF RestoreSpec

\* restore_objects returns Ok only when the sink has the bytes the manifest
\* means for each of its objects.
THEOREM SuccessComplete == RestoreSpec => SuccessIsComplete
<1>1. RestoreInv /\ [RestoreNext]_allVars =>
        [Succeed => \A i \in DOMAIN wanted : sink[wanted[i]] = "good"]_allVars
  <2> SUFFICES ASSUME RestoreInv, Succeed, NEW i \in DOMAIN wanted
               PROVE  sink[wanted[i]] = "good"
    OBVIOUS
  <2>1. i < at /\ ~sent
    BY DEF Succeed, RestoreInv, RestoreTypeOK
  <2> QED BY <2>1 DEF RestoreInv, BehindIsGood
<1> QED BY <1>1, RestoreInvariant, PTL DEF RestoreSpec, SuccessIsComplete

\* Restores are invisible to the writers: whatever holds of the backups and
\* prunes alone holds beside them.
THEOREM RestoreLeavesWriter == RestoreSpec => Spec
<1>1. RestoreInit => Init
  BY DEF RestoreInit
<1> QED BY <1>1, WriterStepOrNone, PTL DEF RestoreSpec, Spec

\* As long as no backup is abandoned between the put of wrong bytes and their
\* deletion, the blobs a restore reads by the entries of a manifest in the
\* repository have the right bytes.
THEOREM GoodBesideRestores == RestoreSpec /\ [][~Abandons]_vars => []NamedAreGood
BY RestoreLeavesWriter, GoodUnlessAbandoned, PTL
=============================================================================
