------------------------- MODULE ObjectWriterProofs -------------------------
(***************************************************************************)
(* For any objects, lists, limits of concurrency and failures: a manifest   *)
(* never names an object blob that is not there, and no backup changes one  *)
(* that a manifest names.  That the blobs also have the right bytes takes   *)
(* sources that do not change, or that no backup ends between the put of    *)
(* wrong bytes and their deletion.                                          *)
(***************************************************************************)
EXTENDS ObjectWriter, FiniteSetTheorems, TLAPS

LEMMA KeyType ==
  ASSUME TypeOK, NEW i \in Indexes
  PROVE  list[i] \in Objects /\ KeyOf(i) \in Hashes
BY ObjectAssumption DEF TypeOK, Indexes, KeyOf

\* No futures for no objects.
LEMMA EmptyType == <<>> \in Seq(Objects) /\ <<>> \in [DOMAIN <<>> -> Future]
<1>1. Len(<<>>) = 0 /\ DOMAIN <<>> = 1..0
  OBVIOUS
<1>2. <<>> \in Seq(Future)
  OBVIOUS
<1> QED BY <1>1, <1>2

LEMMA TypeInductive == TypeOK /\ [Next]_vars => TypeOK'
<1> SUFFICES ASSUME TypeOK, [Next]_vars PROVE TypeOK'
  OBVIOUS
<1> USE DEF TypeOK, Indexes
<1>1. CASE ChangeSource
  BY <1>1 DEF ChangeSource
<1>2. CASE Begin
  BY <1>2, ObjectAssumption DEF Begin, Future
<1>3. CASE Cancel
  BY <1>3, EmptyType DEF Cancel, Leave
<1>4. CASE Finish
  BY <1>4, EmptyType, KeyType DEF Finish, Leave
<1>5. CASE Prune
  BY <1>5 DEF Prune, Blob
<1>6. ASSUME NEW i \in Indexes, Poll(i) PROVE TypeOK'
  <2>1. CASE Start(i) \/ Load(i) \/ Rehash(i)
    BY <2>1 DEF Start, Load, Rehash, Goto, Future
  <2>2. CASE PutIfAbsent(i) \/ Undo(i)
    BY <2>2, KeyType DEF PutIfAbsent, Undo, Goto, Future, Blob
  <2>3. CASE Fail(i)
    BY <2>3, EmptyType DEF Fail, Leave
  <2> QED BY <1>6, <2>1, <2>2, <2>3 DEF Poll
<1>7. CASE UNCHANGED vars
  BY <1>7 DEF vars
<1> QED BY <1>1, <1>2, <1>3, <1>4, <1>5, <1>6, <1>7 DEF Next

\* A backup that ends, for whatever reason, leaves no future behind.
LEMMA NothingLeft ==
  ASSUME Leave
  PROVE  Indexes' = {} /\ blob' = blob
BY DEF Leave, Indexes

\* One await of one future.
LEMMA PollKeepsInv ==
  ASSUME ObjectInv, NEW i \in Indexes, Poll(i), TypeOK'
  PROVE  ObjectInv'
<1> USE DEF ObjectInv, Goto
<1>f. CASE Fail(i)
  BY <1>f, NothingLeft DEF Fail, Leave, IdleHasNoFutures, NamedArePresent, DoneAreStored, UndoIsOwn
<1>1. CASE ~Fail(i)
  <2>1. /\ UNCHANGED <<running, list, named>> /\ Indexes' = Indexes
        /\ \A j \in Indexes : KeyOf(j)' = KeyOf(j) /\ KeyOf(j) \in Hashes
        /\ \A j \in Indexes \ {i} : future'[j] = future[j]
    BY <1>1, KeyType DEF Poll, Start, Load, PutIfAbsent, Rehash, Undo, TypeOK, Indexes, KeyOf
  <2>2. IdleHasNoFutures'
    BY <2>1 DEF IdleHasNoFutures
  <2>3. CASE Start(i) \/ Load(i)
    <3>1. blob' = blob /\ future[i] \in {"waiting", "load"} /\ future'[i] \in {"load", "put"}
      BY <2>3 DEF Start, Load, TypeOK, Indexes
    <3> QED BY <2>1, <2>2, <3>1 DEF NamedArePresent, DoneAreStored, UndoIsOwn
  <2>4. CASE Rehash(i)
    <3>1. blob' = blob /\ future[i] = "rehash" /\ future'[i] \in {"done", "mismatch"}
      BY <2>4 DEF Rehash, TypeOK, Indexes
    <3> QED BY <2>1, <2>2, <3>1 DEF NamedArePresent, DoneAreStored, UndoIsOwn
  <2>5. CASE PutIfAbsent(i)
    <3>1. CASE blob[KeyOf(i)] = "absent"
      <4>1. /\ future'[i] \in {"done", "undo"} /\ future[i] = "put"
            /\ blob'[KeyOf(i)] # "absent"
            /\ \A h \in Hashes \ {KeyOf(i)} : blob'[h] = blob[h]
        BY <2>1, <2>5, <3>1 DEF PutIfAbsent, TypeOK, Indexes
      <4>2. KeyOf(i) \notin named /\ named \subseteq Hashes
        BY <3>1 DEF NamedArePresent, TypeOK
      <4>3. DoneAreStored'
        BY <2>1, <4>1 DEF DoneAreStored
      <4> QED BY <2>1, <2>2, <4>1, <4>2, <4>3 DEF NamedArePresent, UndoIsOwn
    <3>2. CASE blob[KeyOf(i)] # "absent"
      <4>1. blob' = blob /\ future[i] = "put" /\ future'[i] = "rehash"
        BY <2>5, <3>2 DEF PutIfAbsent, TypeOK, Indexes
      <4> QED BY <2>1, <2>2, <3>2, <4>1 DEF NamedArePresent, DoneAreStored, UndoIsOwn
    <3> QED BY <3>1, <3>2
  <2>6. CASE Undo(i)
    <3>1. /\ future[i] = "undo" /\ future'[i] = "undone"
          /\ \A h \in Hashes \ {KeyOf(i)} : blob'[h] = blob[h]
      BY <2>6 DEF Undo, TypeOK, Indexes
    <3>2. KeyOf(i) \notin named /\ named \subseteq Hashes
      BY <3>1 DEF UndoIsOwn, TypeOK
    <3>3. DoneAreStored'
      BY <2>1, <3>1 DEF DoneAreStored
    <3> QED BY <2>1, <2>2, <3>1, <3>2, <3>3 DEF NamedArePresent, UndoIsOwn
  <2> QED BY <1>1, <2>3, <2>4, <2>5, <2>6 DEF Poll
<1> QED BY <1>f, <1>1

LEMMA ObjectInvInductive == ObjectInv /\ [Next]_vars => ObjectInv'
<1> SUFFICES ASSUME ObjectInv, [Next]_vars PROVE ObjectInv'
  OBVIOUS
<1> USE DEF ObjectInv
<1>t. TypeOK'
  BY TypeInductive
<1> USE <1>t
<1>1. CASE ChangeSource \/ UNCHANGED vars
  BY <1>1 DEF ChangeSource, vars, IdleHasNoFutures, NamedArePresent, DoneAreStored, UndoIsOwn,
              Indexes, KeyOf
<1>2. CASE Begin
  <2>1. \A i \in Indexes' : future'[i] = "waiting"
    BY <1>2 DEF Begin, Indexes
  <2> QED BY <1>2, <2>1 DEF Begin, IdleHasNoFutures, NamedArePresent, DoneAreStored, UndoIsOwn
<1>3. CASE Cancel
  BY <1>3, NothingLeft DEF Cancel, IdleHasNoFutures, NamedArePresent, DoneAreStored, UndoIsOwn
<1>4. CASE Finish
  <2>1. \A i \in Indexes : blob[KeyOf(i)] # "absent"
    BY <1>4 DEF Finish, DoneAreStored
  <2>2. NamedArePresent'
    BY <1>4, <2>1, NothingLeft DEF Finish, NamedArePresent
  <2> QED BY <1>4, <2>2, NothingLeft DEF Finish, IdleHasNoFutures, DoneAreStored, UndoIsOwn
<1>5. CASE Prune
  <2>1. NamedArePresent'
    BY <1>5 DEF Prune, NamedArePresent, TypeOK
  <2>2. Indexes = {} /\ Indexes' = {} /\ ~running
    BY <1>5 DEF Prune, IdleHasNoFutures, Indexes
  <2> QED BY <2>1, <2>2 DEF IdleHasNoFutures, DoneAreStored, UndoIsOwn
<1>6. ASSUME NEW i \in Indexes, Poll(i) PROVE ObjectInv'
  BY <1>6, PollKeepsInv
<1> QED BY <1>1, <1>2, <1>3, <1>4, <1>5, <1>6 DEF Next

LEMMA InitInv == Init => ObjectInv
<1> SUFFICES ASSUME Init PROVE ObjectInv
  OBVIOUS
<1>1. TypeOK
  BY EmptyType DEF Init, TypeOK, Blob, Indexes
<1>2. Indexes = {}
  BY DEF Init, Indexes
<1> QED BY <1>1, <1>2 DEF Init, ObjectInv, IdleHasNoFutures, NamedArePresent, DoneAreStored,
                          UndoIsOwn

\* The invariant of object writing, for whatever sources, limits and failures.
THEOREM ObjectInvariant == Spec => []ObjectInv
BY InitInv, ObjectInvInductive, PTL DEF Spec

\* Every object blob a manifest names is in the repository.
THEOREM AlwaysPresent == Spec => []NamedArePresent
<1>1. ObjectInv => NamedArePresent
  BY DEF ObjectInv
<1> QED BY <1>1, ObjectInvariant, PTL

\* No backup changes or takes away an object blob that a manifest names.
THEOREM AlwaysStay == Spec => NamedStay
<1>1. ObjectInv /\ [Next]_vars =>
        [\A h \in named \intersect named' : blob'[h] = blob[h]]_vars
  <2> SUFFICES ASSUME ObjectInv, Next, NEW h \in named, h \in named' PROVE blob'[h] = blob[h]
    OBVIOUS
  <2> USE DEF ObjectInv, TypeOK
  <2>1. CASE ChangeSource \/ Begin \/ Cancel \/ Finish
    BY <2>1 DEF ChangeSource, Begin, Cancel, Finish, Leave
  <2>2. CASE Prune
    BY <2>2 DEF Prune
  <2>3. ASSUME NEW i \in Indexes, Poll(i) PROVE blob'[h] = blob[h]
    <3>1. CASE PutIfAbsent(i)
      BY <3>1, KeyType DEF PutIfAbsent, NamedArePresent
    <3>2. CASE Undo(i)
      BY <3>2, KeyType DEF Undo, UndoIsOwn
    <3>3. CASE Start(i) \/ Load(i) \/ Rehash(i) \/ Fail(i)
      BY <3>3 DEF Start, Load, Rehash, Fail, Leave
    <3> QED BY <2>3, <3>1, <3>2, <3>3 DEF Poll
  <2> QED BY <2>1, <2>2, <2>3 DEF Next
<1> QED BY <1>1, ObjectInvariant, PTL DEF Spec, NamedStay

-----------------------------------------------------------------------------
\* Sources that keep what they declare: nothing bad is ever stored.
LEMMA StableInductive ==
  ASSUME StableSource
  PROVE  Spec => [](intact = Objects /\ \A h \in Hashes : blob[h] # "bad")
<1> DEFINE Stable == intact = Objects /\ \A h \in Hashes : blob[h] # "bad"
<1>1. Init => Stable
  BY DEF Init
<1>2. TypeOK /\ Stable /\ [Next]_vars => Stable'
  <2> SUFFICES ASSUME TypeOK, Stable, [Next]_vars PROVE Stable'
    OBVIOUS
  <2>1. CASE ChangeSource \/ Begin \/ Cancel \/ Finish \/ UNCHANGED vars
    BY <2>1 DEF ChangeSource, Begin, Cancel, Finish, Leave, vars
  <2>2. CASE Prune
    BY <2>2 DEF Prune
  <2>3. ASSUME NEW i \in Indexes, Poll(i) PROVE Stable'
    BY <2>3, KeyType DEF Poll, Start, Load, PutIfAbsent, Rehash, Undo, Fail, Leave, TypeOK
  <2> QED BY <2>1, <2>2, <2>3 DEF Next
<1>3. ObjectInv => TypeOK
  BY DEF ObjectInv
<1> HIDE DEF Stable
<1>4. Spec => []Stable
  BY <1>1, <1>2, <1>3, ObjectInvariant, PTL DEF Spec
<1>5. Stable => intact = Objects /\ \A h \in Hashes : blob[h] # "bad"
  BY DEF Stable
<1> QED BY <1>4, <1>5, PTL

\* Every object blob a manifest names has the right bytes if the sources keep
\* theirs, however many are loaded at a time and whatever is cut short.
THEOREM GoodWithStableSource == StableSource => (Spec => []NamedAreGood)
<1> SUFFICES ASSUME StableSource PROVE Spec => []NamedAreGood
  OBVIOUS
<1>1. ObjectInv /\ (intact = Objects /\ \A h \in Hashes : blob[h] # "bad") => NamedAreGood
  BY DEF ObjectInv, TypeOK, Blob, NamedArePresent, NamedAreGood
<1>2. Spec => [](intact = Objects /\ \A h \in Hashes : blob[h] # "bad")
  BY StableInductive
<1> QED BY <1>1, <1>2, ObjectInvariant, PTL

-----------------------------------------------------------------------------
(* Sources that serve anything.                                            *)

\* Wrong bytes that no future is about to take away are left by a backup that
\* ends while one of its futures is about to, and by nothing else: for any
\* sources, any concurrency, and with cancellation and failing deletes.
THEOREM LastingWrongBytes == Spec => LastingAreAbandoned
<1>1. ObjectInv /\ [Next]_vars => [Lasting' \subseteq Lasting \/ Abandons]_vars
  <2> SUFFICES ASSUME ObjectInv, Next, ~Abandons, NEW h \in Lasting' PROVE h \in Lasting
    OBVIOUS
  <2> USE DEF ObjectInv, TypeOK, Lasting
  <2>1. h \in Hashes /\ blob'[h] = "bad"
    OBVIOUS
  <2>2. CASE ChangeSource
    BY <2>2 DEF ChangeSource, Indexes, KeyOf
  <2>3. CASE Begin \/ Prune
    <3>1. Indexes = {} /\ blob[h] = "bad"
      BY <2>1, <2>3 DEF Begin, Prune, IdleHasNoFutures
    <3> QED BY <2>1, <3>1
  <2>4. ASSUME Leave, running, \A i \in Indexes : future[i] # "undo" PROVE h \in Lasting
    BY <2>1, <2>4 DEF Leave
  <2>5. CASE Cancel
    BY <2>4, <2>5 DEF Cancel, Leave, Abandons
  <2>6. CASE Finish
    BY <2>4, <2>6 DEF Finish
  <2>7. ASSUME NEW i \in Indexes, Poll(i) PROVE h \in Lasting
    <3>1. CASE Fail(i)
      BY <2>4, <3>1 DEF Fail, Leave, Abandons
    <3>2. CASE ~Fail(i)
      <4>1. /\ Indexes' = Indexes /\ \A j \in Indexes : KeyOf(j)' = KeyOf(j) /\ KeyOf(j) \in Hashes
            /\ \A j \in Indexes \ {i} : future'[j] = future[j]
        BY <2>7, <3>2, KeyType DEF Poll, Start, Load, PutIfAbsent, Rehash, Undo, Goto, Indexes, KeyOf
      <4>2. \A j \in Indexes \ {i} : future[j] = "undo" => KeyOf(j) # h
        BY <4>1
      <4>3. CASE Start(i) \/ Load(i) \/ Rehash(i)
        <5>1. blob[h] = "bad" /\ future[i] # "undo"
          BY <2>1, <4>3 DEF Start, Load, Rehash
        <5> QED BY <2>1, <4>2, <5>1
      <4>4. CASE PutIfAbsent(i)
        <5>1. future[i] = "put" /\ (h # KeyOf(i) => blob[h] = "bad")
          BY <2>1, <4>1, <4>4 DEF PutIfAbsent
        <5>2. CASE h = KeyOf(i)
          <6>1. CASE blob[h] = "absent"
            <7>1. future'[i] = "undo"
              BY <2>1, <4>4, <5>2, <6>1 DEF PutIfAbsent, Goto, Indexes
            <7> QED BY <4>1, <5>2, <7>1
          <6>2. CASE blob[h] # "absent"
            <7>1. blob' = blob
              BY <4>4, <5>2, <6>2 DEF PutIfAbsent
            <7> QED BY <2>1, <4>2, <5>1, <7>1
          <6> QED BY <6>1, <6>2
        <5> QED BY <2>1, <4>2, <5>1, <5>2
      <4>5. CASE Undo(i)
        <5>1. h # KeyOf(i) /\ blob[h] = "bad"
          BY <2>1, <4>1, <4>5 DEF Undo
        <5> QED BY <2>1, <4>2, <5>1
      <4> QED BY <2>7, <3>2, <4>3, <4>4, <4>5 DEF Poll
    <3> QED BY <3>1, <3>2
  <2> QED BY <2>2, <2>3, <2>5, <2>6, <2>7 DEF Next
<1> QED BY <1>1, ObjectInvariant, PTL DEF Spec, LastingAreAbandoned

\* Every object blob a manifest names has the right bytes as long as no backup is
\* abandoned between the put of wrong bytes and their deletion.  Other failures,
\* cancellations and deaths, sources that serve anything, and any number of
\* futures that write the same content at a time do no harm.
THEOREM GoodUnlessAbandoned == Spec /\ [][~Abandons]_vars => []NamedAreGood
<1>1. Init => Lasting = {}
  BY DEF Init, Lasting
<1>2. Lasting = {} /\ [Lasting' \subseteq Lasting \/ Abandons]_vars /\ [~Abandons]_vars
        => (Lasting = {})'
  BY DEF vars, Lasting, Indexes, KeyOf
<1>3. Spec /\ [][~Abandons]_vars => [](Lasting = {})
  BY <1>1, <1>2, LastingWrongBytes, PTL DEF Spec, LastingAreAbandoned
<1>4. ObjectInv /\ Lasting = {} => NamedAreGood
  <2> SUFFICES ASSUME ObjectInv, Lasting = {}, NEW h \in named PROVE blob[h] = "good"
    BY DEF NamedAreGood
  <2>1. h \in Hashes /\ blob[h] \in {"good", "bad"}
    BY DEF ObjectInv, TypeOK, Blob, NamedArePresent
  <2>2. \A i \in Indexes : future[i] = "undo" => KeyOf(i) # h
    BY DEF ObjectInv, UndoIsOwn
  <2> QED BY <2>1, <2>2 DEF Lasting
<1> QED BY <1>3, <1>4, ObjectInvariant, PTL

-----------------------------------------------------------------------------
(* One object at a time.                                                   *)

OneInFlight == \A i, j \in InFlight : i = j

LEMMA SerialInductive ==
  ASSUME Concurrency \leq 1, ObjectInv, OneInFlight, [Next]_vars
  PROVE  OneInFlight'
<1> USE DEF ObjectInv, TypeOK
<1>1. CASE ChangeSource \/ UNCHANGED vars
  BY <1>1 DEF ChangeSource, vars, OneInFlight, InFlight, Indexes
<1>2. CASE Begin
  BY <1>2 DEF Begin, OneInFlight, InFlight, Indexes
<1>3. CASE Cancel \/ Finish
  BY <1>3, NothingLeft DEF Cancel, Finish, OneInFlight, InFlight
<1>4. CASE Prune
  BY <1>4 DEF Prune, IdleHasNoFutures, OneInFlight, InFlight, Indexes
<1>5. ASSUME NEW i \in Indexes, Poll(i) PROVE OneInFlight'
  <2>1. CASE Fail(i)
    BY <2>1, NothingLeft DEF Fail, OneInFlight, InFlight
  <2>2. CASE Start(i)
    <3>1. IsFiniteSet(Indexes) /\ InFlight \subseteq Indexes
      BY FS_Interval DEF Indexes, InFlight
    <3>2. Cardinality(InFlight) < 1 /\ Cardinality(InFlight) \in Nat
      BY <2>2, <3>1, FS_Subset, FS_CardinalityType, ObjectAssumption DEF Start, Limit
    <3>3. InFlight = {}
      BY <3>1, <3>2, FS_Subset, FS_EmptySet
    <3>4. InFlight' = {i}
      BY <2>2, <3>3 DEF Start, Goto, InFlight, Indexes
    <3> QED BY <3>4 DEF OneInFlight
  <2>3. CASE ~Fail(i) /\ ~Start(i)
    <3>1. /\ Indexes' = Indexes /\ future[i] \notin {"waiting", "done"}
          /\ \A j \in Indexes \ {i} : future'[j] = future[j]
      BY <1>5, <2>3 DEF Poll, Load, PutIfAbsent, Rehash, Undo, Goto, Indexes
    <3>2. InFlight' \subseteq InFlight
      BY <3>1 DEF InFlight
    <3> QED BY <3>2 DEF OneInFlight
  <2> QED BY <2>1, <2>2, <2>3
<1> QED BY <1>1, <1>2, <1>3, <1>4, <1>5 DEF Next

\* One object at a time, a future that is never dropped, a process that does not
\* die and a delete_blob that does not fail: then no backup ends before it has
\* taken back the wrong bytes it has put.
THEOREM NothingAbandoned ==
  Concurrency \leq 1 /\ ~Cancels /\ ~DeleteFails => (Spec => [][~Abandons]_vars)
<1> SUFFICES ASSUME Concurrency \leq 1, ~Cancels, ~DeleteFails PROVE Spec => [][~Abandons]_vars
  OBVIOUS
<1>1. Init => OneInFlight
  BY DEF Init, OneInFlight, InFlight, Indexes
<1>2. ObjectInv /\ OneInFlight /\ [Next]_vars => OneInFlight'
  BY SerialInductive
<1>3. ObjectInv /\ OneInFlight /\ [Next]_vars => [~Abandons]_vars
  <2> SUFFICES ASSUME OneInFlight, Next, running, ~running', NEW j \in Indexes, future[j] = "undo"
               PROVE  FALSE
    BY DEF Abandons
  <2>1. CASE ChangeSource \/ Begin \/ Cancel \/ Finish \/ Prune
    BY <2>1 DEF ChangeSource, Begin, Cancel, Finish, Prune
  <2>2. ASSUME NEW i \in Indexes, Poll(i) PROVE FALSE
    <3>1. Fail(i)
      BY <2>2 DEF Poll, Start, Load, PutIfAbsent, Rehash, Undo
    <3>2. i \in InFlight /\ j \in InFlight
      BY <3>1 DEF Fail, InFlight
    <3>3. i = j
      BY <3>2 DEF OneInFlight
    <3> QED BY <3>1, <3>3 DEF Fail
  <2> QED BY <2>1, <2>2 DEF Next
<1> QED BY <1>1, <1>2, <1>3, ObjectInvariant, PTL DEF Spec

\* Then every object blob a manifest names has the right bytes, whatever the
\* sources serve and whichever other call fails.
THEOREM GoodWhenSerial ==
  Concurrency \leq 1 /\ ~Cancels /\ ~DeleteFails => (Spec => []NamedAreGood)
BY NothingAbandoned, GoodUnlessAbandoned, PTL
=============================================================================
