-------------------------- MODULE CompactionProofs --------------------------
(***************************************************************************)
(* Loading a chain and folding it into one snapshot, for every repository,  *)
(* every chain and journals of any length: the chain that is found is the   *)
(* chain of the requested snapshot, and what compact_chain makes of it are  *)
(* the rows and objects of the database at that snapshot.                   *)
(***************************************************************************)
EXTENDS ChainCompaction, NaturalRecursion

-----------------------------------------------------------------------------
(* The rows after some changes, each as far as its last change says.       *)

LEMMA AfterNone == \A rows \in Rows : \A journal : After(rows, journal, 0) = rows
BY DEF After, Rows

\* A place that no change names keeps its row.
LEMMA AfterElsewhere ==
  ASSUME NEW rows, NEW journal, NEW n \in Nat, NEW p \in Places,
         \A i \in 1..n : journal[i].place # p
  PROVE  After(rows, journal, n)[p] = rows[p]
BY DEF After

\* A change touches its own place, and leaves there what it says or what was there.
LEMMA ReplayLocal ==
  ASSUME NEW rows \in Rows, NEW others \in Rows, NEW c \in Change, NEW p \in Places
  PROVE  /\ Replay(rows, c) \in Rows
         /\ p # c.place => Replay(rows, c)[p] = rows[p]
         /\ rows[p] = others[p] => Replay(rows, c)[p] = Replay(others, c)[p]
<1>1. c.place \in Places /\ c.row \in RowBodies \union {NoRow}
  BY DEF Change
<1> QED BY <1>1 DEF Replay, Rows

\* What is at a place afterwards depends on nothing but what was there before.
LEMMA AfterLocal ==
  ASSUME NEW rows, NEW others, NEW journal, NEW n \in Nat, NEW p \in Places,
         rows[p] = others[p]
  PROVE  After(rows, journal, n)[p] = After(others, journal, n)[p]
BY DEF After

LEMMA AfterStep ==
  ASSUME NEW rows \in Rows, NEW journal \in Seq(Change), NEW n \in 1..Len(journal)
  PROVE  After(rows, journal, n) = Replay(After(rows, journal, n - 1), journal[n])
<1> DEFINE c == journal[n]
           mine(p, k) == {i \in 1..k : journal[i].place = p /\ ~Silent(journal[i])}
           last(p, k) == CHOOSE i \in mine(p, k) : \A j \in mine(p, k) : j <= i
<1>1. ASSUME NEW p \in Places
      PROVE  After(rows, journal, n)[p] = IF p = c.place /\ ~Silent(c) THEN c.row
                                          ELSE After(rows, journal, n - 1)[p]
  <2>1. CASE p = c.place /\ ~Silent(c)
    <3>1. n \in mine(p, n) /\ \A j \in mine(p, n) : j <= n
      BY <2>1
    <3>2. last(p, n) = n
      <4>1. \A i \in mine(p, n) : (\A j \in mine(p, n) : j <= i) => i = n
        BY <3>1
      <4> HIDE DEF mine
      <4> QED BY <3>1, <4>1
    <3> QED BY <2>1, <3>1, <3>2 DEF After
  <2>2. CASE ~(p = c.place /\ ~Silent(c))
    <3>1. mine(p, n) = mine(p, n - 1)
      BY <2>2
    <3>2. After(rows, journal, n)[p] = IF mine(p, n) = {} THEN rows[p] ELSE journal[last(p, n)].row
      BY DEF After
    <3>3. After(rows, journal, n - 1)[p] =
            IF mine(p, n - 1) = {} THEN rows[p] ELSE journal[last(p, n - 1)].row
      BY DEF After
    <3> QED BY <2>2, <3>1, <3>2, <3>3
  <2> QED BY <2>1, <2>2
<1>2. \A k : After(rows, journal, k) = [p \in Places |-> After(rows, journal, k)[p]]
  BY DEF After
<1> HIDE DEF c
<1>3. CASE Silent(c)
  BY <1>1, <1>2, <1>3 DEF Replay, c
<1>4. CASE ~Silent(c)
  BY <1>1, <1>2, <1>4 DEF Replay, c
<1> QED BY <1>3, <1>4

LEMMA ChangeType ==
  ASSUME NEW c \in Change
  PROVE  /\ c.place \in Places /\ c.row \in RowBodies \union {NoRow}
         /\ c.action = "delete" => c.row = NoRow
BY DEF Change

LEMMA AfterType ==
  ASSUME NEW rows \in Rows, NEW journal \in Seq(Change), NEW n \in 0..Len(journal)
  PROVE  After(rows, journal, n) \in Rows
<1> DEFINE S == {k \in Nat : k <= Len(journal) => After(rows, journal, k) \in Rows}
<1>1. 0 \in S
  BY AfterNone
<1>2. ASSUME NEW k \in Nat, k \in S PROVE k + 1 \in S
  <2> SUFFICES ASSUME k + 1 <= Len(journal) PROVE After(rows, journal, k + 1) \in Rows
    OBVIOUS
  <2>1. k + 1 \in 1..Len(journal) /\ (k + 1) - 1 = k /\ journal[k + 1] \in Change
    OBVIOUS
  <2>2. After(rows, journal, k) \in Rows
    BY <1>2, <2>1
  <2>3. Replay(After(rows, journal, k), journal[k + 1]) \in Rows
    <3>1. journal[k + 1].place \in Places
      BY <2>1, ChangeType
    <3> QED BY <2>1, <2>2, <3>1, ReplayLocal
  <2>4. After(rows, journal, k + 1) = Replay(After(rows, journal, (k + 1) - 1), journal[k + 1])
    BY <2>1, AfterStep
  <2> QED BY <2>1, <2>3, <2>4
<1> HIDE DEF S
<1>3. n \in S
  BY <1>1, <1>2, Induction
<1> QED BY <1>3 DEF S

\* What comes later in a journal does not matter before.
LEMMA AfterPrefix ==
  ASSUME NEW rows \in Rows, NEW journal \in Seq(Change), NEW c \in Change,
         NEW n \in 0..Len(journal)
  PROVE  After(rows, Append(journal, c), n) = After(rows, journal, n)
<1> DEFINE longer == Append(journal, c)
           S == {k \in Nat : k <= Len(journal) =>
                               After(rows, longer, k) = After(rows, journal, k)}
<1>1. 0 \in S
  BY AfterNone
<1>2. ASSUME NEW k \in Nat, k \in S PROVE k + 1 \in S
  <2> SUFFICES ASSUME k + 1 <= Len(journal)
               PROVE  After(rows, longer, k + 1) = After(rows, journal, k + 1)
    OBVIOUS
  <2>1. /\ k + 1 \in 1..Len(journal) /\ k + 1 \in 1..Len(longer) /\ (k + 1) - 1 = k
        /\ longer \in Seq(Change) /\ longer[k + 1] = journal[k + 1]
    OBVIOUS
  <2>2. After(rows, longer, k) = After(rows, journal, k)
    BY <1>2, <2>1
  <2> DEFINE m == k + 1
  <2> HIDE DEF longer, m
  <2>5. m \in 1..Len(journal) /\ m \in 1..Len(longer) /\ m - 1 = k /\ m = k + 1
    BY <2>1 DEF m
  <2>3. After(rows, longer, m) = Replay(After(rows, longer, m - 1), longer[m])
    BY <2>1, <2>5, AfterStep
  <2>4. After(rows, journal, m) = Replay(After(rows, journal, m - 1), journal[m])
    BY <2>5, AfterStep
  <2> QED BY <2>1, <2>2, <2>3, <2>4, <2>5
<1> HIDE DEF S
<1>3. n \in S
  BY <1>1, <1>2, Induction
<1> QED BY <1>3 DEF S

\* The rows after all the changes
AfterAll(rows, changes) == After(rows, changes, Len(changes))

LEMMA AfterAppend ==
  ASSUME NEW rows \in Rows, NEW changes \in Seq(Change), NEW c \in Change
  PROVE  AfterAll(rows, Append(changes, c)) = Replay(AfterAll(rows, changes), c)
<1> DEFINE longer == Append(changes, c)
           n == Len(longer)
<1>1. /\ n \in 1..Len(longer) /\ longer[n] = c /\ n - 1 = Len(changes)
      /\ longer \in Seq(Change)
  OBVIOUS
<1>2. Len(changes) \in 0..Len(changes)
  OBVIOUS
<1>3. After(rows, longer, n - 1) = After(rows, changes, Len(changes))
  BY <1>1, <1>2, AfterPrefix
<1> HIDE DEF longer
<1>4. After(rows, longer, n) = Replay(After(rows, longer, n - 1), longer[n])
  BY <1>1, AfterStep
<1> QED BY <1>1, <1>3, <1>4 DEF AfterAll, longer

-----------------------------------------------------------------------------
(* Replaying a payload.                                                    *)

\* Replaying changes one by one leads to what the last change of each place says.
LEMMA ReplayedIsAfter ==
  ASSUME NEW rows \in Rows, NEW changes \in Seq(Change)
  PROVE  Replayed(rows, changes) = AfterAll(rows, changes)
<1> DEFINE L == Len(changes)
           Entry(f, n) == IF n = 0 THEN rows ELSE Replay(f[n - 1], changes[n])
           upTo == CHOOSE f : f = [n \in 0..L |-> Entry(f, n)]
           g == [n \in 0..L |-> After(rows, changes, n)]
<1>1. ASSUME NEW n \in 1..L PROVE After(rows, changes, n) = Replay(After(rows, changes, n - 1), changes[n])
  BY AfterStep
<1>2. \A n \in 0..L : g[n] = Entry(g, n)
  <2> SUFFICES ASSUME NEW n \in 0..L PROVE g[n] = Entry(g, n)
    OBVIOUS
  <2>1. CASE n = 0
    BY <2>1, AfterNone
  <2>2. CASE n # 0
    <3>1. n \in 1..L /\ n - 1 \in 0..L
      BY <2>2
    <3>2. g[n] = After(rows, changes, n) /\ g[n - 1] = After(rows, changes, n - 1)
      BY <3>1
    <3> HIDE DEF g
    <3> QED BY <1>1, <2>2, <3>1, <3>2
  <2> QED BY <2>1, <2>2
<1>3. g = [n \in 0..L |-> Entry(g, n)]
  <2> HIDE DEF Entry
  <2> QED BY <1>2
<1>4. upTo = [n \in 0..L |-> Entry(upTo, n)]
  <2> HIDE DEF Entry, g
  <2> QED BY <1>3
<1>5. Replayed(rows, changes) = upTo[L]
  BY Zenon DEF Replayed, Entry
<1> HIDE DEF upTo
<1>6. \A n \in 0..L : upTo[n] = Entry(upTo, n)
  <2> HIDE DEF Entry
  <2> QED BY <1>4
<1> DEFINE S == {n \in Nat : n <= L => upTo[n] = After(rows, changes, n)}
<1>7. 0 \in S
  BY <1>6, AfterNone
<1>8. ASSUME NEW n \in Nat, n \in S PROVE n + 1 \in S
  <2> SUFFICES ASSUME n + 1 <= L PROVE upTo[n + 1] = After(rows, changes, n + 1)
    OBVIOUS
  <2>1. n + 1 \in 1..L /\ n + 1 \in 0..L /\ (n + 1) - 1 = n /\ n + 1 # 0
    OBVIOUS
  <2>2. upTo[n] = After(rows, changes, n)
    BY <1>8
  <2>3. upTo[n + 1] = Replay(upTo[n], changes[n + 1])
    BY <1>6, <2>1
  <2> QED BY <1>1, <2>1, <2>2, <2>3
<1> HIDE DEF S
<1>9. L \in S
  BY <1>7, <1>8, Induction
<1> QED BY <1>5, <1>9 DEF S, AfterAll

-----------------------------------------------------------------------------
(* Grouping a journal by table.                                            *)

Group == [table : {Table(c) : c \in Change}, changes : Seq(Change)]

\* The groups hold what the journal does to each place: a place is named in the
\* group of its table only, and there its changes are in their order.
GroupsHold(groups, journal, n) ==
  /\ \A i, k \in DOMAIN groups : groups[i].table = groups[k].table => i = k
  /\ \A i \in DOMAIN groups : \A m \in DOMAIN groups[i].changes :
       Table(groups[i].changes[m]) = groups[i].table
  /\ \A rows \in Rows : \A p \in Places :
       /\ \A i \in DOMAIN groups : groups[i].table = p[1] =>
            AfterAll(rows, groups[i].changes)[p] = After(rows, journal, n)[p]
       /\ (\A i \in DOMAIN groups : groups[i].table # p[1]) =>
            After(rows, journal, n)[p] = rows[p]

LEMMA NewGroup ==
  ASSUME NEW groups \in Seq(Group), NEW c \in Change,
         \A i \in DOMAIN groups : groups[i].table # Table(c)
  PROVE  AddToGroup(groups, c) = Append(groups, [table |-> Table(c), changes |-> <<c>>])
BY Zenon DEF AddToGroup

LEMMA GrownGroup ==
  ASSUME NEW groups \in Seq(Group), NEW c \in Change,
         NEW k \in DOMAIN groups, groups[k].table = Table(c)
  PROVE  /\ DOMAIN AddToGroup(groups, c) = DOMAIN groups
         /\ AddToGroup(groups, c) \in Seq(Group)
         /\ \A i \in DOMAIN groups :
              /\ AddToGroup(groups, c)[i].table = groups[i].table
              /\ groups[i].table # Table(c) => AddToGroup(groups, c)[i] = groups[i]
              /\ groups[i].table = Table(c) =>
                   AddToGroup(groups, c)[i].changes = Append(groups[i].changes, c)
<1> DEFINE grown == [i \in DOMAIN groups |->
                       IF groups[i].table = Table(c)
                         THEN [groups[i] EXCEPT !.changes = Append(@, c)] ELSE groups[i]]
<1>1. AddToGroup(groups, c) = grown
  BY DEF AddToGroup
<1>2. ASSUME NEW i \in DOMAIN groups
      PROVE  /\ groups[i] \in Group /\ grown[i] \in Group
             /\ grown[i].table = groups[i].table
             /\ groups[i].table # Table(c) => grown[i] = groups[i]
             /\ groups[i].table = Table(c) => grown[i].changes = Append(groups[i].changes, c)
  <2>1. groups[i] \in Group
    OBVIOUS
  <2>2. groups[i].changes \in Seq(Change) /\ groups[i].table \in {Table(x) : x \in Change}
    BY <2>1 DEF Group
  <2>3. CASE groups[i].table = Table(c)
    <3>1. Append(groups[i].changes, c) \in Seq(Change)
      BY <2>2
    <3>2. grown[i] = [groups[i] EXCEPT !.changes = Append(groups[i].changes, c)]
      BY <2>3
    <3> HIDE DEF grown
    <3> QED BY <2>1, <2>3, <3>1, <3>2 DEF Group
  <2>4. CASE groups[i].table # Table(c)
    BY <2>1, <2>4
  <2> QED BY <2>3, <2>4
<1>3. grown \in Seq(Group)
  <2>1. DOMAIN groups = 1..Len(groups) /\ Len(groups) \in Nat
    OBVIOUS
  <2>2. grown \in [1..Len(groups) -> Group]
    BY <1>2, <2>1
  <2> HIDE DEF grown
  <2> QED BY <2>1, <2>2
<1> QED BY <1>1, <1>2, <1>3

LEMMA AddToGroupType ==
  ASSUME NEW groups \in Seq(Group), NEW c \in Change
  PROVE  AddToGroup(groups, c) \in Seq(Group)
<1>1. CASE \A i \in DOMAIN groups : groups[i].table # Table(c)
  <2>1. [table |-> Table(c), changes |-> <<c>>] \in Group
    BY DEF Group
  <2> QED BY <1>1, <2>1, NewGroup
<1>2. CASE \E i \in DOMAIN groups : groups[i].table = Table(c)
  BY <1>2, GrownGroup
<1> QED BY <1>1, <1>2

LEMMA AfterGroup ==
  ASSUME NEW groups \in Seq(Group), NEW i \in DOMAIN groups
  PROVE  groups[i].changes \in Seq(Change) /\ Len(groups[i].changes) \in Nat
<1>1. groups[i] \in Group
  OBVIOUS
<1> QED BY <1>1 DEF Group

\* A new group has the change of its table that the journal comes to.
LEMMA NewGroupHolds ==
  ASSUME NEW journal \in Seq(Change), NEW n \in 1..Len(journal),
         NEW groups \in Seq(Group), GroupsHold(groups, journal, n - 1),
         \A i \in DOMAIN groups : groups[i].table # Table(journal[n])
  PROVE  GroupsHold(AddToGroup(groups, journal[n]), journal, n)
<1> DEFINE c == journal[n]
           added == [table |-> Table(c), changes |-> <<c>>]
           more == Append(groups, added)
           L == Len(groups)
<1>1. c \in Change /\ n \in Nat /\ AddToGroup(groups, c) = more
  BY NewGroup
<1>2. /\ L \in Nat /\ DOMAIN groups = 1..L /\ DOMAIN more = 1..(L + 1)
      /\ more[L + 1] = added /\ \A i \in 1..L : more[i] = groups[i]
  OBVIOUS
<1>3. added.table = Table(c) /\ added.changes = <<c>>
  OBVIOUS
<1> HIDE DEF added, more
<1>4. \A i, k \in DOMAIN more : more[i].table = more[k].table => i = k
  <2>1. \A i \in 1..(L + 1) : i \in 1..L \/ i = L + 1
    BY <1>2
  <2> QED BY <1>2, <1>3, <2>1 DEF GroupsHold
<1>5. \A i \in DOMAIN more : \A m \in DOMAIN more[i].changes :
        Table(more[i].changes[m]) = more[i].table
  <2>1. \A i \in 1..(L + 1) : i \in 1..L \/ i = L + 1
    BY <1>2
  <2>2. DOMAIN <<c>> = {1} /\ <<c>>[1] = c
    OBVIOUS
  <2> QED BY <1>2, <1>3, <2>1, <2>2 DEF GroupsHold
<1>6. ASSUME NEW rows \in Rows, NEW p \in Places
      PROVE  /\ \A i \in DOMAIN more : more[i].table = p[1] =>
                  AfterAll(rows, more[i].changes)[p] = After(rows, journal, n)[p]
             /\ (\A i \in DOMAIN more : more[i].table # p[1]) =>
                  After(rows, journal, n)[p] = rows[p]
  <2>1. After(rows, journal, n) = Replay(After(rows, journal, n - 1), c)
    BY AfterStep
  <2>2. n - 1 \in 0..Len(journal) /\ After(rows, journal, n - 1) \in Rows
    BY AfterType
  <2>3. AfterAll(rows, <<c>>) = Replay(rows, c)
    <3> DEFINE empty == <<>>
    <3>1. Append(empty, c) = <<c>> /\ Len(empty) = 0
      BY <1>1
    <3>4. empty \in Seq(Change) /\ c \in Change
      BY <1>1
    <3> HIDE DEF empty, c
    <3>2. AfterAll(rows, empty) = rows
      BY <3>1, AfterNone DEF AfterAll
    <3>3. AfterAll(rows, Append(empty, c)) = Replay(AfterAll(rows, empty), c)
      BY <3>4, AfterAppend
    <3> QED BY <3>1, <3>2, <3>3
  <2>4. Table(c) = p[1] => After(rows, journal, n - 1)[p] = rows[p]
    BY DEF GroupsHold
  <2>5. Table(c) = p[1] => AfterAll(rows, <<c>>)[p] = After(rows, journal, n)[p]
    <3> SUFFICES ASSUME Table(c) = p[1] PROVE AfterAll(rows, <<c>>)[p] = After(rows, journal, n)[p]
      OBVIOUS
    <3> HIDE DEF c
    <3>1. PICK before \in Rows : before = After(rows, journal, n - 1)
      BY <2>2
    <3>2. before[p] = rows[p]
      BY <2>4, <3>1
    <3>3. Replay(before, c)[p] = Replay(rows, c)[p]
      BY <1>1, <3>2, ReplayLocal
    <3> QED BY <2>1, <2>3, <3>1, <3>3
  <2>6. Table(c) # p[1] => After(rows, journal, n)[p] = After(rows, journal, n - 1)[p]
    <3> SUFFICES ASSUME Table(c) # p[1] PROVE After(rows, journal, n)[p] = After(rows, journal, n - 1)[p]
      OBVIOUS
    <3>1. p # c.place
      BY DEF Table
    <3> HIDE DEF c
    <3>2. PICK before \in Rows : before = After(rows, journal, n - 1)
      BY <2>2
    <3>3. Replay(before, c)[p] = before[p]
      BY <1>1, <3>1, ReplayLocal
    <3> QED BY <2>1, <3>2, <3>3
  <2>7. ASSUME NEW i \in 1..L, groups[i].table = p[1]
        PROVE  AfterAll(rows, groups[i].changes)[p] = After(rows, journal, n)[p]
    <3>1. Table(c) # p[1]
      BY <1>2, <2>7
    <3> QED BY <1>2, <2>6, <2>7, <3>1 DEF GroupsHold
  <2>8. (\A i \in DOMAIN more : more[i].table # p[1]) => After(rows, journal, n)[p] = rows[p]
    <3> SUFFICES ASSUME \A i \in DOMAIN more : more[i].table # p[1]
                 PROVE  After(rows, journal, n)[p] = rows[p]
      OBVIOUS
    <3>1. Table(c) # p[1]
      BY <1>2, <1>3
    <3>2. \A i \in DOMAIN groups : groups[i].table # p[1]
      BY <1>2
    <3> QED BY <2>6, <3>1, <3>2 DEF GroupsHold
  <2>9. \A i \in 1..(L + 1) : i \in 1..L \/ i = L + 1
    BY <1>2
  <2> QED BY <1>2, <1>3, <2>5, <2>7, <2>8, <2>9
<1> QED BY <1>1, <1>4, <1>5, <1>6 DEF GroupsHold

\* So does the group of its table, if there is one.
LEMMA GrownGroupHolds ==
  ASSUME NEW journal \in Seq(Change), NEW n \in 1..Len(journal),
         NEW groups \in Seq(Group), GroupsHold(groups, journal, n - 1),
         NEW k \in DOMAIN groups, groups[k].table = Table(journal[n])
  PROVE  GroupsHold(AddToGroup(groups, journal[n]), journal, n)
<1> DEFINE c == journal[n]
           grown == AddToGroup(groups, c)
<1>1. c \in Change
  OBVIOUS
<1>2. /\ DOMAIN grown = DOMAIN groups
      /\ \A i \in DOMAIN groups :
           /\ grown[i].table = groups[i].table
           /\ groups[i].table # Table(c) => grown[i] = groups[i]
           /\ groups[i].table = Table(c) => grown[i].changes = Append(groups[i].changes, c)
  BY <1>1, GrownGroup
<1> HIDE DEF grown
<1>3. \A i, j \in DOMAIN grown : grown[i].table = grown[j].table => i = j
  BY <1>2 DEF GroupsHold
<1>4. ASSUME NEW i \in DOMAIN grown, NEW m \in DOMAIN grown[i].changes
      PROVE  Table(grown[i].changes[m]) = grown[i].table
  <2>1. CASE groups[i].table # Table(c)
    BY <1>2, <2>1 DEF GroupsHold
  <2>2. CASE groups[i].table = Table(c)
    <3>1. groups[i].changes \in Seq(Change) /\ grown[i].changes = Append(groups[i].changes, c)
      BY <1>2, <2>2, AfterGroup
    <3>2. \/ m \in DOMAIN groups[i].changes /\ grown[i].changes[m] = groups[i].changes[m]
          \/ grown[i].changes[m] = c
      BY <3>1
    <3> QED BY <1>2, <2>2, <3>2 DEF GroupsHold
  <2> QED BY <2>1, <2>2
<1>5. ASSUME NEW rows \in Rows, NEW p \in Places
      PROVE  /\ \A i \in DOMAIN grown : grown[i].table = p[1] =>
                  AfterAll(rows, grown[i].changes)[p] = After(rows, journal, n)[p]
             /\ (\A i \in DOMAIN grown : grown[i].table # p[1]) =>
                  After(rows, journal, n)[p] = rows[p]
  <2>1. After(rows, journal, n) = Replay(After(rows, journal, n - 1), c)
    BY AfterStep
  <2>2. n - 1 \in 0..Len(journal) /\ After(rows, journal, n - 1) \in Rows
    BY AfterType
  <2>3. Table(c) # p[1] => After(rows, journal, n)[p] = After(rows, journal, n - 1)[p]
    <3> SUFFICES ASSUME Table(c) # p[1] PROVE After(rows, journal, n)[p] = After(rows, journal, n - 1)[p]
      OBVIOUS
    <3>1. p # c.place
      BY DEF Table
    <3> HIDE DEF c
    <3> QED BY <1>1, <2>1, <2>2, <3>1, ReplayLocal
  <2>4. ASSUME NEW i \in DOMAIN groups, groups[i].table = p[1]
        PROVE  AfterAll(rows, grown[i].changes)[p] = After(rows, journal, n)[p]
    <3>1. AfterAll(rows, groups[i].changes)[p] = After(rows, journal, n - 1)[p]
      BY <2>4 DEF GroupsHold
    <3>2. CASE groups[i].table # Table(c)
      BY <1>2, <2>3, <2>4, <3>1, <3>2
    <3>3. CASE groups[i].table = Table(c)
      <4>1. groups[i].changes \in Seq(Change) /\ Len(groups[i].changes) \in Nat
        BY AfterGroup
      <4>2. AfterAll(rows, groups[i].changes) \in Rows
        BY <4>1, AfterType DEF AfterAll
      <4>3. AfterAll(rows, grown[i].changes) = Replay(AfterAll(rows, groups[i].changes), c)
        <5>1. grown[i].changes = Append(groups[i].changes, c)
          BY <1>2, <3>3
        <5>2. c \in Change
          BY <1>1
        <5> HIDE DEF c, grown
        <5>3. AfterAll(rows, Append(groups[i].changes, c)) = Replay(AfterAll(rows, groups[i].changes), c)
          BY <4>1, <5>2, AfterAppend
        <5> QED BY <5>1, <5>3
      <4> HIDE DEF c
      <4> QED BY <1>1, <2>1, <2>2, <3>1, <4>2, <4>3, ReplayLocal
    <3> QED BY <3>2, <3>3
  <2>5. (\A i \in DOMAIN grown : grown[i].table # p[1]) => After(rows, journal, n)[p] = rows[p]
    <3> SUFFICES ASSUME \A i \in DOMAIN grown : grown[i].table # p[1]
                 PROVE  After(rows, journal, n)[p] = rows[p]
      OBVIOUS
    <3>1. Table(c) # p[1] /\ \A i \in DOMAIN groups : groups[i].table # p[1]
      BY <1>2
    <3> QED BY <2>3, <3>1 DEF GroupsHold
  <2> QED BY <1>2, <2>4, <2>5
<1> QED BY <1>3, <1>4, <1>5 DEF GroupsHold, grown

\* group_changes_by_table loses nothing that matters for the rows.
LEMMA GroupedHolds ==
  ASSUME NEW journal \in Seq(Change)
  PROVE  /\ Grouped(journal) \in Seq(Group)
         /\ GroupsHold(Grouped(journal), journal, Len(journal))
<1> DEFINE L == Len(journal)
           Entry(f, n) == IF n = 0 THEN <<>> ELSE AddToGroup(f[n - 1], journal[n])
           upTo == CHOOSE f : f = [n \in 0..L |-> Entry(f, n)]
           add == [n \in 1..L |-> [groups \in Seq(Group) |-> AddToGroup(groups, journal[n])]]
<1>1. \A n \in 1..L : journal[n] \in Change
  OBVIOUS
<1>2. add \in Turns(Seq(Group), L)
  BY <1>1, AddToGroupType DEF Turns
<1>3. L \in Nat /\ <<>> \in Seq(Group)
  OBVIOUS
<1>4. PICK f \in [0..L -> Seq(Group)] : f[0] = <<>> /\ \A n \in 1..L : f[n] = add[n][f[n - 1]]
  <2> HIDE DEF add
  <2>1. Computations(Seq(Group), L, <<>>, add) # {}
    BY <1>2, <1>3, Iteration
  <2> QED BY <2>1 DEF Computations
<1>5. f = [n \in 0..L |-> Entry(f, n)]
  <2>1. ASSUME NEW n \in 0..L PROVE f[n] = Entry(f, n)
    <3>1. n # 0 => n \in 1..L /\ f[n - 1] \in Seq(Group)
      BY <1>3
    <3> QED BY <1>4, <3>1
  <2> HIDE DEF Entry, add
  <2> QED BY <1>4, <2>1
<1>6. upTo = [n \in 0..L |-> Entry(upTo, n)]
  <2> HIDE DEF Entry, add
  <2> QED BY <1>5
<1>7. Grouped(journal) = upTo[L]
  BY Zenon DEF Grouped, Entry
<1> HIDE DEF upTo
<1>8. \A n \in 0..L : upTo[n] = Entry(upTo, n)
  <2> HIDE DEF Entry
  <2> QED BY <1>6
<1> DEFINE S == {n \in Nat : n <= L => upTo[n] \in Seq(Group) /\ GroupsHold(upTo[n], journal, n)}
<1>9. 0 \in S
  <2>1. upTo[0] = <<>>
    BY <1>3, <1>8
  <2>2. GroupsHold(<<>>, journal, 0)
    BY AfterNone DEF GroupsHold
  <2> QED BY <1>3, <2>1, <2>2
<1>10. ASSUME NEW n \in Nat, n \in S PROVE n + 1 \in S
  <2> SUFFICES ASSUME n + 1 <= L
               PROVE  upTo[n + 1] \in Seq(Group) /\ GroupsHold(upTo[n + 1], journal, n + 1)
    OBVIOUS
  <2>1. n + 1 \in 1..L /\ n + 1 \in 0..L /\ (n + 1) - 1 = n /\ n + 1 # 0
    OBVIOUS
  <2>2. upTo[n] \in Seq(Group) /\ GroupsHold(upTo[n], journal, n)
    BY <1>10, <2>1
  <2>3. upTo[n + 1] = AddToGroup(upTo[n], journal[n + 1])
    BY <1>8, <2>1
  <2>4. GroupsHold(AddToGroup(upTo[n], journal[n + 1]), journal, n + 1)
    <3>1. CASE \A i \in DOMAIN upTo[n] : upTo[n][i].table # Table(journal[n + 1])
      BY <2>1, <2>2, <3>1, NewGroupHolds
    <3>2. CASE \E i \in DOMAIN upTo[n] : upTo[n][i].table = Table(journal[n + 1])
      BY <2>1, <2>2, <3>2, GrownGroupHolds
    <3> QED BY <3>1, <3>2
  <2> QED BY <1>1, <2>1, <2>2, <2>3, <2>4, AddToGroupType
<1> HIDE DEF S
<1>11. L \in S
  BY <1>3, <1>9, <1>10, Induction
<1> QED BY <1>7, <1>11 DEF S

\* Replaying group after group leaves at each place what the group of its table
\* says, which no other group touches.
LEMMA ReplayedGroupsHold ==
  ASSUME NEW rows \in Rows, NEW journal \in Seq(Change),
         NEW groups \in Seq(Group), GroupsHold(groups, journal, Len(journal))
  PROVE  ReplayedGroups(rows, groups) = AfterAll(rows, journal)
<1> DEFINE L == Len(groups)
           Entry(f, n) == IF n = 0 THEN rows ELSE Replayed(f[n - 1], groups[n].changes)
           upTo == CHOOSE f : f = [n \in 0..L |-> Entry(f, n)]
           replay == [n \in 1..L |-> [r \in Rows |-> Replayed(r, groups[n].changes)]]
<1>1. L \in Nat /\ DOMAIN groups = 1..L
  OBVIOUS
<1>2. ASSUME NEW n \in 1..L, NEW r \in Rows
      PROVE  /\ Replayed(r, groups[n].changes) = AfterAll(r, groups[n].changes)
             /\ Replayed(r, groups[n].changes) \in Rows
  <2>1. groups[n].changes \in Seq(Change) /\ Len(groups[n].changes) \in 0..Len(groups[n].changes)
    BY <1>1, AfterGroup
  <2>2. Replayed(r, groups[n].changes) = AfterAll(r, groups[n].changes)
    BY <2>1, ReplayedIsAfter
  <2>3. After(r, groups[n].changes, Len(groups[n].changes)) \in Rows
    BY <2>1, AfterType
  <2> QED BY <2>2, <2>3 DEF AfterAll
<1>3. replay \in Turns(Rows, L)
  BY <1>2 DEF Turns
<1>4. PICK f \in [0..L -> Rows] : f[0] = rows /\ \A n \in 1..L : f[n] = replay[n][f[n - 1]]
  <2> HIDE DEF replay, L
  <2>1. Computations(Rows, L, rows, replay) # {}
    BY <1>1, <1>3, Iteration
  <2> QED BY <2>1 DEF Computations
<1>5. \A n \in 0..L : f[n] = Entry(f, n)
  <2> SUFFICES ASSUME NEW n \in 0..L PROVE f[n] = Entry(f, n)
    OBVIOUS
  <2>1. n # 0 => n \in 1..L /\ f[n - 1] \in Rows
    BY <1>1
  <2> QED BY <1>4, <2>1
<1>6. f = [n \in 0..L |-> Entry(f, n)]
  <2> HIDE DEF Entry, replay
  <2> QED BY <1>4, <1>5
<1>7. upTo = [n \in 0..L |-> Entry(upTo, n)]
  <2> HIDE DEF Entry, replay
  <2> QED BY <1>6
<1>8. ReplayedGroups(rows, groups) = upTo[L]
  BY Zenon DEF ReplayedGroups, Entry
<1> HIDE DEF upTo
<1>9. \A n \in 0..L : upTo[n] = Entry(upTo, n)
  <2> HIDE DEF Entry
  <2> QED BY <1>7
\* Each place as the groups so far leave it
<1> DEFINE Holds(r, n) ==
             /\ r \in Rows
             /\ \A p \in Places :
                  /\ (\A k \in 1..n : groups[k].table # p[1]) => r[p] = rows[p]
                  /\ \A k \in 1..n : groups[k].table = p[1] =>
                       r[p] = AfterAll(rows, groups[k].changes)[p]
           S == {n \in Nat : n <= L => Holds(upTo[n], n)}
<1>10. 0 \in S
  <2>1. upTo[0] = rows
    BY <1>1, <1>9
  <2> QED BY <2>1
<1>11. ASSUME NEW n \in Nat, n \in S PROVE n + 1 \in S
  <2> SUFFICES ASSUME n + 1 <= L PROVE Holds(upTo[n + 1], n + 1)
    OBVIOUS
  <2>1. /\ n + 1 \in 1..L /\ n + 1 \in 0..L /\ (n + 1) - 1 = n /\ n + 1 # 0
        /\ \A k \in 1..(n + 1) : k \in 1..n \/ k = n + 1
        /\ 1..n \subseteq 1..L /\ 1..n \subseteq 1..(n + 1) /\ n + 1 \in 1..(n + 1)
    BY <1>1
  <2>2. Holds(upTo[n], n)
    BY <1>11, <2>1
  <2> DEFINE changes == groups[n + 1].changes
  <2>3. changes \in Seq(Change) /\ Len(changes) \in Nat
    BY <1>1, <2>1, AfterGroup
  <2>4. upTo[n + 1] = AfterAll(upTo[n], changes) /\ upTo[n + 1] \in Rows
    BY <1>2, <1>9, <2>1, <2>2
  <2>5. ASSUME NEW p \in Places, groups[n + 1].table # p[1]
        PROVE  upTo[n + 1][p] = upTo[n][p]
    <3>1. \A m \in 1..Len(changes) : changes[m].place # p
      BY <1>1, <2>1, <2>3, <2>5 DEF GroupsHold, Table
    <3> HIDE DEF changes, upTo
    <3>2. After(upTo[n], changes, Len(changes))[p] = upTo[n][p]
      BY <2>3, <3>1, AfterElsewhere
    <3> QED BY <2>4, <3>2 DEF AfterAll
  <2>6. ASSUME NEW p \in Places, groups[n + 1].table = p[1]
        PROVE  upTo[n + 1][p] = AfterAll(rows, changes)[p]
    <3>1. \A k \in 1..n : groups[k].table # p[1]
      <4>1. \A k \in 1..n : k # n + 1 /\ k \in 1..L
        BY <2>1
      <4>2. \A i, k \in 1..L : groups[i].table = groups[k].table => i = k
        BY <1>1 DEF GroupsHold
      <4> QED BY <2>1, <2>6, <4>1, <4>2
    <3>2. upTo[n][p] = rows[p]
      BY <2>2, <3>1
    <3> HIDE DEF changes, upTo
    <3>3. After(upTo[n], changes, Len(changes))[p] = After(rows, changes, Len(changes))[p]
      BY <2>3, <3>2, AfterLocal
    <3> QED BY <2>4, <3>3 DEF AfterAll
  <2> HIDE DEF changes
  <2>7. ASSUME NEW p \in Places, \A k \in 1..(n + 1) : groups[k].table # p[1]
        PROVE  upTo[n + 1][p] = rows[p]
    BY <2>1, <2>2, <2>5, <2>7
  <2>8. ASSUME NEW p \in Places, NEW k \in 1..(n + 1), groups[k].table = p[1]
        PROVE  upTo[n + 1][p] = AfterAll(rows, groups[k].changes)[p]
    <3>1. CASE k = n + 1
      BY <2>6, <2>8, <3>1 DEF changes
    <3>2. CASE k # n + 1
      <4>1. k \in 1..n /\ groups[n + 1].table # p[1]
        BY <1>1, <2>1, <2>8, <3>2 DEF GroupsHold
      <4> QED BY <2>2, <2>5, <2>8, <4>1
    <3> QED BY <3>1, <3>2
  <2> QED BY <2>4, <2>7, <2>8
<1> HIDE DEF S
<1>12. L \in S
  BY <1>1, <1>10, <1>11, Induction
<1>13. Holds(upTo[L], L)
  BY <1>12 DEF S
<1>14. ASSUME NEW p \in Places PROVE upTo[L][p] = AfterAll(rows, journal)[p]
  <2>1. CASE \A k \in 1..L : groups[k].table # p[1]
    <3>1. After(rows, journal, Len(journal))[p] = rows[p]
      BY <1>1, <2>1 DEF GroupsHold
    <3> QED BY <1>13, <2>1, <3>1 DEF AfterAll
  <2>2. CASE \E k \in 1..L : groups[k].table = p[1]
    <3>1. PICK k \in 1..L : groups[k].table = p[1]
      BY <2>2
    <3>2. AfterAll(rows, groups[k].changes)[p] = After(rows, journal, Len(journal))[p]
      BY <1>1, <3>1 DEF GroupsHold
    <3>3. upTo[L][p] = AfterAll(rows, groups[k].changes)[p]
      BY <1>13, <3>1
    <3>4. AfterAll(rows, journal) = After(rows, journal, Len(journal))
      BY DEF AfterAll
    <3> QED BY <3>2, <3>3, <3>4
  <2> QED BY <2>1, <2>2
<1>15. AfterAll(rows, journal) \in Rows
  <2>1. Len(journal) \in 0..Len(journal)
    OBVIOUS
  <2> QED BY <2>1, AfterType DEF AfterAll
<1> QED BY <1>8, <1>13, <1>14, <1>15 DEF Rows

\* Replaying the payload of an incremental backup is replaying its journal, for
\* a journal of any length: grouping by table changes nothing.
THEOREM PayloadsReplay ==
  \A rows \in Rows : \A journal \in Seq(Change) :
    ReplayedGroups(rows, Grouped(journal)) = AfterAll(rows, journal)
BY GroupedHolds, ReplayedGroupsHold

-----------------------------------------------------------------------------
(* The objects.                                                            *)

LEMMA NoneType == none \in Objects
BY DEF none, Objects

LEMMA OverlayListed ==
  ASSUME NEW old \in Objects, NEW was \in Objects, NEW is \in Objects
  PROVE  /\ Overlay(old, Listed(was, is)) \in Objects
         /\ \A o \in ObjectIds :
              Overlay(old, Listed(was, is))[o] =
                IF is[o] # NoObject /\ is[o] # was[o] THEN is[o] ELSE old[o]
<1> DEFINE changed == {x \in ObjectIds : is[x] # NoObject /\ is[x] # was[x]}
<1>1. Listed(was, is) = [o \in changed |-> is[o]]
  BY DEF Listed
<1> HIDE DEF changed
<1>2. DOMAIN Listed(was, is) = changed /\ \A o \in changed : Listed(was, is)[o] = is[o]
  BY <1>1
<1> USE DEF changed
<1>3. \A o \in ObjectIds :
        Overlay(old, Listed(was, is))[o] =
          IF is[o] # NoObject /\ is[o] # was[o] THEN is[o] ELSE old[o]
  BY <1>2 DEF Overlay
<1>4. Overlay(old, Listed(was, is)) = [o \in ObjectIds |-> Overlay(old, Listed(was, is))[o]]
  BY DEF Overlay
<1> QED BY <1>3, <1>4 DEF Objects

\* Overlaying the lists of the snapshots keeps every object of the last one.
LEMMA OverlaidKeeps ==
  ASSUME NEW L \in Nat, NEW history \in [1..L -> Objects]
  PROVE  /\ Overlaid(history) \in Objects
         /\ L # 0 => \A o \in ObjectIds :
              history[L][o] # NoObject => Overlaid(history)[o] = history[L][o]
<1> DEFINE Before(n) == IF n = 1 THEN none ELSE history[n - 1]
           Entry(f, n) == IF n = 0 THEN none ELSE Overlay(f[n - 1], Listed(Before(n), history[n]))
           upTo == CHOOSE f : f = [n \in 0..L |-> Entry(f, n)]
           overlay == [n \in 1..L |-> [e \in Objects |-> Overlay(e, Listed(Before(n), history[n]))]]
<1>1. Len(history) = L
  OBVIOUS
<1>2. ASSUME NEW n \in 1..L PROVE Before(n) \in Objects /\ history[n] \in Objects
  <2>1. n # 1 => n - 1 \in 1..L
    OBVIOUS
  <2> QED BY <2>1, NoneType
<1>3. overlay \in Turns(Objects, L)
  <2> HIDE DEF Before
  <2> QED BY <1>2, OverlayListed DEF Turns
<1>4. PICK f \in [0..L -> Objects] : f[0] = none /\ \A n \in 1..L : f[n] = overlay[n][f[n - 1]]
  <2> HIDE DEF overlay
  <2>1. Computations(Objects, L, none, overlay) # {}
    BY <1>3, NoneType, Iteration
  <2> QED BY <2>1 DEF Computations
<1>5. \A n \in 0..L : f[n] = Entry(f, n)
  <2> SUFFICES ASSUME NEW n \in 0..L PROVE f[n] = Entry(f, n)
    OBVIOUS
  <2>1. n # 0 => n \in 1..L /\ f[n - 1] \in Objects
    OBVIOUS
  <2> HIDE DEF Before
  <2> QED BY <1>4, <2>1
<1>6. f = [n \in 0..L |-> Entry(f, n)]
  <2> HIDE DEF Entry, overlay
  <2> QED BY <1>4, <1>5
<1>7. upTo = [n \in 0..L |-> Entry(upTo, n)]
  <2> HIDE DEF Entry, overlay
  <2> QED BY <1>6
<1>8. Overlaid(history) = upTo[L]
  BY <1>1, Zenon DEF Overlaid, Entry, Before
<1> HIDE DEF upTo
<1>9. \A n \in 0..L : upTo[n] = Entry(upTo, n)
  <2> HIDE DEF Entry
  <2> QED BY <1>7
<1> DEFINE Keeps(e, n) ==
             /\ e \in Objects
             /\ n # 0 => \A o \in ObjectIds : history[n][o] # NoObject => e[o] = history[n][o]
           S == {n \in Nat : n <= L => Keeps(upTo[n], n)}
<1>10. 0 \in S
  BY <1>9, NoneType
<1>11. ASSUME NEW n \in Nat, n \in S PROVE n + 1 \in S
  <2> SUFFICES ASSUME n + 1 <= L PROVE Keeps(upTo[n + 1], n + 1)
    OBVIOUS
  <2>1. n + 1 \in 1..L /\ n + 1 \in 0..L /\ (n + 1) - 1 = n /\ n + 1 # 0
    OBVIOUS
  <2>2. Keeps(upTo[n], n)
    BY <1>11, <2>1
  <2>3. upTo[n + 1] = Overlay(upTo[n], Listed(Before(n + 1), history[n + 1]))
    BY <1>9, <2>1
  <2>4. Before(n + 1) \in Objects /\ history[n + 1] \in Objects
    BY <1>2, <2>1
  <2>5. \A o \in ObjectIds : Before(n + 1)[o] # NoObject => upTo[n][o] = Before(n + 1)[o]
    BY <2>1, <2>2 DEF none
  <2> HIDE DEF Before
  <2>6. /\ upTo[n + 1] \in Objects
        /\ \A o \in ObjectIds :
             upTo[n + 1][o] = IF /\ history[n + 1][o] # NoObject
                                 /\ history[n + 1][o] # Before(n + 1)[o]
                                THEN history[n + 1][o] ELSE upTo[n][o]
    BY <2>2, <2>3, <2>4, OverlayListed
  <2> HIDE DEF upTo
  <2> QED BY <2>5, <2>6
<1> HIDE DEF S
<1>12. L \in S
  BY <1>10, <1>11, Induction
<1> QED BY <1>8, <1>12 DEF S

-----------------------------------------------------------------------------
(* Walking to the root.                                                    *)

Readable(id) == stored[id] \notin {Missing, Damaged}

StoredOK ==
  /\ stored \in [Ids -> Manifest \union {Missing, Damaged}]
  /\ \A s \in Ids : Readable(s) => stored[s] \in Manifests(s)
  /\ request \in Ids

\* The manifests that were loaded are the last ones of the path, child first, and
\* the next one is the one before them.
Agrees(path) ==
  /\ Len(chain) <= Len(path)
  /\ \A i \in DOMAIN chain : chain[i].id = path[Len(path) + 1 - i]
  /\ next = IF Len(chain) = Len(path) THEN NoParent ELSE path[Len(path) - Len(chain)]

\* What the walk has loaded is what is stored, each manifest once; where the
\* requested snapshot has a chain, the walk is on it.
WalkInv ==
  step = "walk" =>
    /\ seen = {chain[i].id : i \in DOMAIN chain}
    /\ Len(chain) = Cardinality(seen)
    /\ \A i \in DOMAIN chain : Readable(chain[i].id) /\ chain[i] = stored[chain[i].id]
    /\ IF chain = <<>> THEN next = request ELSE chain[1].id = request
    /\ \A path \in Paths : IsChain(path) => Agrees(path)

LEMMA PathType ==
  ASSUME NEW path \in Paths
  PROVE  /\ Len(path) \in 1..Cardinality(Ids) /\ DOMAIN path = 1..Len(path)
         /\ Len(path) \in Nat /\ 1 <= Len(path)
         /\ \A i \in 1..Len(path) : path[i] \in Ids /\ path[i] # NoParent
<1>1. PICK n \in 1..Cardinality(Ids) : path \in [1..n -> Ids]
  BY DEF Paths
<1>2. Cardinality(Ids) \in Nat
  BY ChainAssumption, FS_CardinalityType
<1>3. n \in Nat /\ Len(path) = n
  BY <1>1, <1>2
<1> QED BY <1>1, <1>3, ChainAssumption

LEMMA ManifestType ==
  ASSUME NEW m \in Manifest
  PROVE  /\ m.id \in Ids /\ m.parent \in Ids \union {NoParent} /\ m.identity \in Identities
BY DEF Manifest

\* No snapshot is twice on a chain: the first that was would have a parent as the
\* root, which has none.
LEMMA PathDistinct ==
  ASSUME NEW path \in Paths, IsChain(path)
  PROVE  \A i, j \in 1..Len(path) : path[i] = path[j] => i = j
<1> DEFINE twice == {i \in 1..Len(path) : \E j \in 1..Len(path) : i < j /\ path[i] = path[j]}
<1>1. Len(path) \in Nat /\ DOMAIN path = 1..Len(path) /\ twice \subseteq Nat
  BY PathType
<1>2. twice = {}
  <2> SUFFICES ASSUME twice # {} PROVE FALSE
    OBVIOUS
  <2>1. PICK i \in twice : \A k \in twice : i <= k
    <3> HIDE DEF twice
    <3> QED BY <1>1, LeastNatural
  <2>2. PICK j \in 1..Len(path) : i < j /\ path[i] = path[j]
    OBVIOUS
  <2>3. stored[path[j]].parent = path[j - 1] /\ j - 1 \in 1..Len(path)
    BY <1>1, <2>1, <2>2 DEF IsChain
  <2>4. CASE i = 1
    <3>1. stored[path[1]].parent = NoParent
      BY DEF IsChain
    <3> QED BY <2>2, <2>3, <2>4, <3>1, PathType
  <2>5. CASE i # 1
    <3>1. i - 1 \in 1..Len(path) /\ i \in 2..Len(path) /\ i - 1 < j - 1
      BY <1>1, <2>1, <2>2, <2>5
    <3>2. stored[path[i]].parent = path[i - 1]
      BY <3>1 DEF IsChain
    <3>3. i - 1 \in twice
      BY <2>2, <2>3, <3>1, <3>2
    <3> HIDE DEF twice
    <3> QED BY <1>1, <2>1, <3>1, <3>3
  <2> QED BY <2>4, <2>5
<1> QED BY <1>1, <1>2

\* Where the walk is on a chain and has not come to its root, it can go on.
LEMMA CanGoOn ==
  ASSUME StoredOK, NEW path \in Paths, IsChain(path), Agrees(path), chain \in Seq(Manifest),
         next # NoParent, seen = {chain[i].id : i \in DOMAIN chain}
  PROVE  /\ Len(chain) < Len(path) /\ next = path[Len(path) - Len(chain)]
         /\ Readable(next) /\ next \notin seen
<1>1. PICK L \in Nat : L = Len(path) /\ DOMAIN path = 1..L
  BY PathType
<1>2. PICK n \in Nat : n = Len(chain) /\ DOMAIN chain = 1..n
  OBVIOUS
<1>3. n < L /\ next = path[L - n]
  <2>1. n <= L /\ n # L
    BY <1>1, <1>2 DEF Agrees
  <2>2. next = path[L - n]
    BY <1>1, <1>2, <2>1 DEF Agrees
  <2> QED BY <2>1, <2>2
<1>4. L - n \in 1..L
  BY <1>3
<1>5. Readable(next)
  BY <1>1, <1>3, <1>4 DEF IsChain, Readable
<1>6. ASSUME NEW i \in 1..n PROVE chain[i].id # next
  <2>1. L + 1 - i \in 1..L /\ L + 1 - i # L - n
    BY <1>3
  <2>2. chain[i].id = path[L + 1 - i]
    BY <1>1, <1>2 DEF Agrees
  <2> QED BY <1>1, <1>3, <1>4, <2>1, <2>2, PathDistinct
<1> QED BY <1>1, <1>2, <1>3, <1>5, <1>6

\* The loop goes on as the invariant says.
LEMMA LoadNextOnPath ==
  ASSUME StoredOK, NEW path \in Paths, IsChain(path), Agrees(path), chain \in Seq(Manifest),
         seen = {chain[i].id : i \in DOMAIN chain}, LoadNext
  PROVE  Agrees(path)'
<1>1. PICK L \in Nat : L = Len(path) /\ DOMAIN path = 1..L
  BY PathType
<1>2. PICK n \in Nat : n = Len(chain) /\ DOMAIN chain = 1..n
  OBVIOUS
<1>3. n < L /\ next = path[L - n] /\ Readable(next)
  BY <1>1, <1>2, CanGoOn DEF LoadNext
<1>4. L - n \in 1..L /\ next \in Ids /\ stored[next] \in Manifests(next)
  BY <1>1, <1>3, PathType DEF StoredOK
<1>5. /\ chain' = Append(chain, stored[next]) /\ next' = stored[next].parent
      /\ stored[next].id = next /\ stored[next] \in Manifest
  BY <1>4 DEF LoadNext, Manifests
<1>6. /\ Len(chain') = n + 1 /\ DOMAIN chain' = 1..(n + 1)
      /\ chain'[n + 1] = stored[next] /\ \A i \in 1..n : chain'[i] = chain[i]
  BY <1>2, <1>5
<1>7. ASSUME NEW i \in 1..(n + 1) PROVE chain'[i].id = path[L + 1 - i]
  <2>1. CASE i = n + 1
    <3>1. L + 1 - i = L - n
      BY <2>1
    <3> QED BY <1>3, <1>5, <1>6, <2>1, <3>1
  <2>2. CASE i # n + 1
    <3>1. i \in 1..n
      BY <2>2
    <3> QED BY <1>1, <1>2, <1>6, <3>1 DEF Agrees
  <2> QED BY <2>1, <2>2
<1>8. next' = IF L - n = 1 THEN NoParent ELSE path[L - n - 1]
  <2>1. CASE L - n = 1
    BY <1>3, <1>5, <2>1 DEF IsChain
  <2>2. CASE L - n # 1
    <3>1. L - n \in 2..L
      BY <1>4, <2>2
    <3> QED BY <1>1, <1>3, <1>5, <2>2, <3>1 DEF IsChain
  <2> QED BY <2>1, <2>2
<1>9. (L - n = 1 <=> n + 1 = L) /\ L - n - 1 = L - (n + 1) /\ n + 1 <= L
  BY <1>3
<1> QED BY <1>1, <1>6, <1>7, <1>8, <1>9 DEF Agrees

LEMMA ReverseType ==
  ASSUME NEW c \in Seq(Manifest)
  PROVE  /\ Reverse(c) \in Seq(Manifest) /\ Len(Reverse(c)) = Len(c)
         /\ \A i \in 1..Len(c) : Reverse(c)[i] = c[Len(c) + 1 - i] /\ Len(c) + 1 - i \in 1..Len(c)
<1>1. \A i \in 1..Len(c) : (Len(c) - i) + 1 \in 1..Len(c) /\ (Len(c) - i) + 1 = Len(c) + 1 - i
  OBVIOUS
<1>2. Reverse(c) = [i \in 1..Len(c) |-> c[(Len(c) - i) + 1]]
  BY DEF Reverse
<1> QED BY <1>1, <1>2

\* A chain that the walk has found passes the checks.
LEMMA FoundIsValid ==
  ASSUME StoredOK, NEW path \in Paths, IsChain(path), Agrees(path), chain \in Seq(Manifest),
         \A i \in DOMAIN chain : chain[i] = stored[chain[i].id],
         next = NoParent
  PROVE  ValidChain(Reverse(chain))
<1> DEFINE c == Reverse(chain)
<1>1. PICK L \in Nat : L = Len(path) /\ 1 <= L /\ DOMAIN path = 1..L
  BY PathType
<1>2. PICK n \in Nat : n = Len(chain) /\ DOMAIN chain = 1..n
  OBVIOUS
<1>9. n = L
  <2>1. SUFFICES ASSUME n # L PROVE FALSE
    OBVIOUS
  <2>2. n <= L /\ next = path[L - n]
    BY <1>1, <1>2, <2>1 DEF Agrees
  <2>3. L - n \in 1..L
    BY <2>1, <2>2
  <2> QED BY <1>1, <2>2, <2>3, PathType
<1>3. c \in Seq(Manifest) /\ Len(c) = L /\ DOMAIN c = 1..L
  BY <1>2, <1>9, ReverseType
<1>4. ASSUME NEW i \in 1..L
      PROVE  c[i] = stored[path[i]] /\ c[i].id = path[i] /\ c[i] \in Manifest
  <2> DEFINE k == L + 1 - i
  <2>1. k \in 1..L /\ c[i] = chain[k] /\ L + 1 - k = i
    BY <1>2, <1>9, ReverseType
  <2>2. chain[k].id = path[L + 1 - k]
    BY <1>1, <1>2, <1>9, <2>1 DEF Agrees
  <2> QED BY <1>2, <1>3, <1>9, <2>1, <2>2
<1> HIDE DEF c
<1>5. c # <<>> /\ 1 \in 1..L
  BY <1>1, <1>3
<1>6. c[1].kind = "full" /\ c[1].parent = NoParent
  BY <1>4, <1>5 DEF IsChain
<1>7. \A i, j \in DOMAIN c : c[i].id = c[j].id => i = j
  BY <1>1, <1>3, <1>4, PathDistinct
<1>8. ASSUME NEW i \in 1..(Len(c) - 1) PROVE Follows(c[i], c[i + 1])
  <2>1. i \in 1..L /\ i + 1 \in 1..L /\ i + 1 \in 2..L /\ (i + 1) - 1 = i
    BY <1>1, <1>3
  <2>2. c[i + 1].parent = c[i].id
    <3>1. stored[path[i + 1]].parent = path[(i + 1) - 1]
      BY <1>1, <2>1 DEF IsChain
    <3> QED BY <1>4, <2>1, <3>1
  <2>3. c[i + 1].identity = c[i].identity
    <3>1. stored[path[i + 1]].identity = stored[path[i]].identity
      BY <1>1, <2>1 DEF IsChain
    <3> QED BY <1>4, <2>1, <3>1
  <2> QED BY <2>2, <2>3 DEF Follows
<1> QED BY <1>5, <1>6, <1>7, <1>8 DEF ValidChain, c

\* Manifests that pass the checks are the chain of the requested snapshot.
LEMMA ValidIsFound ==
  ASSUME StoredOK, chain \in Seq(Manifest), seen \subseteq Ids,
         seen = {chain[i].id : i \in DOMAIN chain}, Len(chain) = Cardinality(seen),
         \A i \in DOMAIN chain : Readable(chain[i].id) /\ chain[i] = stored[chain[i].id],
         chain # <<>> => chain[1].id = request,
         NEW c, c = Reverse(chain), ValidChain(c)
  PROVE  /\ Len(c) \in 1..Cardinality(Ids)
         /\ IsChain([i \in DOMAIN c |-> c[i].id])
         /\ \A i \in DOMAIN c : c[i] = stored[c[i].id]
<1> DEFINE path == [i \in DOMAIN c |-> c[i].id]
<1>1. PICK n \in Nat : n = Len(chain) /\ DOMAIN chain = 1..n
  OBVIOUS
<1>2. c \in Seq(Manifest) /\ Len(c) = n /\ DOMAIN c = 1..n
  BY <1>1, ReverseType
<1>3. c # <<>> /\ 1 <= n
  BY <1>2 DEF ValidChain
<1>4. n <= Cardinality(Ids) /\ Cardinality(Ids) \in Nat
  BY <1>1, ChainAssumption, FS_Subset, FS_CardinalityType
<1>5. ASSUME NEW i \in 1..n
      PROVE  /\ c[i] = chain[n + 1 - i] /\ c[i] \in Manifest
             /\ c[i] = stored[c[i].id] /\ Readable(c[i].id)
  <2>1. n + 1 - i \in 1..n /\ c[i] = chain[n + 1 - i]
    BY <1>1, ReverseType
  <2> QED BY <1>1, <1>2, <2>1
<1>6. c[n].id = request
  <2>1. n + 1 - n = 1 /\ n \in 1..n
    BY <1>3
  <2>2. chain # <<>>
    BY <1>1, <1>3
  <2> QED BY <1>5, <2>1, <2>2
<1>7. \A i \in 1..(n - 1) : Follows(c[i], c[i + 1])
  BY <1>2 DEF ValidChain
<1>8. ASSUME NEW i \in 1..n PROVE c[i].identity = c[1].identity
  <2> DEFINE S == {k \in Nat : k + 1 <= n => c[k + 1].identity = c[1].identity}
  <2>1. 0 \in S
    OBVIOUS
  <2>2. ASSUME NEW k \in Nat, k \in S PROVE k + 1 \in S
    <3> SUFFICES ASSUME (k + 1) + 1 <= n PROVE c[(k + 1) + 1].identity = c[1].identity
      OBVIOUS
    <3>1. k + 1 \in 1..(n - 1) /\ k + 1 \in 1..n /\ (k + 1) + 1 \in 1..n
      BY <1>1
    <3>2. Follows(c[k + 1], c[(k + 1) + 1])
      BY <1>7, <3>1
    <3>3. c[k + 1].identity \in Identities /\ c[(k + 1) + 1].identity \in Identities
      BY <1>5, <3>1, ManifestType
    <3>4. c[(k + 1) + 1].identity = c[k + 1].identity
      BY <3>2, <3>3, ChainAssumption DEF Follows
    <3>5. c[k + 1].identity = c[1].identity
      BY <2>2, <3>1
    <3> QED BY <3>4, <3>5
  <2> HIDE DEF S
  <2>3. i - 1 \in S
    BY <1>1, <2>1, <2>2, Induction
  <2>4. (i - 1) + 1 = i /\ i <= n
    OBVIOUS
  <2> QED BY <2>3, <2>4 DEF S
<1>9. Len(path) = n /\ DOMAIN path = 1..n /\ \A i \in 1..n : path[i] = c[i].id
  BY <1>1, <1>2
<1> HIDE DEF path
<1>10. stored[path[1]].kind = "full" /\ stored[path[1]].parent = NoParent /\ path[n] = request
  <2>1. 1 \in 1..n /\ n \in 1..n
    BY <1>1, <1>3
  <2> QED BY <1>5, <1>6, <1>9, <2>1 DEF ValidChain
<1>11. ASSUME NEW i \in 2..n PROVE stored[path[i]].parent = path[i - 1]
  <2>1. i - 1 \in 1..(n - 1) /\ i - 1 \in 1..n /\ (i - 1) + 1 = i /\ i \in 1..n
    BY <1>1
  <2>2. c[i].parent = c[i - 1].id
    BY <1>7, <2>1 DEF Follows
  <2> QED BY <1>5, <1>9, <2>1, <2>2
<1>12. ASSUME NEW i \in 1..n, NEW k \in 1..n
       PROVE  stored[path[i]].identity = stored[path[k]].identity
  BY <1>5, <1>8, <1>9
<1>13. \A i \in 1..n : stored[path[i]] \notin {Missing, Damaged}
  BY <1>5, <1>9 DEF Readable
<1>14. IsChain(path)
  BY <1>9, <1>10, <1>11, <1>12, <1>13 DEF IsChain
<1> QED BY <1>2, <1>3, <1>4, <1>5, <1>14 DEF path

-----------------------------------------------------------------------------
(* The inductive invariant.  FindsTheChain says nothing during the walk, and *)
(* holds after it for what WalkInv says of it.                               *)

CompactionInv ==
  /\ TypeOK /\ StoredOK /\ WalkInv
  /\ FindsTheChain /\ ReplayFollowsSource /\ KeepsObjectsInUse

LEMMA InitInv == Init => CompactionInv
<1> SUFFICES ASSUME Init PROVE CompactionInv
  OBVIOUS
<1>1. /\ request \in Ids /\ next = request /\ seen = {} /\ chain = <<>> /\ step = "walk"
  BY DEF Init, ChainInit
<1>2. chain \in Seq(Manifest) /\ Len(chain) = 0 /\ DOMAIN chain = {}
  BY <1>1
<1>3. TypeOK
  <2>1. at = 1 /\ at \in 1..(Cardinality(Ids) + 1)
    BY ChainAssumption, FS_CardinalityType DEF Init
  <2>2. source \in Rows /\ tableRows \in Rows /\ inUse \in Objects /\ entries \in Objects
    BY NoneType DEF Init, Rows
  <2> QED BY <1>1, <1>2, <2>1, <2>2 DEF TypeOK, Init
<1>4. StoredOK
  BY DEF Init, ChainInit, StoredOK, Readable
<1>5. ASSUME NEW path \in Paths, IsChain(path) PROVE Agrees(path)
  <2>1. PICK L \in Nat : L = Len(path) /\ 1 <= L
    BY PathType
  <2>2. path[L] = request /\ L - 0 = L
    BY <1>5, <2>1 DEF IsChain
  <2> QED BY <1>1, <1>2, <2>1, <2>2 DEF Agrees
<1>6. WalkInv
  <2>1. Cardinality(seen) = 0
    BY <1>1, FS_EmptySet
  <2> QED BY <1>1, <1>2, <1>5, <2>1 DEF WalkInv
<1>7. FindsTheChain /\ KeepsObjectsInUse
  BY <1>1 DEF FindsTheChain, KeepsObjectsInUse
<1>8. ReplayFollowsSource
  BY DEF Init, ReplayFollowsSource
<1> QED BY <1>3, <1>4, <1>6, <1>7, <1>8 DEF CompactionInv

\* After the walk the chain stays what it is.
LEMMA ChainStays ==
  ASSUME CompactionInv, step \notin {"walk", "rejected"}, step' \notin {"walk", "rejected"},
         UNCHANGED <<stored, request, next, seen, chain>>
  PROVE  FindsTheChain' /\ StoredOK' /\ WalkInv'
<1>1. FindsTheChain'
  <2>1. /\ Len(chain) \in 1..Cardinality(Ids)
        /\ IsChain([i \in DOMAIN chain |-> chain[i].id])
        /\ \A i \in DOMAIN chain : chain[i] = stored[chain[i].id]
    BY DEF CompactionInv, FindsTheChain
  <2>2. stored' = stored /\ request' = request /\ chain' = chain
    OBVIOUS
  <2>3. IsChain([i \in DOMAIN chain |-> chain[i].id])'
    BY <2>1, <2>2 DEF IsChain
  <2>4. \A i \in DOMAIN chain' : chain'[i] = stored'[chain'[i].id]
    BY <2>1, <2>2
  <2> QED BY <2>1, <2>2, <2>3, <2>4 DEF FindsTheChain
<1>2. StoredOK'
  BY DEF CompactionInv, StoredOK, Readable
<1>3. WalkInv'
  BY DEF WalkInv
<1> QED BY <1>1, <1>2, <1>3

LEMMA LoadNextInv ==
  ASSUME CompactionInv, LoadNext, UNCHANGED <<at, source, tableRows, tombstones, inUse, entries>>
  PROVE  CompactionInv'
<1> USE DEF CompactionInv
<1>1. PICK n \in Nat : n = Len(chain) /\ DOMAIN chain = 1..n
  BY DEF TypeOK
<1>2. /\ next \in Ids /\ stored[next] \in Manifest /\ stored[next].id = next
      /\ stored[next].parent \in Ids \union {NoParent}
      /\ step = "walk" /\ next \notin seen /\ Readable(next)
  BY ManifestType DEF LoadNext, TypeOK, StoredOK, Readable, Manifests
<1>3. /\ seen' = seen \union {next} /\ chain' = Append(chain, stored[next])
      /\ next' = stored[next].parent /\ stored' = stored /\ request' = request /\ step' = step
  BY DEF LoadNext
<1>4. /\ chain' \in Seq(Manifest) /\ Len(chain') = n + 1 /\ DOMAIN chain' = 1..(n + 1)
      /\ chain'[n + 1] = stored[next] /\ \A i \in 1..n : chain'[i] = chain[i]
  BY <1>1, <1>2, <1>3 DEF TypeOK
<1>5. \A i \in 1..(n + 1) : i \in 1..n \/ i = n + 1
  BY <1>1
<1>6. TypeOK'
  BY <1>2, <1>3, <1>4 DEF TypeOK
<1>7. StoredOK'
  BY <1>3 DEF StoredOK, Readable
<1>8. /\ seen = {chain[i].id : i \in 1..n} /\ n = Cardinality(seen)
      /\ \A i \in 1..n : Readable(chain[i].id) /\ chain[i] = stored[chain[i].id]
      /\ IF chain = <<>> THEN next = request ELSE chain[1].id = request
      /\ \A path \in Paths : IsChain(path) => Agrees(path)
  BY <1>1, <1>2 DEF WalkInv
<1>9. seen' = {chain'[i].id : i \in 1..(n + 1)}
  <2>1. \A i \in 1..n : chain'[i].id = chain[i].id /\ i \in 1..(n + 1)
    BY <1>1, <1>4
  <2>2. chain'[n + 1].id = next /\ n + 1 \in 1..(n + 1)
    BY <1>1, <1>2, <1>4
  <2>3. \A x : x \in seen \union {next} <=> \E i \in 1..(n + 1) : x = chain'[i].id
    <3>1. \A x : x \in seen <=> \E i \in 1..n : x = chain[i].id
      BY <1>8
    <3> QED BY <1>5, <2>1, <2>2, <3>1
  <2> QED BY <1>3, <2>3
<1>10. n + 1 = Cardinality(seen')
  <2>1. IsFiniteSet(seen)
    BY ChainAssumption, FS_Subset DEF TypeOK
  <2>2. Cardinality(seen \union {next}) = Cardinality(seen) + 1
    BY <1>2, <2>1, FS_AddElement
  <2>3. Cardinality(seen) = n
    BY <1>8
  <2> QED BY <1>3, <2>2, <2>3
<1>11. \A i \in 1..(n + 1) : /\ stored'[chain'[i].id] \notin {Missing, Damaged}
                           /\ chain'[i] = stored'[chain'[i].id]
  BY <1>2, <1>3, <1>4, <1>5, <1>8 DEF Readable
<1>12. chain' # <<>> /\ chain'[1].id = request'
  <2>1. CASE n = 0
    <3>1. chain = <<>>
      BY <1>1, <2>1
    <3> QED BY <1>2, <1>3, <1>4, <1>8, <2>1, <3>1
  <2>2. CASE n # 0
    <3>1. chain # <<>> /\ 1 \in 1..n
      BY <1>1, <2>2
    <3> QED BY <1>3, <1>4, <1>8, <3>1
  <2> QED BY <2>1, <2>2
<1>13. ASSUME NEW path \in Paths, IsChain(path)' PROVE Agrees(path)'
  <2>1. IsChain(path)
    BY <1>3, <1>13 DEF IsChain
  <2>2. StoredOK /\ chain \in Seq(Manifest) /\ Agrees(path)
    BY <1>8, <2>1 DEF TypeOK
  <2> QED BY <1>1, <1>8, <2>1, <2>2, LoadNextOnPath
<1>14. WalkInv'
  BY <1>4, <1>9, <1>10, <1>11, <1>12, <1>13 DEF WalkInv, Readable
<1>15. FindsTheChain' /\ KeepsObjectsInUse' /\ ReplayFollowsSource'
  BY <1>2, <1>3 DEF FindsTheChain, KeepsObjectsInUse, ReplayFollowsSource
<1> QED BY <1>6, <1>7, <1>14, <1>15

\* A walk that is given up was on no chain.
LEMMA LoadFailsInv ==
  ASSUME CompactionInv, LoadFails, UNCHANGED <<at, source, tableRows, tombstones, inUse, entries>>
  PROVE  CompactionInv'
<1> USE DEF CompactionInv
<1>1. /\ step = "walk" /\ step' = "rejected" /\ next # NoParent
      /\ next \in seen \/ ~Readable(next)
      /\ UNCHANGED <<stored, request, next, seen, chain>>
  BY DEF LoadFails, Readable
<1>2. ASSUME NEW path \in Paths, IsChain(path) PROVE FALSE
  <2>1. Agrees(path) /\ seen = {chain[i].id : i \in DOMAIN chain}
    BY <1>1, <1>2 DEF WalkInv
  <2>2. chain \in Seq(Manifest)
    BY DEF TypeOK
  <2> QED BY <1>1, <1>2, <2>1, <2>2, CanGoOn
<1>3. FindsTheChain'
  BY <1>1, <1>2 DEF FindsTheChain, IsChain
<1>4. TypeOK'
  BY <1>1 DEF TypeOK
<1>5. StoredOK'
  BY <1>1 DEF StoredOK, Readable
<1>6. WalkInv' /\ KeepsObjectsInUse' /\ ReplayFollowsSource'
  BY <1>1 DEF WalkInv, KeepsObjectsInUse, ReplayFollowsSource
<1> QED BY <1>3, <1>4, <1>5, <1>6

LEMMA ValidateInv ==
  ASSUME CompactionInv, Validate, UNCHANGED <<at, source, tableRows, tombstones, inUse, entries>>
  PROVE  CompactionInv'
<1> USE DEF CompactionInv
<1>1. /\ step = "walk" /\ next = NoParent /\ chain' = Reverse(chain)
      /\ step' = IF ValidChain(chain') THEN "loaded" ELSE "rejected"
      /\ UNCHANGED <<stored, request, next, seen>>
  BY DEF Validate
<1>2. /\ chain \in Seq(Manifest) /\ seen \subseteq Ids
      /\ seen = {chain[i].id : i \in DOMAIN chain} /\ Len(chain) = Cardinality(seen)
      /\ \A i \in DOMAIN chain : Readable(chain[i].id) /\ chain[i] = stored[chain[i].id]
      /\ chain # <<>> => chain[1].id = request
      /\ \A path \in Paths : IsChain(path) => Agrees(path)
  BY <1>1 DEF TypeOK, WalkInv
<1>3. FindsTheChain'
  <2>1. CASE ValidChain(chain')
    <3>1. /\ Len(chain') \in 1..Cardinality(Ids)
          /\ IsChain([i \in DOMAIN chain' |-> chain'[i].id])
          /\ \A i \in DOMAIN chain' : chain'[i] = stored[chain'[i].id]
      BY <1>1, <1>2, <2>1, ValidIsFound
    <3> QED BY <1>1, <2>1, <3>1 DEF FindsTheChain, IsChain
  <2>2. CASE ~ValidChain(chain')
    <3>1. ASSUME NEW path \in Paths, IsChain(path) PROVE FALSE
      BY <1>1, <1>2, <2>2, <3>1, FoundIsValid
    <3> QED BY <1>1, <2>2, <3>1 DEF FindsTheChain, IsChain
  <2> QED BY <2>1, <2>2
<1>4. TypeOK'
  BY <1>1, <1>2, ReverseType DEF TypeOK
<1>5. StoredOK'
  BY <1>1 DEF StoredOK, Readable
<1>6. WalkInv' /\ KeepsObjectsInUse' /\ ReplayFollowsSource'
  BY <1>1 DEF WalkInv, KeepsObjectsInUse, ReplayFollowsSource
<1> QED BY <1>3, <1>4, <1>5, <1>6

LEMMA ReplayFullInv ==
  ASSUME CompactionInv, ReplayFull
  PROVE  CompactionInv'
<1> USE DEF CompactionInv
<1>1. /\ step = "loaded" /\ step' = "replay"
      /\ UNCHANGED <<stored, request, next, seen, chain, tombstones, inUse, entries>>
  BY DEF ReplayFull
<1>2. FindsTheChain' /\ StoredOK' /\ WalkInv'
  BY <1>1, ChainStays
<1>3. TypeOK'
  <2>1. at' \in 1..(Cardinality(Ids) + 1)
    <3>1. Cardinality(Ids) \in Nat /\ 1 <= Cardinality(Ids)
      BY <1>1, ChainAssumption, FS_CardinalityType DEF FindsTheChain
    <3> QED BY <3>1 DEF ReplayFull
  <2>2. source' \in Rows /\ tableRows' \in Rows
    BY DEF ReplayFull
  <2> QED BY <1>1, <2>1, <2>2 DEF TypeOK
<1>4. ReplayFollowsSource' /\ KeepsObjectsInUse'
  BY <1>1 DEF ReplayFull, ReplayFollowsSource, KeepsObjectsInUse
<1> QED BY <1>2, <1>3, <1>4

LEMMA ReplayIncrementalInv ==
  ASSUME CompactionInv, ReplayIncremental
  PROVE  CompactionInv'
<1> USE DEF CompactionInv
<1>1. /\ step = "replay" /\ at <= Len(chain) /\ at' = at + 1
      /\ UNCHANGED <<stored, request, next, seen, chain, step, inUse, entries>>
  BY DEF ReplayIncremental, chainVars
<1>2. PICK journal \in Journals[source] :
        /\ source' = AfterAll(source, journal)
        /\ tableRows' = ReplayedGroups(tableRows, Grouped(journal))
        /\ tombstones' = tombstones \union TombstonesOf(journal)
  BY DEF ReplayIncremental, AfterAll
<1>3. journal \in Seq(Change)
  <2>1. PICK n \in 0..MaxChanges : journal \in [1..n -> Change]
    <3>1. source \in Rows
      BY DEF TypeOK
    <3> QED BY <1>2, <3>1 DEF Journals
  <2> QED BY <2>1, CompactionAssumption
<1>4. FindsTheChain' /\ StoredOK' /\ WalkInv'
  BY <1>1, ChainStays
<1>5. source \in Rows /\ tableRows = source
  BY DEF TypeOK, ReplayFollowsSource
<1>6. ReplayFollowsSource'
  BY <1>2, <1>3, <1>5, PayloadsReplay DEF ReplayFollowsSource
<1>7. source' \in Rows /\ tableRows' \in Rows
  <2>1. Len(journal) \in 0..Len(journal)
    BY <1>3
  <2>2. AfterAll(source, journal) \in Rows
    BY <1>3, <1>5, <2>1, AfterType DEF AfterAll
  <2> QED BY <1>2, <1>6, <2>2 DEF ReplayFollowsSource
<1>8. tombstones' \subseteq [place : Places, object : {NoObject}]
  <2>1. \A i \in DOMAIN journal : journal[i].place \in Places
    BY <1>3, ChangeType
  <2> QED BY <1>2, <2>1 DEF TombstonesOf, TypeOK
<1>9. at' \in 1..(Cardinality(Ids) + 1)
  <2>1. Len(chain) \in 1..Cardinality(Ids) /\ Cardinality(Ids) \in Nat
    BY <1>1, ChainAssumption, FS_CardinalityType DEF FindsTheChain
  <2>2. at \in 1..(Cardinality(Ids) + 1)
    BY DEF TypeOK
  <2> QED BY <1>1, <2>1, <2>2
<1>10. TypeOK'
  BY <1>1, <1>7, <1>8, <1>9 DEF TypeOK
<1>11. KeepsObjectsInUse'
  BY <1>1 DEF KeepsObjectsInUse
<1> QED BY <1>4, <1>6, <1>10, <1>11

LEMMA CompactObjectsInv ==
  ASSUME CompactionInv, CompactObjects
  PROVE  CompactionInv'
<1> USE DEF CompactionInv
<1>1. /\ step = "objects" /\ step' = "done"
      /\ UNCHANGED <<stored, request, next, seen, chain, at, source, tableRows, tombstones>>
  BY DEF CompactObjects
<1>2. PICK L \in Nat : L = Len(chain) /\ L # 0
  <2>1. Len(chain) \in 1..Cardinality(Ids) /\ Cardinality(Ids) \in Nat
    BY <1>1, ChainAssumption, FS_CardinalityType DEF FindsTheChain
  <2> QED BY <2>1
<1>3. PICK history \in [1..L -> Objects] :
        /\ inUse' = history[L]
        /\ entries' = [o \in ObjectIds |->
                         IF o \in {x.object : x \in tombstones} \ {NoObject} THEN NoObject
                                                                            ELSE Overlaid(history)[o]]
  BY <1>2 DEF CompactObjects
<1>4. {x.object : x \in tombstones} \ {NoObject} = {}
  BY DEF TypeOK
<1>5. /\ Overlaid(history) \in Objects
      /\ \A o \in ObjectIds : history[L][o] # NoObject => Overlaid(history)[o] = history[L][o]
  BY <1>2, OverlaidKeeps
<1>6. \A o \in ObjectIds : entries'[o] = Overlaid(history)[o]
  BY <1>3, <1>4
<1>7. KeepsObjectsInUse'
  BY <1>3, <1>5, <1>6 DEF KeepsObjectsInUse
<1>8. inUse' \in Objects /\ entries' \in Objects
  <2>1. L \in 1..L
    BY <1>2
  <2>2. entries' = [o \in ObjectIds |-> Overlaid(history)[o]]
    BY <1>3, <1>4
  <2> QED BY <1>3, <1>5, <2>1, <2>2 DEF Objects
<1>9. TypeOK'
  BY <1>1, <1>8 DEF TypeOK
<1>10. FindsTheChain' /\ StoredOK' /\ WalkInv'
  BY <1>1, ChainStays
<1>11. ReplayFollowsSource'
  BY <1>1 DEF ReplayFollowsSource
<1> QED BY <1>7, <1>9, <1>10, <1>11

LEMMA StepInv == CompactionInv /\ [Next]_vars => CompactionInv'
<1> SUFFICES ASSUME CompactionInv, [Next]_vars PROVE CompactionInv'
  OBVIOUS
<1>1. CASE LoadChain /\ UNCHANGED <<at, source, tableRows, tombstones, inUse, entries>>
  BY <1>1, LoadNextInv, LoadFailsInv, ValidateInv DEF LoadChain
<1>2. CASE ReplayFull
  BY <1>2, ReplayFullInv
<1>3. CASE ReplayIncremental
  BY <1>3, ReplayIncrementalInv
<1>4. CASE WriteTables \/ CompactionFails
  <2>1. /\ step \in {"loaded", "replay", "objects"} /\ step' \in {"objects", "failed"}
        /\ UNCHANGED <<stored, request, next, seen, chain, at, source, tableRows, tombstones,
                       inUse, entries>>
    BY <1>4 DEF WriteTables, CompactionFails
  <2>2. FindsTheChain' /\ StoredOK' /\ WalkInv'
    BY <2>1, ChainStays
  <2>3. TypeOK' /\ ReplayFollowsSource' /\ KeepsObjectsInUse'
    BY <2>1 DEF CompactionInv, TypeOK, ReplayFollowsSource, KeepsObjectsInUse
  <2> QED BY <2>2, <2>3 DEF CompactionInv
<1>5. CASE CompactObjects
  BY <1>5, CompactObjectsInv
<1>6. CASE Finished \/ UNCHANGED vars
  <2>1. UNCHANGED <<stored, request, next, seen, chain, step, at, source, tableRows, tombstones,
                    inUse, entries>>
    BY <1>6 DEF Finished, vars, chainVars
  <2>2. TypeOK' /\ ReplayFollowsSource' /\ KeepsObjectsInUse'
    BY <2>1 DEF CompactionInv, TypeOK, ReplayFollowsSource, KeepsObjectsInUse
  <2>3. stored' = stored /\ request' = request /\ chain' = chain /\ step' = step
    BY <2>1
  <2>4. StoredOK'
    BY <2>3 DEF CompactionInv, StoredOK, Readable
  <2>5. FindsTheChain'
    <3>1. \A path : IsChain(path)' <=> IsChain(path)
      BY <2>3 DEF IsChain
    <3>2. Paths' = Paths
      BY DEF Paths
    <3> QED BY <2>3, <3>1, <3>2 DEF CompactionInv, FindsTheChain
  <2>6. WalkInv'
    BY <2>1 DEF CompactionInv, WalkInv, Readable, IsChain, Agrees
  <2> QED BY <2>2, <2>4, <2>5, <2>6 DEF CompactionInv
<1> QED BY <1>1, <1>2, <1>3, <1>4, <1>5, <1>6 DEF Next

LEMMA CompactionInvHolds == Spec => []CompactionInv
BY InitInv, StepInv, PTL DEF Spec

\* The walk of load_manifest_chain and the fold of compact_chain stay within
\* their types; no more manifests are folded in than there are snapshots.
THEOREM CompactionTypeCorrect == Spec => []TypeOK
<1>1. CompactionInv => TypeOK
  BY DEF CompactionInv
<1> QED BY <1>1, CompactionInvHolds, PTL

\* load_manifest_chain returns the whole chain of the requested snapshot, root
\* first, where the repository holds one, and an error where it does not.
THEOREM ChainFound == Spec => []FindsTheChain
<1>1. CompactionInv => FindsTheChain
  BY DEF CompactionInv
<1> QED BY <1>1, CompactionInvHolds, PTL

\* compact_chain folds the payloads of a chain, each grouped by table, to the rows
\* the database had at the last snapshot.
THEOREM CompactedRowsAreSource == Spec => []ReplayFollowsSource
<1>1. CompactionInv => ReplayFollowsSource
  BY DEF CompactionInv
<1> QED BY <1>1, CompactionInvHolds, PTL

\* compact_object_entries leaves out no object that the source snapshot used.
THEOREM CompactedObjectsKept == Spec => []KeepsObjectsInUse
<1>1. CompactionInv => KeepsObjectsInUse
  BY DEF CompactionInv
<1> QED BY <1>1, CompactionInvHolds, PTL
=============================================================================
