SPECIFICATION MCSpec
CONSTANTS
  t = t  u = u  k = k  rowA = rowA  rowB = rowB  o1 = o1  h1 = h1  h2 = h2
  Ids = {1, 2, 3}
  Identities <- MCIdentities
  Missing = Missing
  Damaged = Damaged
  Places <- MCPlaces
  RowBodies = {rowA, rowB}
  NoRow = NoRow
  ObjectIds = {o1}
  Hashes = {h1, h2}
  NoObject = NoObject
  MaxChanges = 3
INVARIANTS
  TypeOK
  FindsTheChain
  ReplayFollowsSource
  KeepsObjectsInUse
PROPERTIES
  CompactionEnds
