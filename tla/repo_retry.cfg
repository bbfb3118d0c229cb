CONSTANTS
  w1 = w1
  w2 = w2
  t1 = t1
  t2 = t2
  h1 = h1
  h2 = h2
  s1 = s1
  s2 = s2
  mf = mf
  Writers = {w1}
  Ids = {1, 2, 3}
  Tables = {t1}
  Hashes = {}
  Versions = {1, 2}
  Dates = {1, 2}
  Schemas = {s1}
  Exports <- NoObjects
  Keeps = {1}
  Ops <- WithoutCompact
  ManifestFile = mf
  FreshIds = TRUE
  CheckedParents = TRUE
  ManifestLast = TRUE
SPECIFICATION RetrySpec
INVARIANTS
  PruneNeverStuck
PROPERTIES
  InterruptedPruneResumes
