CONSTANTS
  w1 = w1
  w2 = w2
  t1 = t1
  t2 = t2
  h1 = h1
  h2 = h2
  s1 = s1
  s2 = s2
  mf = mf
  Writers = {w1}
  Ids = {1, 2, 3}
  Tables = {t1}
  Hashes = {h1, h2}
  Versions = {1, 2}
  Dates = {1, 2}
  Schemas = {s1, s2}
  Exports <- NewSchema
  Keeps = {1}
  Ops <- WithoutDelete
  ManifestFile = mf
  FreshIds = TRUE
  CheckedParents = FALSE
  ManifestLast = FALSE
SPECIFICATION Spec
PROPERTIES
  RestorableStays
  PruneLeavesASnapshot
