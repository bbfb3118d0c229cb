CONSTANTS
  w1 = w1
  w2 = w2
  w3 = w3
  t1 = t1
  h1 = h1
  s1 = s1
  Writers = {w1, w2, w3}
  Breakers <- OneBreaker
  StaleAfter = 1
  MaxTime = 4
  AtomicPut = TRUE
  CrashUntil = 4
  MayOverrun = FALSE
  Ids = {1, 2}
  Tables = {t1}
  Hashes = {h1}
  Versions = {1}
  Dates = {1}
  Schemas = {s1}
  Exports <- MCExports
  Keeps = {1}
  Ops = {"full", "incremental", "compact", "prune", "delete"}
  ManifestFile = mf
  mf = mf
  FreshIds = TRUE
  CheckedParents = TRUE
  ManifestLast = FALSE
SPECIFICATION LockedSpec
SYMMETRY Alike
INVARIANTS
  TypeOK
  MutualExclusion
  HolderOwnsLock
  LockInv
  SnapshotsRestorable
  WorksUnderOwnLock
PROPERTIES
  OnlyStaleLocksBroken
  ReleasesOwnLock
  ImplementsMutex
  ImplementsRepository
