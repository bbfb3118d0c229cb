SPECIFICATION Spec
CONSTANTS
  a = a
  b = b
  r1 = r1
  Restorers = {r1}
  Rows = {a, b}
  c1 = c1
  c2 = c2
  ClearOrder <- MCClearOrder
  Connections = {c1, c2}
  Backends = {"sqlite", "postgres"}
  Depth = 3
  Exports <- MCExports
  Others <- MCOthers
  Modes = {"apply", "dry"}
  Removals = TRUE
  Rewrites = TRUE
INVARIANTS
  TypeOK
  TargetIsPrefix
  PoolEnforcesForeignKeys
PROPERTIES
  RestoredIsSnapshot
  DryRunLeavesTarget
