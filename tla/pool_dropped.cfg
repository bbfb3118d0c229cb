SPECIFICATION Spec
CONSTANTS
  a = a
  b = b
  r1 = r1
  c1 = c1
  c2 = c2
  Restorers = {r1}
  Rows = {a, b}
  ClearOrder <- MCClearOrder
  Connections = {c1}
  Backends = {"sqlite"}
  Depth = 3
  Exports <- MCExports
  Others <- MCOthers
  Modes = {"apply"}
  Removals = FALSE
  Rewrites = FALSE
INVARIANTS
  NeverPooledWithoutKeys
