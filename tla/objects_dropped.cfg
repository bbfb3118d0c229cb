SPECIFICATION Spec
CONSTANTS
  o1 = o1  o2 = o2  o3 = o3  h1 = h1  h2 = h2
  Objects = {o1, o2, o3}
  Hashes = {h1, h2}
  HashOf <- MCHashOf
  Lists <- MCLists
  Concurrency = 2
  StableSource = FALSE
  Cancels = FALSE
  DeleteFails = FALSE
INVARIANTS NamedAreGood
