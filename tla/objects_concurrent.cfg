SPECIFICATION FullSpec
CONSTANTS
  o1 = o1  o2 = o2  o3 = o3  h1 = h1  h2 = h2
  Objects = {o1, o2, o3}
  Hashes = {h1, h2}
  HashOf <- MCHashOf
  Lists <- MCLists
  Concurrency = 3
  StableSource = FALSE
  Cancels = TRUE
  DeleteFails = TRUE
INVARIANTS FullInv NamedArePresent ObjectInv
PROPERTIES NamedStay RowsHaveObjects LastingAreAbandoned
