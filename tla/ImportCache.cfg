CONSTANTS
  h1 = h1
  h2 = h2
  Handles = {h1, h2}
  NumCtx = 3
  NumPlanes = 2
  NumWords = 1
  WordBits = 4
  AllocMayFail = TRUE
  MaxQueue = 2
SPECIFICATION Spec
INVARIANTS TypeOK SlotsOwned
PROPERTY CacheSpec
SYMMETRY HandleSymmetry
