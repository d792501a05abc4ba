CONSTANTS
  h1 = h1
  h2 = h2
  Handles = {h1, h2}
  NumCtx = 2
  NumPlanes = 2
  NumWords = 1
  WordBits = 4
  AllocMayFail = FALSE
  MaxQueue = 2
SPECIFICATION Spec
INVARIANT SampledImportsAlive
SYMMETRY HandleSymmetry
