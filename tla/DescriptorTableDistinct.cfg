CONSTANTS
  t1 = t1
  t2 = t2
  t3 = t3
  t4 = t4
  t5 = t5
  NumWords = 2
  WordBits = 2
  Texs = {t1, t2, t3, t4, t5}
  CreateMayFail = TRUE
SPECIFICATION Spec
INVARIANT DistinctSlots
