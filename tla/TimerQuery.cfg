CONSTANTS
  a = a
  b = b
  Timers = {a, b}
  MaxQueries = 4
  CycleMod = 4
  MaxQueue = 4
SPECIFICATION Spec
INVARIANTS TypeOK TimerResultFromOneCycle QuerySlotsExclusive
