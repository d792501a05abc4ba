CONSTANTS
  r1 = r1
  c1 = c1
  RasterSrcs = {r1}
  ComputeSrcs = {c1}
  MaxCode = 2
  HdrLen = 2
  Damage = {"truncated"}
  CompileMayFail = TRUE
  AllocMayFail = TRUE
SPECIFICATION Spec
INVARIANT ShadersAreCompiledCode
