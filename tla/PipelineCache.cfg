CONSTANTS
  r1 = r1
  c1 = c1
  RasterSrcs = {r1}
  ComputeSrcs = {c1}
  MaxCode = 2
  HdrLen = 2
  Damage = {"magic", "version", "short"}
  CompileMayFail = TRUE
  AllocMayFail = TRUE
SPECIFICATION Spec
INVARIANTS TypeOK ShadersAreCompiledCode VertexAttribsMatchInputs
