CONSTANTS
  BufTypes = {"uniform", "storage"}
  LargeVertexData = TRUE
  VaoMayGrow = TRUE
  TimedPasses = TRUE
  MaxVer = 4
  MaxEpoch = 2
  MaxCmds = 4
SPECIFICATION Spec
INVARIANTS TypeOK VertexDataCoherent BufferDataCoherent
