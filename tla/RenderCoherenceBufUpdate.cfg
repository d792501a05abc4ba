CONSTANTS
  BufTypes = {"uniform", "storage"}
  LargeVertexData = FALSE
  VaoMayGrow = FALSE
  TimedPasses = FALSE
  MaxVer = 4
  MaxEpoch = 2
  MaxCmds = 4
SPECIFICATION Spec
INVARIANT BufferDataCoherent
