CONSTANTS
  BufTypes = {"uniform"}
  LargeVertexData = TRUE
  VaoMayGrow = TRUE
  TimedPasses = FALSE
  MaxVer = 4
  MaxEpoch = 2
  MaxCmds = 4
SPECIFICATION Spec
INVARIANT VertexDataCoherent
