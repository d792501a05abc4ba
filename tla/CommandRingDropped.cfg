CONSTANTS
  NumSlices = 3
  MaxQueue = 6
  WorkBetweenFrames = FALSE
  InitMayFail = TRUE
  ClientFormats = {"RGBA8_Unorm", "BGRA8_Unorm", "RGB10A2_Unorm"}
SPECIFICATION Spec
PROPERTY NoRecordedWorkDropped
