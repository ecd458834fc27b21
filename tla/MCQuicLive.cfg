SPECIFICATION Spec
CONSTANTS
  Size = 2
  Chunk = 2
  Chan = 1
  Wire = 1
  MaxPauses = 1
  Desktop = FALSE
  Events = {"disk", "cancel"}
  NoFile = NoFile
PROPERTIES AttemptEnds Delivered CancelHeeded
CHECK_DEADLOCK FALSE
