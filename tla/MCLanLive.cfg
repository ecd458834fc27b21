SPECIFICATION Spec
CONSTANTS
  Size = 2
  Block = 1
  Chan = 1
  Wire = 1
  MaxAttempts = 1
  MaxPauses = 1
  MaxEdits = 0
  Events = {"disk", "cancel", "break"}
  NoFile = NoFile
PROPERTIES AttemptEnds Delivered
CHECK_DEADLOCK FALSE
