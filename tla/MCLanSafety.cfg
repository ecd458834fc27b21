SPECIFICATION SafeSpec
CONSTANTS
  Size = 3
  Block = 2
  Chan = 1
  Wire = 1
  MaxAttempts = 2
  MaxPauses = 0
  MaxEdits = 1
  Events = {"break", "crash", "disk", "source"}
  NoFile = NoFile
INVARIANTS TypeOK CompleteIsExact NothingLeftBehind CountersAgree MismatchExplained
PROPERTY ImplementsDelivery
CHECK_DEADLOCK FALSE
