SPECIFICATION SafeSpec
CONSTANTS
  Size = 3
  Chunk = 2
  Chan = 1
  Wire = 2
  MaxPauses = 0
  Desktop = TRUE
  Events = {"drop", "break", "source", "disk", "cancel", "late"}
  NoFile = NoFile
INVARIANTS TypeOK HashesAgree CompleteIsExact TruncationMeansFailure LeakOnlyOnFailure SettledIsDelivered
CHECK_DEADLOCK FALSE
