SPECIFICATION Spec
CONSTANTS
  MinChunk = 1
  MaxChunk = 2
  MaxPayload = 2
  Overhead = 1
  Size = 3
  ChunkSizes = {2, 3}
  Window = 2
  NetCap = 2
  Parallel = 2
  WireCap = 2
  MaxSends = 2
  MaxFaults = 1
  Receivers = {"listen", "slow"}
INVARIANTS TypeOK VerifiedIsExact RecordTellsOutcome
PROPERTIES BothEnd Delivered
CHECK_DEADLOCK FALSE
