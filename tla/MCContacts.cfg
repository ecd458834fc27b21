SPECIFICATION Spec
CONSTANTS
  me = me
  friend = friend
  double = double
  Devices = {me, friend, double}
  Me = me
  Addrs = {1, 2}
  NameOf <- Names
  WithId = {me, friend}
  Nowhere = Nowhere
  NoId = NoId
  Timeout = 3
  CleanEvery = 1
  Friend = "Friend"
  Ids = {friend, double}
INVARIANTS TypeOK ListedIffHeard ContactAsSaved
PROPERTY StopReturns
CHECK_DEADLOCK FALSE
