SPECIFICATION Spec
CONSTANTS
  Handlers = {first, second}
  Requests = {request}
  Commands = {"cancel", "delete"}
  NoOne = NoOne
SYMMETRY HandlerSymmetry
INVARIANTS TypeOK OneTransferPerApproval ReachableByUser NothingRegistered YesIsHeeded
CHECK_DEADLOCK FALSE
