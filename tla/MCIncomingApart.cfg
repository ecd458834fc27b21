SPECIFICATION Spec
CONSTANTS
  Handlers = {first, second}
  Requests = {request}
  Commands = {}
  NoOne = NoOne
INVARIANT HandlersKeepApart
CHECK_DEADLOCK FALSE
