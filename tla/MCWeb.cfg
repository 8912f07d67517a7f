CONSTANTS
  Clients = {"a", "b"}
  Vanishing = {"a"}
  Request <- MCRequest
  Scripts <- MCScripts
  MaxRequest = 3
  RecvSize = 4
  MaxPings = 1
SPECIFICATION Spec
INVARIANTS LoopStaysInList RequestsInOrder FramesAsSent
PROPERTY NobodyWaits
CHECK_DEADLOCK FALSE
