SPECIFICATION FairSpec
CONSTANTS
  n1 = n1
  n2 = n2
  w1 = w1
  w2 = w2
  Node = {n1, n2}
  NoNode = NoNode
  Gateways = {n2}
  Collectors = {n1}
  Memberships <- OneMayLapse
  Write = {w1}
  NumKeys = 1
  MaxChunks = 2
  W = 2
  Owners <- AllOwn
  SliceOf <- OwnSlice
  NumSlices = 2
  BadSlices = {1}
  MaxFaults = 1
  GraceCoversTail = TRUE
INVARIANTS Durable InFlightHeld
PROPERTIES GarbageCollected RecordEnds
