SPECIFICATION Spec
CONSTANTS
  n1 = n1
  n2 = n2
  w1 = w1
  w2 = w2
  Node = {n1, n2}
  NoNode = NoNode
  Gateways = {n2}
  Collectors = {n1}
  Memberships <- OneMayLapse
  Write = {w1, w2}
  NumKeys = 2
  MaxChunks = 1
  W = 1
  Owners <- OneOwns
  SliceOf <- OneSlice
  NumSlices = 1
  BadSlices = {}
  MaxFaults = 0
  GraceCoversTail = TRUE
SYMMETRY Symmetry
INVARIANTS TypeOK MarkIsComplete
PROPERTIES OnlyGarbageRemoved IsObjectStore
