\* Two copies, or a shard and its parity, on three nodes; each node hears of a change of membership in its own
\* time, so that several of them may move the object at once.
SPECIFICATION Spec
CONSTANTS
  a = a
  b = b
  c = c
  Node = {a, b, c}
  Version = {x1, x2}
  Walk <- MCWalk
  Starts <- MCStarts
  Data = 1
  Parity = 1
  Replicas = 2
  W = 1
  Memberships <- JoinAndLeave
  MaxRevision = 3
  MaxSweeps = 2
  NoManifest = NoManifest
  NoMove = NoMove
  NoPage = NoPage
SYMMETRY Symmetry
INVARIANTS
  TypeOK
  NewestServed
  HeldAtW
CHECK_DEADLOCK FALSE
