\* Two nodes and three leases between them: starts, deaths, restarts, lapses, and one
\* watch that etcd ends.
SPECIFICATION Spec
CONSTANTS
  Node = {n1, n2}
  MaxLease = 3
  MaxCloses = 1
  NoLease = NoLease
INVARIANTS
  TypeOK
  NoMissedChange
  OldLeaseHarmless
PROPERTY FollowsMembers
CHECK_DEADLOCK FALSE
