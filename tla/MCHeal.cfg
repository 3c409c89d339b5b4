\* Three nodes, one more that repairs for them, and every sequence of up to three faults:
\* three replicas, and two data shards with one of parity.
SPECIFICATION HealSpec
CONSTANTS
  NumNodes = 3
  Data = 2
  MaxFaults = 3
INVARIANT HealTypeOK
PROPERTIES
  Healed
  RepairSettles
CHECK_DEADLOCK FALSE
