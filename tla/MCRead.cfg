SPECIFICATION Spec
CONSTANTS
  n1 = n1
  n2 = n2
  n3 = n3
  Nodes = {n1, n2, n3}
  Self = n2
  Reads <- MCReads
  MaxInt = 15
  MaxFaults = 2
INVARIANTS
  TypeOK
  WindowIsWanted
  CompleteIsExact
  RefusedRightly
  Survives
