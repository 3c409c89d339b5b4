CONSTANTS
  NumUploads = 1
  PartNumber = {p1, p2}
  Completer = {c1, c2}
  Blob = {b1, b2}
  NoBlob = NoBlob
  NumPlaces = 2
  PageSize = 1
SPECIFICATION Spec
SYMMETRY Symmetry
INVARIANTS TypeOK HandedOver PartsHeld NoOrphanParts HonestRetry
CHECK_DEADLOCK FALSE
