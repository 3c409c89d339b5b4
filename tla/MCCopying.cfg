CONSTANTS
  Blob = {b1, b2, b3}
  NoBlob = NoBlob
  Copier = {c1}
  NumPlaces = 2
  PageSize = 1
  QuietSource = TRUE
SPECIFICATION Spec
SYMMETRY Symmetry
INVARIANT Readable
