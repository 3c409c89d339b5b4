\* Three writers of one chunk, two crashes, and a file system such as ext4 or XFS,
\* where syncing a new directory makes its own name last.
SPECIFICATION Spec
CONSTANTS
  Writer = {w1, w2, w3}
  SyncsOwnName = TRUE
  MaxCrashes = 2
  NoFile = NoFile
INVARIANTS
  TypeOK
  NoPartialChunk
  AckedSurvives
SYMMETRY Symmetry
CHECK_DEADLOCK FALSE
