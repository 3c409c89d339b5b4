SPECIFICATION Spec
CONSTANTS
  Names <- MCNames
  Requests <- MCRequests
  ScanPageSize = 2
  ScanBudget = 3
  Elsewhere = {1}
  MaxChanges = 1
  MaxFailures = 1
INVARIANTS
  TypeOK
  NothingMissed
  ReportedOnce
  MoreMeansMore
PROPERTY ListingEnds
CHECK_DEADLOCK FALSE
