SPECIFICATION Spec
CONSTANTS
  Handles = {h1, h2}
  MaxItems = 1
  MaxAttempts = 2
  MaxOutside = 2
SYMMETRY HandleSymmetry
INVARIANTS CompletedExact InstalledAuthorized SealOfAttempt DisplacedRecoverable
PROPERTIES NothingOverwritten CancelHolds
CHECK_DEADLOCK FALSE
