SPECIFICATION FairSpec
CONSTANTS
  Handles = {e, c}
  Executor = e
  MaxItems = 1
  MaxAttempts = 3
  MaxOutside = 1
  MaxFaults = 2
INVARIANTS OneRenderer 
PROPERTIES ImplementsPhotoExports  IntentsSettled
CHECK_DEADLOCK FALSE
