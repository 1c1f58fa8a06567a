\* As MCPreviewStore: an eviction is cut off between the file and the row.
SPECIFICATION StoreLiveSpec
CONSTANTS
  Slots = 2
  Objects = 3
  Roots = {home, other}
  Home = home
  Budget = 2
  MaxFaults = 1
PROPERTIES RetryEndsRelocation
CHECK_DEADLOCK FALSE
