\* One cost that two processes cannot both reserve; callers stop after the
\* fourth identity, leases go on.
SPECIFICATION LiveSpec
CONSTANTS
  k1 = k1
  k2 = k2
  Keys = {k1, k2}
  Costs = {2}
  Requests = 2
  Workers = 2
  WorkingBytes = 3
  MaxSerial = 10
  MaxArrivals = 5
CHECK_DEADLOCK FALSE
PROPERTIES ForegroundStarts
