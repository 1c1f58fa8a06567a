\* Both kinds of workers, one at a time; clients stop after the fourth
\* identity, leases go on.
SPECIFICATION ServiceLiveSpec
CONSTANTS
  imp = imp
  view = view
  Keys = {imp, view}
  ImportKeys = {imp}
  Costs = {1}
  Requests = 2
  Workers = 1
  WorkingBytes = 2
  MaxSerial = 10
  MaxArrivals = 5
  Transports = {TRUE, FALSE}
  Faulty = FALSE
  MaxCrashes = 0
INVARIANTS JobsDescribed LeasesRegistered
PROPERTIES HandlesServed
CHECK_DEADLOCK FALSE
