\* Failing reads of the catalog and writes of the journal, two workers of
\* either kind, one crash.
SPECIFICATION ServiceSpec
CONSTANTS
  imp = imp
  view = view
  Keys = {imp, view}
  ImportKeys = {imp}
  Costs = {1}
  Requests = 2
  Workers = 2
  WorkingBytes = 2
  MaxSerial = 6
  MaxArrivals = 6
  Transports = {TRUE, FALSE}
  Faulty = TRUE
  MaxCrashes = 1
INVARIANTS ImportsRemembered ReadyIsAttached WorkJournaled
