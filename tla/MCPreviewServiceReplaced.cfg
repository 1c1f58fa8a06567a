\* Two workers behind the transport: the descriptor an active lease needs.
SPECIFICATION ServiceSpec
CONSTANTS
  imp = imp
  view = view
  Keys = {imp, view}
  ImportKeys = {imp}
  Costs = {1}
  Requests = 2
  Workers = 2
  WorkingBytes = 2
  MaxSerial = 7
  MaxArrivals = 7
  Transports = {TRUE}
  Faulty = FALSE
  MaxCrashes = 0
INVARIANTS JobsDescribed
