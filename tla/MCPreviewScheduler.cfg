\* Two keys, two costs, two workers, three open requests, six identities.
SPECIFICATION Spec
CONSTANTS
  k1 = k1
  k2 = k2
  Keys = {k1, k2}
  Costs = {1, 2}
  Requests = 3
  Workers = 2
  WorkingBytes = 3
  MaxSerial = 6
  MaxArrivals = 6
SYMMETRY Symmetry
INVARIANTS TypeOK ConsumersTracked LeasesOwned StoppedUnwanted ReservationsExact
PROPERTIES PreemptionInvisible StartsInOrder
