SPECIFICATION Spec
CHECK_DEADLOCK FALSE
CONSTANTS
  Goroutines = {g1}
  Events <- FewEvents
  EventIds = {"p", "f", "v"}
  Customers = {c1}
  c1 = c1
  Batches <- FewBatches
  Clocks <- DayAndNight
  Tunables <- DefaultTunables
  MaxBatch = 20
  GuardLimit = 1
  MaxDeliveries = 2
  MaxCrashes = 1
  MaxFaults = 1
  NoEvent = NoEvent
  Admins = {a1, a2}
  Loaded <- FewKnown
  Payments = {"pay"}
  Nothing = Nothing
  MaxRequests = 2
SYMMETRY AdminSymmetry
INVARIANTS
  TypeOK
  AdminsHeedEngine
  FulfilledWasOnHold
