SPECIFICATION Spec
CHECK_DEADLOCK FALSE
CONSTANTS
  Goroutines = {g1}
  Events <- AllEvents
  EventIds = {"p", "f", "l", "m", "v", "s"}
  Customers = {c1}
  c1 = c1
  Batches <- OneByOne
  Clocks <- NoonOnly
  Tunables <- DefaultTunables
  MaxBatch = 20
  GuardLimit = 2
  MaxDeliveries = 1
  MaxCrashes = 0
  MaxFaults = 0
  NoEvent = NoEvent
  Admins = {a1}
  Loaded <- Known
  Payments = {"pay"}
  Nothing = Nothing
  MaxRequests = 1
INVARIANTS
  NeverOverridden
