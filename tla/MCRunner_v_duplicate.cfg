SPECIFICATION Spec
CONSTANTS
  Goroutines = {g1}
  Events <- TwoEvents
  EventIds = {"a", "b"}
  Customers = {c1}
  c1 = c1
  Batches <- TwoBatches
  Clocks <- DayClock
  Tunables <- SmallTunables
  MaxBatch = 2
  GuardLimit = 6
  MaxDeliveries = 3
  MaxCrashes = 0
  MaxFaults = 0
  NoEvent = NoEvent
INVARIANTS
  DuplicateWasProcessed
