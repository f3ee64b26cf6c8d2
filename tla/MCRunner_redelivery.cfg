SPECIFICATION Spec
CONSTANTS
  Goroutines = {g1}
  Events <- TwoEvents
  EventIds = {"a", "b"}
  Customers = {c1}
  c1 = c1
  Batches <- TwoBatches
  Clocks <- DayClock
  Tunables <- TwoTries
  MaxBatch = 3
  GuardLimit = 6
  MaxDeliveries = 3
  MaxCrashes = 1
  MaxFaults = 1
  NoEvent = NoEvent
INVARIANTS
  OnlyLastOutcomeMissing
  RetryBudget
PROPERTIES
  LimitReported
  KeepsCaseLedger
